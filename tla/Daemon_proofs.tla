--------------------------- MODULE Daemon_proofs ---------------------------
(* The daemon, for any number of connections and any bounds: types, what the  *)
(* broadcast owes the sessions, and what the answers to commands rest on.     *)
EXTENDS DaemonProperties, EventStore_proofs, FiniteSetTheorems

-----------------------------------------------------------------------------
(* The invariant.  Each part is what the next ones need.                     *)

\* The loops of a session, and its place in the table, come with the handshake.
Attached ==
    \A c \in Conns :
        /\ (c \in sessions \cup drain \/ loop[c] # "off" \/ ping[c] # "off") =>
              handler[c] = "done"
        /\ handler[c] = "none" <=> conn[c] = "none"
        /\ c \in gone => conn[c] # "none"

\* A fan-out is under way exactly while its goroutine waits for it.
FanOwners ==
    /\ \A c \in Conns : fan[c].stage # "idle" <=> loop[c] = "fan"
    /\ fan[Dev].stage # "idle" <=> dev.pc \in {"complete", "reload"}

\* It carries a row of the log, to sessions that want it; read loops carry no
\* build events.
FanRows ==
    \A t \in Threads : fan[t].stage # "idle" =>
        /\ fan[t].id \in DOMAIN events
        /\ fan[t].stage = "out" =>
              \A d \in fan[t].left : Wants(d, events[fan[t].id])
        /\ t \in Conns => events[fan[t].id].build = 0

SinceInLog == \A c \in Conns : since[c] <= Len(events)

\* What a client is about to be sent finds the older build events there.
OutInOrder ==
    fan[Dev].stage = "out" =>
        \A d \in fan[Dev].left : \A i \in 1..(fan[Dev].id - 1) :
            (/\ events[i].build > 0 /\ i > since[d]
             /\ Wants(d, events[i])) => i \in seen[d].live \/ conn[d] = "closed"

DInv == /\ TypeOK
        /\ Attached
        /\ FanOwners
        /\ FanRows
        /\ SinceInLog
        /\ ReplayMatchesItems
        /\ NoLostBroadcast
        /\ OnlyNegotiatedFrames
        /\ OutInOrder
        /\ BuildEventsInOrder

LEMMA InitDInv == Init => DInv
<1> SUFFICES ASSUME Init PROVE DInv
  OBVIOUS
<1>1. TypeOK
  <2>1. NoCommand \in Command
    BY DEF NoCommand, Command, Capabilities, HandlerCapabilities, Jobs
  <2>2. EmptyView \in View
    BY DEF EmptyView, View
  <2>3. Idle \in Job /\ NoFan \in Fan /\ Unaware \in Seen
    BY <2>1, <2>2 DEF Idle, NoReply, Job, Reply, NoFan, Fan, Unaware, Seen
  <2> QED BY <2>3, StoreInitOK
          DEF Init, TypeOK, HandlerPCs, LoopPCs, DevState
<1>2. ReplayMatchesItems
  BY StoreInitOK DEF Init
<1> QED BY <1>1, <1>2
    DEF Init, StoreInit, DInv, Attached, FanOwners, FanRows, SinceInLog, NoLostBroadcast,
        OnlyNegotiatedFrames, OutInOrder, BuildEventsInOrder, NoFan, Threads, Unaware,
        Reachable

-----------------------------------------------------------------------------
(* Types, one fact per action.                                               *)

LEMMA ExtType == ASSUME NEW c \in Conns PROVE Ext(c) \in Exts \cup {NoExt}
<1> Client[c] \in Hello
  BY DaemonAssumption
<1> QED BY StoreAssumption DEF Ext, Hello

LEMMA JobTypes == /\ Idle \in Job
                  /\ \A c \in Conns, pc \in LoopPCs :
                        TypeOK /\ Goto(c, pc) => loop' \in [Conns -> LoopPCs]
<1>1. NoCommand \in Command
  BY DEF NoCommand, Command, Capabilities, HandlerCapabilities, Jobs
<1>2. EmptyView \in View
  BY DEF EmptyView, View
<1>3. Idle \in Job
  BY <1>1, <1>2 DEF Idle, NoReply, Job, Reply
<1> QED BY <1>3 DEF Goto, TypeOK

LEMMA FanTypes == ASSUME TypeOK, NEW t \in Threads
                  PROVE  /\ StartFan(t) => fan' \in [Threads -> Fan]
                         /\ fan' = [fan EXCEPT ![t] = NoFan] => fan' \in [Threads -> Fan]
<1>1. NoFan \in Fan
  BY DEF NoFan, Fan
<1>2. [NoFan EXCEPT !.stage = "snap", !.id = Len(events) + 1] \in Fan
  <2> Len(events) + 1 \in Nat
    BY DEF TypeOK, StoreTypeOK
  <2> QED BY DEF NoFan, Fan
<1> QED BY <1>1, <1>2 DEF TypeOK, StartFan

LEMMA HandshakeTypes ==
  ASSUME TypeOK, NEW c \in Conns, Connect(c) \/ Leave(c) \/ Handshake(c)
  PROVE  TypeOK'
<1>1. CASE Connect(c)
  BY <1>1 DEF Connect, TypeOK, storeVars, loopVars, stopVars, StoreTypeOK, HandlerPCs
<1>2. CASE Leave(c)
  BY <1>2 DEF Leave, TypeOK, storeVars, loopVars, stopVars, StoreTypeOK
<1>3. CASE RejectHello(c)
  BY <1>3 DEF RejectHello, Refuse, TypeOK, storeVars, loopVars, stopVars, StoreTypeOK,
              HandlerPCs
<1>4. ASSUME NEW name \in {"hello", "hello.ack"}, NEW next \in HandlerPCs,
             Persist(c, name, next),
             UNCHANGED <<loopVars, ping, fan, dev, stopVars, seen>>
      PROVE  TypeOK'
  <2>1. CASE AppendEvent(name, Ext(c), 0) /\ Advance(c, next) /\ UNCHANGED faults
    <3>1. StoreTypeOK'
      <4> PlainEvent(name, Ext(c), 0) \in Event
        BY ExtType, PlainEventType DEF EventNames
      <4> QED BY <2>1 DEF AppendEvent, TypeOK, StoreTypeOK
    <3> QED BY <1>4, <2>1, <3>1 DEF Advance, TypeOK, loopVars, stopVars
  <2>2. CASE StoreFault(StoreClosed) /\ Refuse(c) /\ UNCHANGED storeVars
    BY <1>4, <2>2 DEF StoreFault, Refuse, TypeOK, StoreTypeOK, storeVars, loopVars, stopVars,
                      HandlerPCs
  <2> QED BY <1>4, <2>1, <2>2 DEF Persist
<1>5. CASE AcceptHello(c)
  BY <1>4, <1>5 DEF AcceptHello, HandlerPCs
<1>6. CASE Acknowledge(c)
  <2>1. CASE Persist(c, "hello.ack", "register")
    BY <1>4, <1>6, <2>1 DEF Acknowledge, HandlerPCs
  <2>2. CASE Refuse(c) /\ UNCHANGED <<storeVars, faults>>
    BY <1>6, <2>2 DEF Acknowledge, Refuse, TypeOK, storeVars, loopVars, stopVars,
                      StoreTypeOK, HandlerPCs
  <2> QED BY <1>6, <2>1, <2>2 DEF Acknowledge
<1>7. CASE Register(c)
  BY <1>7 DEF Register, TypeOK, storeVars, loopVars, stopVars, StoreTypeOK, HandlerPCs,
              LoopPCs
<1> QED BY <1>1, <1>2, <1>3, <1>5, <1>6, <1>7 DEF Handshake

LEMMA ReceivesType ==
  ASSUME TypeOK, NEW d \in Conns, NEW i \in DOMAIN events
  PROVE  Receives(d, i) \in Seen
<1>1. events[i] \in Event /\ seen[d] \in Seen /\ i \in Nat
  BY DEF TypeOK, StoreTypeOK
<1>2. ApplyDiff(seen[d].view, events[i]) \in View
  BY <1>1 DEF ApplyDiff, View, Seen, Event
<1> QED BY <1>1, <1>2 DEF Receives, Seen

LEMMA FanningTypes ==
  ASSUME TypeOK, FanRows, NEW t \in Threads, Fanning(t)
  PROVE  TypeOK'
<1> USE DEF storeVars, connVars, loopVars, stopVars
<1>1. CASE FanSnapshot(t)
  <2> DEFINE out == {d \in sessions : Wants(d, events[fan[t].id])}
  <2>1. [fan[t] EXCEPT !.stage = "out", !.left = out] \in Fan
    BY DEF TypeOK, Fan
  <2>2. fan' = [fan EXCEPT ![t] = [fan[t] EXCEPT !.stage = "out", !.left = out]]
    BY <1>1 DEF FanSnapshot, TypeOK
  <2> QED BY <1>1, <2>1, <2>2 DEF FanSnapshot, TypeOK, StoreTypeOK
<1>2. ASSUME NEW d \in Conns, FanWrite(t, d) PROVE TypeOK'
  <2>1. seen' \in [Conns -> Seen]
    BY <1>2, ReceivesType DEF FanWrite, FanRows, TypeOK
  <2>2. [fan[t] EXCEPT !.left = @ \ {d}] \in Fan
    BY DEF TypeOK, Fan
  <2>3. fan' = [fan EXCEPT ![t] = [fan[t] EXCEPT !.left = @ \ {d}]]
    BY <1>2 DEF FanWrite, TypeOK
  <2> QED BY <1>2, <2>1, <2>2, <2>3 DEF FanWrite, TypeOK, StoreTypeOK
<1>3. ASSUME NEW d \in Conns, FanWriteFails(t, d) PROVE TypeOK'
  <2> DEFINE f == [fan[t] EXCEPT !.left = @ \ {d}, !.drop = @ \cup {d}, !.err = TRUE]
  <2>1. f \in Fan
    BY DEF TypeOK, Fan
  <2>2. fan' = [fan EXCEPT ![t] = f]
    BY <1>3 DEF FanWriteFails, TypeOK
  <2> QED BY <1>3, <2>1, <2>2 DEF FanWriteFails, TypeOK, StoreTypeOK
<1>4. ASSUME NEW d \in Conns, FanDrop(t, d) PROVE TypeOK'
  <2>1. [fan[t] EXCEPT !.drop = @ \ {d}] \in Fan
    BY DEF TypeOK, Fan
  <2>2. fan' = [fan EXCEPT ![t] = [fan[t] EXCEPT !.drop = @ \ {d}]]
    BY <1>4 DEF FanDrop, TypeOK
  <2> QED BY <1>4, <2>1, <2>2 DEF FanDrop, TypeOK, StoreTypeOK
<1> QED BY <1>1, <1>2, <1>3, <1>4 DEF Fanning

\* A field of the command being handled takes a new value.
LEMMA JobFieldTypes ==
  ASSUME TypeOK, NEW c \in Conns
  PROVE  /\ \A x \in Exts \cup {NoExt} :
              [job EXCEPT ![c].ext = x] \in [Conns -> Job]
         /\ \A ks \in SUBSET Keys : [job EXCEPT ![c].todo = ks] \in [Conns -> Job]
         /\ \A r \in Reply : [job EXCEPT ![c].reply = r] \in [Conns -> Job]
<1>1. job[c] \in Job
  BY DEF TypeOK
<1>2. \A x \in Exts \cup {NoExt} : [job[c] EXCEPT !.ext = x] \in Job
  BY <1>1 DEF Job
<1>3. \A ks \in SUBSET Keys : [job[c] EXCEPT !.todo = ks] \in Job
  BY <1>1 DEF Job
<1>4. \A r \in Reply : [job[c] EXCEPT !.reply = r] \in Job
  BY <1>1 DEF Job
<1> QED BY <1>2, <1>3, <1>4 DEF TypeOK

LEMMA FailedTypes ==
  ASSUME TypeOK, NEW c \in Conns, Failed(c)
  PROVE  loop' \in [Conns -> LoopPCs] /\ job' \in [Conns -> Job]
<1> DEFINE r == [job[c].reply EXCEPT !.ok = FALSE]
<1>1. r \in Reply
  <2>1. job[c].reply \in Reply
    BY DEF TypeOK, Job
  <2> QED BY <2>1 DEF Reply
<1>2. CASE job[c].cmd.name = "chrome.api.call"
  <2>1. job' = [job EXCEPT ![c].reply = r]
    BY <1>2 DEF Failed, TypeOK
  <2> QED BY <1>1, <1>2, <2>1, JobFieldTypes, JobTypes DEF Failed, LoopPCs
<1>3. CASE job[c].cmd.name # "chrome.api.call"
  BY <1>3, JobTypes DEF Failed, LoopPCs, TypeOK
<1> QED BY <1>2, <1>3

LEMMA MutationTypes ==
  ASSUME TypeOK, NEW c \in Conns, Mutate(c)
  PROVE  /\ StoreTypeOK' /\ job' \in [Conns -> Job]
         /\ \E ks \in SUBSET Keys, v \in Values \cup {None} :
               CommitDiff(job[c].ext, ks, v)
<1> DEFINE m == job[c].cmd
           x == job[c].ext
<1>1. m \in Command /\ x \in Exts \cup {NoExt} /\ job[c].todo \in SUBSET Keys
  BY DEF TypeOK, Job
<1>2. PICK k \in job[c].todo :
        /\ CASE m.do = "set"    -> SetStorageItem(x, k, m.to)
             [] m.do = "remove" -> RemoveStorageItem(x, k)
             [] OTHER           -> ClearStorageArea(x)
        /\ job' = [job EXCEPT ![c].todo = IF m.do = "clear" THEN {} ELSE @ \ {k}]
  BY DEF Mutate
<1>3. \E ks \in SUBSET Keys, v \in Values \cup {None} : CommitDiff(x, ks, v)
  <2>1. CASE m.do = "set"
    <3>1. SetStorageItem(x, k, m.to)
      BY <1>2, <2>1
    <3>2. {k} \in SUBSET Keys /\ m.to \in Values \cup {None}
      BY <1>1 DEF Command
    <3> QED BY <3>1, <3>2 DEF SetStorageItem
  <2>2. CASE m.do = "remove"
    <3>1. RemoveStorageItem(x, k)
      BY <1>2, <2>2
    <3>2. {k} \in SUBSET Keys
      BY <1>1
    <3> QED BY <3>1, <3>2 DEF RemoveStorageItem
  <2>3. CASE m.do # "set" /\ m.do # "remove"
    <3>1. ClearStorageArea(x)
      BY <1>2, <2>3
    <3>2. Held(x) \in SUBSET Keys
      BY DEF Held
    <3> QED BY <3>1, <3>2 DEF ClearStorageArea
  <2> QED BY <2>1, <2>2, <2>3
<1>4. StoreTypeOK'
  <2> PICK ks \in SUBSET Keys, v \in Values \cup {None} : CommitDiff(x, ks, v)
    BY <1>3
  <2>1. DiffEvent(x, ks, v) \in Event /\ NormalizeExt(x) \in Exts
    BY <1>1, DiffEventType, NormalizeExtType
  <2> QED BY <2>1 DEF CommitDiff, TypeOK, StoreTypeOK
<1>5. job' \in [Conns -> Job]
  <2> DEFINE left == IF m.do = "clear" THEN {} ELSE job[c].todo \ {k}
  <2>1. left \in SUBSET Keys
    BY <1>1
  <2>2. job' = [job EXCEPT ![c].todo = left]
    BY <1>2 DEF TypeOK
  <2> HIDE DEF left
  <2> QED BY <2>1, <2>2, JobFieldTypes
<1> QED BY <1>3, <1>4, <1>5

LEMMA LoopingTypes ==
  ASSUME TypeOK, NEW c \in Conns,
         Looping(c) \/ \E m \in Commands : Receive(c, m)
  PROVE  TypeOK'
<1> USE DEF storeVars, connVars, loopVars, stopVars
<1>a. job[c] \in Job /\ job[c].reply \in Reply
  BY DEF TypeOK, Job
<1>1. ASSUME NEW m \in Commands, Receive(c, m) PROVE TypeOK'
  <2> DEFINE j == [Idle EXCEPT !.cmd = m, !.from = Len(events)]
  <2>1. j \in Job
    <3>1. Len(events) \in Nat /\ m \in Command /\ Idle \in Job
      BY JobTypes, DaemonAssumption DEF TypeOK, StoreTypeOK
    <3> HIDE DEF Idle
    <3> QED BY <3>1 DEF Job
  <2>2. job' = [job EXCEPT ![c] = j]
    BY <1>1 DEF Receive
  <2> HIDE DEF j
  <2>3. job' \in [Conns -> Job]
    BY <2>1, <2>2 DEF TypeOK
  <2>4. sent' \in [Conns -> Nat]
    <3>1. sent' = [sent EXCEPT ![c] = sent[c] + 1]
      BY <1>1 DEF Receive
    <3> QED BY <3>1 DEF TypeOK
  <2>5. loop' \in [Conns -> LoopPCs]
    BY <1>1, JobTypes DEF Receive, LoopPCs
  <2> QED BY <1>1, <2>3, <2>4, <2>5 DEF Receive, TypeOK, StoreTypeOK
<1>2. CASE ReadFails(c)
  BY <1>2, JobTypes DEF ReadFails, TypeOK, StoreTypeOK, LoopPCs
<1>3. CASE LookupExtension(c)
  <2> DEFINE x == IF c \in sessions THEN Ext(c) ELSE NoExt
  <2>1. x \in Exts \cup {NoExt}
    BY ExtType
  <2>2. job' = [job EXCEPT ![c].ext = x]
    BY <1>3 DEF LookupExtension
  <2> HIDE DEF x
  <2>3. job' \in [Conns -> Job]
    BY <2>1, <2>2, JobFieldTypes
  <2> QED BY <1>3, <2>3, JobTypes DEF LookupExtension, TypeOK, StoreTypeOK, LoopPCs
<1>4. CASE CheckSession(c)
  <2> DEFINE m == job[c].cmd
             todo == CASE m.do = "clear"             -> Keys
                       [] m.do \in {"set", "remove"} -> m.keys
                       [] OTHER                      -> {}
             pc == IF c \in sessions /\ m.name \notin Caps(c) THEN "unregister"
                   ELSE IF m.do \in {"set", "remove", "clear"} THEN "mutate"
                   ELSE IF m.do = "local" THEN "reply"
                   ELSE m.do
  <2>1. m \in Command
    BY <1>a DEF Job
  <2>2. todo \in SUBSET Keys
    BY <2>1 DEF Command
  <2>3. pc \in LoopPCs
    BY <2>1 DEF Command, Jobs, LoopPCs
  <2>4. job' = [job EXCEPT ![c].todo = todo] /\ Goto(c, pc)
    BY <1>4 DEF CheckSession
  <2> HIDE DEF m, todo, pc
  <2>5. job' \in [Conns -> Job] /\ loop' \in [Conns -> LoopPCs]
    BY <2>2, <2>3, <2>4, JobFieldTypes, JobTypes
  <2> QED BY <1>4, <2>5 DEF CheckSession, TypeOK, StoreTypeOK
<1>5. CASE OperationFails(c)
  BY <1>5, FailedTypes DEF OperationFails, StoreFault, TypeOK, StoreTypeOK
<1>6. CASE QueryEvents(c)
  <2> DEFINE r == [job[c].reply EXCEPT !.ids = Recent(MaxLimit, 0, job[c].ext).ids]
  <2>1. Recent(MaxLimit, 0, job[c].ext).ids \in SUBSET Nat
    BY DEF Recent, Newest, Matching, TypeOK, StoreTypeOK
  <2>2. r \in Reply
    BY <1>a, <2>1 DEF Reply
  <2>3. job' = [job EXCEPT ![c].reply = r]
    BY <1>6 DEF QueryEvents, TypeOK
  <2> HIDE DEF r
  <2>4. job' \in [Conns -> Job]
    BY <2>2, <2>3, JobFieldTypes
  <2>5. loop' \in [Conns -> LoopPCs]
    BY <1>6, JobTypes DEF QueryEvents, LoopPCs
  <2> QED BY <1>6, <2>4, <2>5 DEF QueryEvents, TypeOK, StoreTypeOK
<1>7. CASE QueryStorage(c)
  <2> DEFINE v == items[NormalizeExt(job[c].ext)]
             r == [job[c].reply EXCEPT !.view = v, !.upto = Len(events)]
  <2>1. v \in View /\ Len(events) \in Nat
    <3>1. NormalizeExt(job[c].ext) \in Exts
      BY <1>a, NormalizeExtType DEF Job
    <3> QED BY <3>1 DEF View, TypeOK, StoreTypeOK
  <2>2. r \in Reply
    BY <1>a, <2>1 DEF Reply
  <2>3. job' = [job EXCEPT ![c].reply = r]
    BY <1>7 DEF QueryStorage, TypeOK
  <2> HIDE DEF r
  <2>4. job' \in [Conns -> Job]
    BY <2>2, <2>3, JobFieldTypes
  <2>5. loop' \in [Conns -> LoopPCs]
    BY <1>7, JobTypes DEF QueryStorage, LoopPCs
  <2> QED BY <1>7, <2>4, <2>5 DEF QueryStorage, TypeOK, StoreTypeOK
<1>8. CASE Mutate(c)
  BY <1>8, MutationTypes, FanTypes, JobTypes DEF Mutate, TypeOK, Threads, LoopPCs
<1>9. CASE MutateNothing(c)
  <2>1. PICK ks \in SUBSET Keys : job' = [job EXCEPT ![c].todo = ks]
    <3>1. ASSUME NEW k \in job[c].todo, job' = [job EXCEPT ![c].todo = @ \ {k}]
          PROVE  \E ks \in SUBSET Keys : job' = [job EXCEPT ![c].todo = ks]
      <4>1. job' = [job EXCEPT ![c].todo = job[c].todo \ {k}]
        BY <3>1 DEF TypeOK
      <4>2. job[c].todo \ {k} \in SUBSET Keys
        BY <1>a DEF Job
      <4> QED BY <4>1, <4>2
    <3> QED BY <1>9, <3>1 DEF MutateNothing
  <2> QED BY <1>9, <2>1, JobFieldTypes DEF MutateNothing, TypeOK, StoreTypeOK
<1>10. CASE SendRuntimeMessage(c)
  <2>1. PlainEvent("chrome.api.event", NoExt, 0) \in Event
    BY PlainEventType DEF EventNames
  <2>2. StoreTypeOK'
    BY <1>10, <2>1 DEF SendRuntimeMessage, AppendEvent, TypeOK, StoreTypeOK
  <2> QED BY <1>10, <2>2, FanTypes, JobTypes
          DEF SendRuntimeMessage, TypeOK, Threads, LoopPCs
<1>11. CASE FanReturns(c)
  <2>1. loop' \in [Conns -> LoopPCs] /\ job' \in [Conns -> Job]
    <3>1. CASE fan[c].err
      BY <1>11, <3>1, FailedTypes DEF FanReturns
    <3>2. CASE ~fan[c].err
      BY <1>11, <3>2, JobTypes DEF FanReturns, LoopPCs, TypeOK
    <3> QED BY <3>1, <3>2
  <2> QED BY <1>11, <2>1, FanTypes DEF FanReturns, TypeOK, StoreTypeOK, Threads
<1>12. CASE MutationsDone(c)
  BY <1>12, JobTypes DEF MutationsDone, TypeOK, StoreTypeOK, LoopPCs
<1>13. CASE WriteReply(c)
  <2>1. Answered(c) \in Seen
    <3>1. seen[c] \in Seen
      BY DEF TypeOK
    <3> QED BY <1>a, <3>1 DEF Answered, Seen, Reply
  <2> QED BY <1>13, <2>1, JobTypes DEF WriteReply, TypeOK, StoreTypeOK, LoopPCs
<1>14. CASE WriteReplyFails(c)
  BY <1>14, JobTypes DEF WriteReplyFails, TypeOK, StoreTypeOK, LoopPCs
<1>15. CASE LoopUnregisters(c)
  BY <1>15, JobTypes DEF LoopUnregisters, TypeOK, StoreTypeOK, LoopPCs
<1>16. CASE LoopCloses(c)
  BY <1>16, JobTypes DEF LoopCloses, TypeOK, StoreTypeOK, LoopPCs
<1> QED BY <1>1, <1>2, <1>3, <1>4, <1>5, <1>6, <1>7, <1>8, <1>9, <1>10, <1>11, <1>12,
           <1>13, <1>14, <1>15, <1>16 DEF Looping

LEMMA OtherTypes ==
  ASSUME TypeOK,
         \/ \E c \in Conns : Pinging(c) \/ CloseOne(c)
         \/ Build \/ Building \/ ContextDone
         \/ StopListening \/ CancelAndDrain \/ CloseStore
  PROVE  TypeOK'
<1> USE DEF storeVars, connVars, loopVars, stopVars
<1>1. ASSUME NEW c \in Conns, Pinging(c) PROVE TypeOK'
  BY <1>1 DEF Pinging, PingFails, PingUnregisters, PingStops, TypeOK, StoreTypeOK
<1>2. ASSUME NEW c \in Conns, CloseOne(c) PROVE TypeOK'
  BY <1>2 DEF CloseOne, TypeOK, StoreTypeOK
<1>3. CASE Build
  <2>1. dev' \in DevState
    BY <1>3 DEF Build, TypeOK, DevState
  <2> QED BY <1>3, <2>1 DEF Build, TypeOK, StoreTypeOK
<1>4. ASSUME NEW pc \in {"publish", "decide"},
             NEW name \in {"build.complete", "command.reload"},
             NEW next \in {"complete", "reload"}, NEW skip \in {"decide", "idle"},
             Publish(pc, name, next, skip)
      PROVE  TypeOK'
  <2>1. dev' \in DevState
    BY <1>4 DEF Publish, DevGoto, TypeOK, DevState
  <2>2. CASE AppendEvent(name, DevExt, dev.build) /\ StartFan(Dev) /\ UNCHANGED faults
    <3>1. PlainEvent(name, DevExt, dev.build) \in Event
      BY PlainEventType, DaemonAssumption DEF EventNames, TypeOK, DevState
    <3>2. StoreTypeOK'
      BY <2>2, <3>1 DEF AppendEvent, TypeOK, StoreTypeOK
    <3>3. fan' \in [Threads -> Fan]
      BY <2>2, FanTypes DEF Threads
    <3> QED BY <1>4, <2>1, <2>2, <3>2, <3>3 DEF Publish, TypeOK
  <2>3. CASE StoreFault(server # "up") /\ UNCHANGED <<storeVars, fan>>
    BY <1>4, <2>1, <2>3 DEF Publish, StoreFault, TypeOK, StoreTypeOK
  <2> QED BY <1>4, <2>2, <2>3 DEF Publish
<1>5. CASE PublishBuildComplete \/ PublishReload
  BY <1>4, <1>5 DEF PublishBuildComplete, PublishReload
<1>6. CASE NoReload
  BY <1>6 DEF NoReload, DevGoto, TypeOK, StoreTypeOK, DevState
<1>7. CASE Published
  <2>1. fan' \in [Threads -> Fan]
    BY <1>7, FanTypes DEF Published, Threads
  <2>2. dev' \in DevState
    BY <1>7 DEF Published, DevGoto, TypeOK, DevState
  <2> QED BY <1>7, <2>1, <2>2 DEF Published, TypeOK, StoreTypeOK
<1>8. CASE ContextDone \/ StopListening \/ CancelAndDrain \/ CloseStore
  BY <1>8 DEF ContextDone, StopListening, CancelAndDrain, CloseStore, TypeOK, StoreTypeOK
<1> QED BY <1>1, <1>2, <1>3, <1>5, <1>6, <1>7, <1>8 DEF Building

LEMMA TypeStep == ASSUME TypeOK, FanRows, [Next]_vars PROVE TypeOK'
<1>1. CASE UNCHANGED vars
  BY <1>1 DEF vars, storeVars, connVars, loopVars, stopVars, TypeOK, StoreTypeOK
<1>2. CASE Next
  BY <1>2, HandshakeTypes, FanningTypes, LoopingTypes, OtherTypes DEF Next, ShuttingDown
<1> QED BY <1>1, <1>2

-----------------------------------------------------------------------------
(* What a step does to the log, the fan-outs and the clients: four shapes    *)
(* cover every action but the four of broadcasting and registering.          *)

Order == /\ FanRows
         /\ SinceInLog
         /\ NoLostBroadcast
         /\ OnlyNegotiatedFrames
         /\ OutInOrder
         /\ BuildEventsInOrder

\* No row, nothing sent live, no session more, no fan-out but one that ends.
QuietStep ==
    /\ UNCHANGED <<events, since>>
    /\ \A d \in Conns : /\ seen'[d].live = seen[d].live
                        /\ conn[d] = "closed" => conn'[d] = "closed"
                        /\ d \in sessions' => /\ d \in sessions
                                              /\ conn'[d] = "open" => conn[d] = "open"
    /\ \A t \in Threads :
          \/ /\ fan'[t].stage = fan[t].stage
             /\ fan'[t].id = fan[t].id
             /\ fan'[t].left = fan[t].left
          \/ fan[t].left = {} /\ fan[t].stage # "snap" /\ fan'[t].stage = "idle"

\* One row that is sent to nobody.
LogStep(e) ==
    /\ events' = Append(events, e)
    /\ e.name \notin BroadcastCapabilities
    /\ e.build = 0
    /\ UNCHANGED <<since, sessions, conn, fan, seen>>

\* One row, and the fan-out of it.
StartStep(e, t) ==
    /\ events' = Append(events, e)
    /\ t \in Conns => e.build = 0
    /\ fan[t].stage = "idle"
    /\ StartFan(t)
    /\ UNCHANGED <<since, sessions, conn, seen>>

LEMMA WantsLive ==
  ASSUME TypeOK, NEW d \in Conns, NEW i \in DOMAIN events, Wants(d, events[i])
  PROVE  Live(i)
<1>1. Client[d] \in Hello
  BY DaemonAssumption
<1>2. Caps(d) \subseteq Capabilities
  <2> DEFINE kind == Client[d].kind
  <2>1. CASE kind = "dev-agent"
    BY <2>1 DEF Caps, Supported, Capabilities, BroadcastCapabilities
  <2>2. CASE kind = "chrome-sim"
    <3>1. Supported(kind) = {"chrome.api.call", "storage.diff", "chrome.api.event"}
      BY <2>2 DEF Supported
    <3> QED BY <3>1 DEF Caps, Capabilities, BroadcastCapabilities, HandlerCapabilities
  <2>3. CASE kind # "dev-agent" /\ kind # "chrome-sim"
    BY <2>3 DEF Caps, Supported
  <2> QED BY <2>1, <2>2, <2>3
<1>3. events[i] \in Event
  BY DEF TypeOK, StoreTypeOK
<1> QED BY <1>2, <1>3
        DEF Wants, Live, Event, EventNames, Capabilities, HandlerCapabilities,
            BroadcastCapabilities

LEMMA QuietKeepsOrder == ASSUME TypeOK, Order, QuietStep PROVE Order'
<1>1. FanRows' /\ SinceInLog'
  BY DEF QuietStep, Order, FanRows, SinceInLog
<1>2. ASSUME NEW d \in Conns, NEW i \in DOMAIN events, OnItsWay(d, i)
      PROVE  OnItsWay(d, i)'
  <2> PICK t \in Threads : /\ fan[t].id = i
                           /\ \/ fan[t].stage = "snap"
                              \/ fan[t].stage = "out" /\ d \in fan[t].left
    BY <1>2 DEF OnItsWay
  <2> fan'[t].stage = fan[t].stage /\ fan'[t].id = i /\ fan'[t].left = fan[t].left
    BY DEF QuietStep
  <2> QED BY DEF OnItsWay
<1>3. NoLostBroadcast'
  <2> SUFFICES ASSUME NEW d \in Conns, Reachable(d)', NEW i \in DOMAIN events,
                      i > since[d], Live(i), Wants(d, events[i])
               PROVE  i \in seen[d].live \/ OnItsWay(d, i)'
    BY DEF NoLostBroadcast, QuietStep, Live
  <2>1. Reachable(d)
    BY DEF Reachable, QuietStep
  <2> QED BY <1>2, <2>1 DEF Order, NoLostBroadcast
<1>4. OnlyNegotiatedFrames'
  BY DEF Order, OnlyNegotiatedFrames, QuietStep
<1>5. OutInOrder'
  BY DEF Order, OutInOrder, QuietStep, Threads, TypeOK, Fan
<1>6. BuildEventsInOrder'
  BY DEF Order, BuildEventsInOrder, QuietStep
<1> QED BY <1>1, <1>3, <1>4, <1>5, <1>6 DEF Order

LEMMA AppendKeepsRows ==
  ASSUME TypeOK, NEW e \in Event, events' = Append(events, e)
  PROVE  /\ Len(events') = Len(events) + 1
         /\ Len(events) \in Nat
         /\ DOMAIN events = 1..Len(events)
         /\ DOMAIN events' = 1..(Len(events) + 1)
         /\ \A i \in DOMAIN events : events'[i] = events[i]
         /\ events'[Len(events) + 1] = e
  BY DEF TypeOK, StoreTypeOK

\* What a new row cannot disturb, whether it is sent or not.
LEMMA NewRowKeeps ==
  ASSUME TypeOK, Order, NEW e \in Event, events' = Append(events, e),
         UNCHANGED <<since, conn, seen>>
  PROVE  SinceInLog' /\ OnlyNegotiatedFrames' /\ BuildEventsInOrder'
<1>1. SinceInLog'
  BY AppendKeepsRows DEF Order, SinceInLog, TypeOK
<1>2. OnlyNegotiatedFrames'
  BY AppendKeepsRows DEF Order, OnlyNegotiatedFrames
<1>3. BuildEventsInOrder'
  <2> SUFFICES ASSUME NEW d \in Conns, NEW i \in DOMAIN events', NEW j \in DOMAIN events',
                      i < j, events'[i].build > 0, events'[j].build > 0,
                      i > since[d], Wants(d, events'[i]), j \in seen[d].live
               PROVE  i \in seen[d].live
    BY DEF BuildEventsInOrder
  <2>1. j \in DOMAIN events
    BY DEF Order, OnlyNegotiatedFrames
  <2>2. i \in DOMAIN events
    BY <2>1, AppendKeepsRows
  <2> QED BY <2>1, <2>2, AppendKeepsRows DEF Order, BuildEventsInOrder
<1> QED BY <1>1, <1>2, <1>3

LEMMA LogKeepsOrder ==
  ASSUME TypeOK, Order, NEW e \in Event, LogStep(e) PROVE Order'
<1>1. events' = Append(events, e) /\ UNCHANGED <<since, conn, seen>>
  BY DEF LogStep
<1>2. FanRows'
  BY AppendKeepsRows DEF Order, FanRows, LogStep
<1>3. NoLostBroadcast'
  <2> SUFFICES ASSUME NEW d \in Conns, Reachable(d)', NEW i \in DOMAIN events',
                      i > since[d], Live(i)', Wants(d, events'[i])
               PROVE  i \in seen[d].live \/ OnItsWay(d, i)'
    BY DEF NoLostBroadcast, LogStep
  <2>1. i \in DOMAIN events
    BY AppendKeepsRows DEF LogStep, Live
  <2>2. Reachable(d) /\ Live(i) /\ Wants(d, events[i])
    BY <2>1, AppendKeepsRows DEF LogStep, Live, Reachable
  <2>3. OnItsWay(d, i) => OnItsWay(d, i)'
    BY DEF OnItsWay, LogStep
  <2> QED BY <2>1, <2>2, <2>3 DEF Order, NoLostBroadcast
<1>4. OutInOrder'
  <2> SUFFICES ASSUME fan[Dev].stage = "out", NEW d \in fan[Dev].left,
                      NEW i \in 1..(fan[Dev].id - 1),
                      events'[i].build > 0, i > since[d], Wants(d, events'[i])
               PROVE  i \in seen[d].live \/ conn[d] = "closed"
    BY DEF OutInOrder, LogStep
  <2>1. fan[Dev].id \in DOMAIN events
    BY DEF Order, FanRows, Threads
  <2>2. i \in DOMAIN events
    BY <2>1, AppendKeepsRows DEF LogStep
  <2> QED BY <2>2, AppendKeepsRows DEF Order, OutInOrder, LogStep
<1> QED BY <1>1, <1>2, <1>3, <1>4, NewRowKeeps DEF Order

LEMMA StartKeepsOrder ==
  ASSUME TypeOK, Order, NEW e \in Event, NEW t \in Threads, StartStep(e, t)
  PROVE  Order'
<1>1. events' = Append(events, e) /\ UNCHANGED <<since, conn, seen>>
  BY DEF StartStep
<1>2. /\ fan'[t].stage = "snap"
      /\ fan'[t].id = Len(events) + 1
      /\ \A u \in Threads \ {t} : fan'[u] = fan[u]
  BY DEF StartStep, StartFan, NoFan, TypeOK
<1>3. FanRows'
  <2> SUFFICES ASSUME NEW u \in Threads, fan'[u].stage # "idle"
               PROVE  /\ fan'[u].id \in DOMAIN events'
                      /\ fan'[u].stage = "out" =>
                            \A d \in fan'[u].left : Wants(d, events'[fan'[u].id])
                      /\ u \in Conns => events'[fan'[u].id].build = 0
    BY DEF FanRows
  <2>1. CASE u = t
    BY <1>1, <1>2, <2>1, AppendKeepsRows DEF StartStep
  <2>2. CASE u # t
    BY <1>1, <1>2, <2>2, AppendKeepsRows DEF Order, FanRows
  <2> QED BY <2>1, <2>2
<1>4. NoLostBroadcast'
  <2> SUFFICES ASSUME NEW d \in Conns, Reachable(d)', NEW i \in DOMAIN events',
                      i > since[d], Live(i)', Wants(d, events'[i])
               PROVE  i \in seen[d].live \/ OnItsWay(d, i)'
    BY DEF NoLostBroadcast, StartStep
  <2>1. CASE i = Len(events) + 1
    BY <1>2, <2>1 DEF OnItsWay
  <2>2. CASE i # Len(events) + 1
    <3>1. i \in DOMAIN events
      BY <1>1, <2>2, AppendKeepsRows
    <3>2. Reachable(d) /\ Live(i) /\ Wants(d, events[i])
      BY <1>1, <3>1, AppendKeepsRows DEF StartStep, Live, Reachable
    <3>3. OnItsWay(d, i) => OnItsWay(d, i)'
      BY <1>2 DEF OnItsWay, StartStep
    <3> QED BY <3>1, <3>2, <3>3 DEF Order, NoLostBroadcast
  <2> QED BY <2>1, <2>2
<1>5. OutInOrder'
  <2>1. CASE t = Dev
    BY <1>2, <2>1 DEF OutInOrder
  <2>2. CASE t # Dev
    <3> SUFFICES ASSUME fan[Dev].stage = "out", NEW d \in fan[Dev].left,
                        NEW i \in 1..(fan[Dev].id - 1),
                        events'[i].build > 0, i > since[d], Wants(d, events'[i])
                 PROVE  i \in seen[d].live \/ conn[d] = "closed"
      BY <1>1, <1>2, <2>2 DEF OutInOrder, Threads
    <3>1. fan[Dev].id \in DOMAIN events
      BY DEF Order, FanRows, Threads
    <3>2. i \in DOMAIN events
      BY <1>1, <3>1, AppendKeepsRows
    <3> QED BY <1>1, <3>2, AppendKeepsRows DEF Order, OutInOrder
  <2> QED BY <2>1, <2>2
<1> QED BY <1>1, <1>3, <1>4, <1>5, NewRowKeeps DEF Order

\* The copy of the table: who is registered, wants the row and can be reached
\* has been sent what was published before.
LEMMA FanSnapshotKeepsOrder ==
  ASSUME TypeOK, Attached, Order, NEW t \in Threads, FanSnapshot(t) PROVE Order'
<1> USE DEF connVars, storeVars
<1> DEFINE i0  == fan[t].id
           out == {d \in sessions : Wants(d, events[i0])}
<1>1. /\ fan[t].stage = "snap" /\ fan'[t].stage = "out" /\ fan'[t].id = i0
      /\ fan'[t].left = out
      /\ \A u \in Threads \ {t} : fan'[u] = fan[u]
  BY DEF FanSnapshot, TypeOK
<1>2. UNCHANGED <<events, since, sessions, conn, seen>>
  BY DEF FanSnapshot
<1>3. FanRows'
  BY <1>1, <1>2 DEF Order, FanRows
<1>4. NoLostBroadcast'
  <2> SUFFICES ASSUME NEW d \in Conns, Reachable(d), NEW i \in DOMAIN events,
                      Wants(d, events[i]), OnItsWay(d, i)
               PROVE  OnItsWay(d, i)'
    BY <1>2 DEF Order, NoLostBroadcast, Reachable, Live
  <2> PICK u \in Threads : /\ fan[u].id = i
                           /\ \/ fan[u].stage = "snap"
                              \/ fan[u].stage = "out" /\ d \in fan[u].left
    BY DEF OnItsWay
  <2>1. CASE u = t
    BY <1>1, <2>1 DEF OnItsWay, Reachable
  <2>2. CASE u # t
    BY <1>1, <2>2 DEF OnItsWay
  <2> QED BY <2>1, <2>2
<1>5. OutInOrder'
  <2>1. CASE t = Dev
    <3> SUFFICES ASSUME NEW d \in out, NEW i \in 1..(i0 - 1), events[i].build > 0,
                        i > since[d], Wants(d, events[i]), conn[d] # "closed"
                 PROVE  i \in seen[d].live
      BY <1>1, <1>2, <2>1 DEF OutInOrder
    <3>1. d \in Conns /\ i0 \in DOMAIN events /\ i \in DOMAIN events
      BY <1>1 DEF Order, FanRows, TypeOK, StoreTypeOK
    <3>2. Reachable(d)
      BY <3>1 DEF Attached, Reachable, TypeOK
    <3>3. i \in seen[d].live \/ OnItsWay(d, i)
      BY <3>1, <3>2, WantsLive DEF Order, NoLostBroadcast
    <3>4. ~OnItsWay(d, i)
      <4> SUFFICES ASSUME NEW u \in Threads, fan[u].id = i, fan[u].stage # "idle"
                   PROVE  FALSE
        BY DEF OnItsWay
      <4>1. u # Dev
        BY <2>1, <3>1 DEF TypeOK, StoreTypeOK
      <4> QED BY <4>1 DEF Order, FanRows, Threads
    <3> QED BY <3>3, <3>4
  <2>2. CASE t # Dev
    BY <1>1, <1>2, <2>2 DEF Order, OutInOrder, Threads
  <2> QED BY <2>1, <2>2
<1> QED BY <1>2, <1>3, <1>4, <1>5
    DEF Order, SinceInLog, OnlyNegotiatedFrames, BuildEventsInOrder

LEMMA FanWriteKeepsOrder ==
  ASSUME TypeOK, Order, NEW t \in Threads, NEW d \in Conns, FanWrite(t, d) PROVE Order'
<1> USE DEF connVars, storeVars
<1> DEFINE i0 == fan[t].id
<1>1. /\ fan[t].stage = "out" /\ fan'[t].stage = "out" /\ fan'[t].id = i0
      /\ d \in fan[t].left /\ fan'[t].left = fan[t].left \ {d}
      /\ \A u \in Threads \ {t} : fan'[u] = fan[u]
  BY DEF FanWrite, TypeOK
<1>2. UNCHANGED <<events, since, sessions, conn>> /\ conn[d] = "open"
  BY DEF FanWrite
<1>3. \A b \in Conns : seen'[b].live = IF b = d THEN seen[b].live \cup {i0} ELSE seen[b].live
  <2>1. seen[d] \in Seen
    BY DEF TypeOK
  <2>2. Receives(d, i0).live = seen[d].live \cup {i0}
    BY <2>1 DEF Receives, Seen
  <2> QED BY <2>2 DEF FanWrite, TypeOK
<1>4. FanRows' /\ SinceInLog'
  BY <1>1, <1>2 DEF Order, FanRows, SinceInLog
<1>5. NoLostBroadcast'
  <2> SUFFICES ASSUME NEW b \in Conns, NEW i \in DOMAIN events, OnItsWay(b, i)
               PROVE  i \in seen'[b].live \/ OnItsWay(b, i)'
    BY <1>2, <1>3 DEF Order, NoLostBroadcast, Reachable, Live
  <2> PICK u \in Threads : /\ fan[u].id = i
                           /\ \/ fan[u].stage = "snap"
                              \/ fan[u].stage = "out" /\ b \in fan[u].left
    BY DEF OnItsWay
  <2>1. CASE u = t /\ b = d
    BY <1>3, <2>1
  <2>2. CASE u # t \/ b # d
    BY <1>1, <2>2 DEF OnItsWay
  <2> QED BY <2>1, <2>2
<1>6. OnlyNegotiatedFrames'
  BY <1>1, <1>2, <1>3 DEF Order, OnlyNegotiatedFrames, FanRows
<1>7. OutInOrder'
  <2>1. Dev \in Threads
    BY DEF Threads
  <2>2. fan'[Dev].id = fan[Dev].id /\ fan'[Dev].left \subseteq fan[Dev].left
    BY <1>1, <2>1
  <2>3. fan'[Dev].stage = fan[Dev].stage
    BY <1>1, <2>1
  <2>4. fan[Dev].left \subseteq Conns
    BY <2>1 DEF TypeOK, Fan
  <2> QED BY <1>2, <1>3, <2>2, <2>3, <2>4 DEF Order, OutInOrder
<1>8. BuildEventsInOrder'
  <2> SUFFICES ASSUME NEW b \in Conns, NEW i \in DOMAIN events, NEW j \in DOMAIN events,
                      i < j, events[i].build > 0, events[j].build > 0, i > since[b],
                      Wants(b, events[i]), j \in seen'[b].live
               PROVE  i \in seen'[b].live
    BY <1>2 DEF BuildEventsInOrder
  <2>1. CASE j \in seen[b].live
    BY <1>3, <2>1 DEF Order, BuildEventsInOrder
  <2>2. CASE b = d /\ j = i0
    <3>1. t = Dev
      <4>1. t \in Conns => events[i0].build = 0
        BY <1>1 DEF Order, FanRows
      <4> QED BY <2>2, <4>1 DEF Threads
    <3>2. i \in 1..(i0 - 1)
      BY <2>2 DEF TypeOK, StoreTypeOK
    <3> QED BY <1>1, <1>2, <1>3, <2>2, <3>1, <3>2 DEF Order, OutInOrder
  <2> QED BY <1>3, <2>1, <2>2
<1> QED BY <1>4, <1>5, <1>6, <1>7, <1>8 DEF Order

LEMMA FanWriteFailsKeepsOrder ==
  ASSUME TypeOK, Order, NEW t \in Threads, NEW d \in Conns, FanWriteFails(t, d)
  PROVE  Order'
<1> USE DEF storeVars
<1>1. /\ fan[t].stage = "out" /\ fan'[t].stage = "out" /\ fan'[t].id = fan[t].id
      /\ fan'[t].left = fan[t].left \ {d}
      /\ \A u \in Threads \ {t} : fan'[u] = fan[u]
  BY DEF FanWriteFails, TypeOK
<1>2. /\ UNCHANGED <<events, since, sessions, seen>>
      /\ conn'[d] = "closed" /\ \A b \in Conns \ {d} : conn'[b] = conn[b]
  BY DEF FanWriteFails, TypeOK
<1>3. FanRows' /\ SinceInLog' /\ OnlyNegotiatedFrames' /\ BuildEventsInOrder'
  BY <1>1, <1>2 DEF Order, FanRows, SinceInLog, OnlyNegotiatedFrames, BuildEventsInOrder
<1>4. NoLostBroadcast'
  <2> SUFFICES ASSUME NEW b \in Conns \ {d}, NEW i \in DOMAIN events, OnItsWay(b, i)
               PROVE  OnItsWay(b, i)'
    BY <1>2 DEF Order, NoLostBroadcast, Reachable, Live
  <2> QED BY <1>1 DEF OnItsWay
<1>5. OutInOrder'
  <2>1. Dev \in Threads
    BY DEF Threads
  <2>2. fan'[Dev].id = fan[Dev].id /\ fan'[Dev].left \subseteq fan[Dev].left
    BY <1>1, <2>1
  <2>3. fan'[Dev].stage = fan[Dev].stage
    BY <1>1, <2>1
  <2>4. fan[Dev].left \subseteq Conns
    BY <2>1 DEF TypeOK, Fan
  <2> QED BY <1>2, <2>2, <2>3, <2>4 DEF Order, OutInOrder
<1> QED BY <1>3, <1>4, <1>5 DEF Order

\* Who registers has the whole log before it.
LEMMA RegisterKeepsOrder ==
  ASSUME TypeOK, Order, NEW c \in Conns, Register(c)
  PROVE  Order'
<1> USE DEF storeVars
<1>1. /\ UNCHANGED <<events, fan, conn, seen>> /\ sessions' = sessions \cup {c}
      /\ since'[c] = Len(events) /\ \A b \in Conns \ {c} : since'[b] = since[b]
      /\ Len(events) \in Nat /\ DOMAIN events = 1..Len(events)
  BY DEF Register, TypeOK, StoreTypeOK
<1>2. FanRows' /\ SinceInLog' /\ OnlyNegotiatedFrames' /\ BuildEventsInOrder'
  <2>1. FanRows' /\ SinceInLog' /\ OnlyNegotiatedFrames'
    BY <1>1 DEF Order, FanRows, SinceInLog, OnlyNegotiatedFrames
  <2>2. BuildEventsInOrder'
    BY <1>1 DEF Order, BuildEventsInOrder
  <2> QED BY <2>1, <2>2
<1>3. NoLostBroadcast'
  BY <1>1 DEF Order, NoLostBroadcast, Reachable, Live, OnItsWay
<1>4. OutInOrder'
  <2> SUFFICES ASSUME fan[Dev].stage = "out", NEW d \in fan[Dev].left,
                      NEW i \in 1..(fan[Dev].id - 1),
                      events[i].build > 0, i > since'[d], Wants(d, events[i])
               PROVE  i \in seen[d].live \/ conn[d] = "closed"
    BY <1>1 DEF OutInOrder
  <2>1. fan[Dev].id \in DOMAIN events /\ d \in Conns
    BY DEF Order, FanRows, Threads, TypeOK, Fan
  <2>2. d # c
    BY <1>1, <2>1
  <2> QED BY <1>1, <2>1, <2>2 DEF Order, OutInOrder
<1> QED BY <1>2, <1>3, <1>4 DEF Order

-----------------------------------------------------------------------------
(* Each action has one of the shapes, and keeps the control state in order.  *)

Control == Attached /\ FanOwners

LEMMA ReplayUnchanged == ASSUME ReplayMatchesItems, UNCHANGED storeVars
                         PROVE  ReplayMatchesItems'
  BY DEF storeVars, ReplayMatchesItems, DiffsOf

LEMMA HandshakeStep ==
  ASSUME TypeOK, Control, Order, ReplayMatchesItems, NEW c \in Conns,
         Connect(c) \/ Leave(c) \/ Handshake(c)
  PROVE  Control' /\ Order' /\ ReplayMatchesItems'
<1> USE DEF storeVars, loopVars, stopVars
<1>1. CASE Connect(c)
  <2>1. Control'
    BY <1>1 DEF Connect, Control, Attached, FanOwners, TypeOK
  <2>2. QuietStep
    BY <1>1 DEF Connect, QuietStep, Control, Attached, TypeOK
  <2> QED BY <1>1, <2>1, <2>2, QuietKeepsOrder, ReplayUnchanged DEF Connect
<1>2. CASE Leave(c)
  <2>1. Control'
    BY <1>2 DEF Leave, Control, Attached, FanOwners
  <2>2. QuietStep
    BY <1>2 DEF Leave, QuietStep
  <2> QED BY <1>2, <2>1, <2>2, QuietKeepsOrder, ReplayUnchanged DEF Leave
<1>3. ASSUME handler[c] \in {"hello", "ack"}, Refuse(c),
             UNCHANGED <<storeVars, loopVars, ping, fan, dev, stopVars, seen>>
      PROVE  Control' /\ Order' /\ ReplayMatchesItems'
  <2>1. Control'
    BY <1>3 DEF Refuse, Control, Attached, FanOwners, TypeOK
  <2>2. QuietStep
    BY <1>3 DEF Refuse, QuietStep, TypeOK
  <2> QED BY <1>3, <2>1, <2>2, QuietKeepsOrder, ReplayUnchanged
<1>4. ASSUME NEW name \in {"hello", "hello.ack"}, NEW next \in {"ack", "register"},
             handler[c] \in {"hello", "ack"}, Persist(c, name, next),
             UNCHANGED <<loopVars, ping, fan, dev, stopVars, seen>>
      PROVE  Control' /\ Order' /\ ReplayMatchesItems'
  <2>1. CASE StoreFault(StoreClosed) /\ Refuse(c) /\ UNCHANGED storeVars
    BY <1>3, <1>4, <2>1
  <2>2. CASE AppendEvent(name, Ext(c), 0) /\ Advance(c, next) /\ UNCHANGED faults
    <3> DEFINE e == PlainEvent(name, Ext(c), 0)
    <3>1. e \in Event /\ e.name = name /\ e.build = 0
      BY ExtType, PlainEventType DEF EventNames, PlainEvent
    <3>2. LogStep(e)
      BY <1>4, <2>2, <3>1 DEF LogStep, AppendEvent, Advance, BroadcastCapabilities
    <3>3. Control'
      BY <1>4, <2>2 DEF Advance, Control, Attached, FanOwners, TypeOK
    <3>4. ReplayMatchesItems'
      <4>1. name \in EventNames \ {"storage.diff"} /\ 0 \in Nat
        BY DEF EventNames
      <4> QED BY <2>2, <4>1, ExtType, AppendKeepsReplay DEF TypeOK
    <3> HIDE DEF e
    <3> QED BY <3>1, <3>2, <3>3, <3>4, LogKeepsOrder
  <2> QED BY <1>4, <2>1, <2>2 DEF Persist
<1>5. CASE RejectHello(c)
  BY <1>3, <1>5 DEF RejectHello
<1>6. CASE AcceptHello(c)
  BY <1>4, <1>6 DEF AcceptHello
<1>7. CASE Acknowledge(c)
  BY <1>3, <1>4, <1>7 DEF Acknowledge
<1>8. CASE Register(c)
  <2>1. Control'
    BY <1>8 DEF Register, Control, Attached, FanOwners, TypeOK
  <2> QED BY <1>8, <2>1, RegisterKeepsOrder, ReplayUnchanged DEF Register
<1> QED BY <1>1, <1>2, <1>5, <1>6, <1>7, <1>8 DEF Handshake

LEMMA FanningStep ==
  ASSUME TypeOK, Control, Order, ReplayMatchesItems, NEW t \in Threads, Fanning(t)
  PROVE  Control' /\ Order' /\ ReplayMatchesItems'
<1> USE DEF storeVars, connVars, loopVars, stopVars
<1>1. CASE FanSnapshot(t)
  <2>1. Control'
    BY <1>1 DEF FanSnapshot, Control, Attached, FanOwners, Threads, TypeOK
  <2> QED BY <1>1, <2>1, FanSnapshotKeepsOrder, ReplayUnchanged DEF FanSnapshot, Control
<1>2. ASSUME NEW d \in Conns, FanWrite(t, d) PROVE Control' /\ Order' /\ ReplayMatchesItems'
  <2>1. Control'
    BY <1>2 DEF FanWrite, Control, Attached, FanOwners, Threads, TypeOK
  <2> QED BY <1>2, <2>1, FanWriteKeepsOrder, ReplayUnchanged DEF FanWrite
<1>3. ASSUME NEW d \in Conns, FanWriteFails(t, d)
      PROVE  Control' /\ Order' /\ ReplayMatchesItems'
  <2>1. conn[d] # "none"
    BY <1>3 DEF FanWriteFails, Control, Attached
  <2>2. Control'
    BY <1>3, <2>1 DEF FanWriteFails, Control, Attached, FanOwners, Threads, TypeOK
  <2> QED BY <1>3, <2>2, FanWriteFailsKeepsOrder, ReplayUnchanged DEF FanWriteFails
<1>4. ASSUME NEW d \in Conns, FanDrop(t, d) PROVE Control' /\ Order' /\ ReplayMatchesItems'
  <2>1. Control'
    BY <1>4 DEF FanDrop, Control, Attached, FanOwners, Threads, TypeOK
  <2>2. QuietStep
    BY <1>4 DEF FanDrop, QuietStep, TypeOK
  <2> QED BY <1>4, <2>1, <2>2, QuietKeepsOrder, ReplayUnchanged DEF FanDrop
<1> QED BY <1>1, <1>2, <1>3, <1>4 DEF Fanning

\* A goroutine that waits for no fan-out starts one with the row it appends.
LEMMA LoopingStep ==
  ASSUME TypeOK, Control, Order, ReplayMatchesItems, NEW c \in Conns,
         Looping(c) \/ \E m \in Commands : Receive(c, m)
  PROVE  Control' /\ Order' /\ ReplayMatchesItems'
<1> USE DEF storeVars, connVars, loopVars, stopVars, Goto
<1>a. c # Dev /\ c \in Threads
  BY DaemonAssumption DEF Threads
<1>b. ASSUME UNCHANGED <<storeVars, connVars, ping, fan, dev, drain, seen>>,
             loop[c] \notin {"off", "fan"},
             NEW pc \in LoopPCs \ {"off", "fan"}, loop' = [loop EXCEPT ![c] = pc]
      PROVE  Control' /\ Order' /\ ReplayMatchesItems'
  <2>1. QuietStep
    BY <1>b DEF QuietStep
  <2>2. Control'
    BY <1>b, <1>a DEF Control, Attached, FanOwners, TypeOK
  <2> QED BY <1>b, <2>1, <2>2, QuietKeepsOrder, ReplayUnchanged
<1>1. ASSUME \/ \E m \in Commands : Receive(c, m)
             \/ ReadFails(c) \/ LookupExtension(c) \/ CheckSession(c)
             \/ QueryEvents(c) \/ QueryStorage(c) \/ MutateNothing(c)
             \/ MutationsDone(c) \/ WriteReplyFails(c)
      PROVE  /\ UNCHANGED <<storeVars, connVars, ping, fan, dev, drain, seen>>
             /\ loop[c] \notin {"off", "fan"}
             /\ \E pc \in LoopPCs \ {"off", "fan"} : loop' = [loop EXCEPT ![c] = pc]
  <2>1. CASE CheckSession(c)
    <3>1. job[c].cmd.do \in Jobs
      BY DEF TypeOK, Job, Command
    <3> QED BY <2>1, <3>1 DEF CheckSession, Jobs, LoopPCs
  <2>2. CASE MutateNothing(c)
    BY <2>2 DEF MutateNothing, TypeOK, LoopPCs
  <2> QED BY <1>1, <2>1, <2>2
      DEF Receive, ReadFails, LookupExtension, QueryEvents, QueryStorage, MutationsDone,
          WriteReplyFails, LoopPCs
<1>2. CASE OperationFails(c)
  <2>1. /\ UNCHANGED <<storeVars, connVars, ping, fan, dev, drain, seen>>
        /\ loop[c] \notin {"off", "fan"}
        /\ \E pc \in LoopPCs \ {"off", "fan"} : loop' = [loop EXCEPT ![c] = pc]
    BY <1>2 DEF OperationFails, Failed, LoopPCs
  <2> QED BY <2>1, <1>b
<1>3. CASE WriteReply(c)
  <2>1. \A d \in Conns : seen'[d].live = seen[d].live
    <3>1. seen[c] \in Seen
      BY DEF TypeOK
    <3>2. Answered(c).live = seen[c].live
      BY <3>1 DEF Answered, Seen
    <3> QED BY <1>3, <3>2 DEF WriteReply, TypeOK
  <2>2. QuietStep
    BY <1>3, <2>1 DEF WriteReply, QuietStep
  <2>3. Control'
    BY <1>3, <1>a DEF WriteReply, Control, Attached, FanOwners, TypeOK
  <2> QED BY <1>3, <2>2, <2>3, QuietKeepsOrder, ReplayUnchanged DEF WriteReply
<1>4. CASE LoopUnregisters(c) \/ LoopCloses(c)
  <2>1. QuietStep
    BY <1>4 DEF LoopUnregisters, LoopCloses, QuietStep, TypeOK
  <2>2. Control'
    BY <1>4, <1>a DEF LoopUnregisters, LoopCloses, Control, Attached, FanOwners, TypeOK
  <2> QED BY <1>4, <2>1, <2>2, QuietKeepsOrder, ReplayUnchanged
          DEF LoopUnregisters, LoopCloses
<1>5. CASE FanReturns(c)
  <2>1. \E pc \in LoopPCs \ {"off", "fan"} : loop' = [loop EXCEPT ![c] = pc]
    BY <1>5 DEF FanReturns, Failed, LoopPCs
  <2>2. fan' = [fan EXCEPT ![c] = NoFan] /\ FanDone(c) /\ loop[c] = "fan"
    BY <1>5 DEF FanReturns
  <2>3. QuietStep
    BY <1>5, <2>2, <1>a DEF FanReturns, FanDone, QuietStep, NoFan, TypeOK
  <2>4. Control'
    BY <1>5, <2>1, <2>2, <1>a
       DEF FanReturns, NoFan, Control, Attached, FanOwners, Threads, TypeOK
  <2> QED BY <1>5, <2>3, <2>4, QuietKeepsOrder, ReplayUnchanged DEF FanReturns
<1>6. ASSUME NEW e \in Event, e.build = 0, events' = Append(events, e), StartFan(c),
             loop[c] \notin {"off", "fan"}, loop' = [loop EXCEPT ![c] = "fan"],
             UNCHANGED <<connVars, ping, dev, drain, seen>>
      PROVE  Control' /\ Order'
  <2>1. fan[c].stage = "idle"
    BY <1>6 DEF Control, FanOwners
  <2>2. StartStep(e, c)
    BY <1>6, <2>1 DEF StartStep
  <2>3. Control'
    BY <1>6, <1>a DEF StartFan, NoFan, Control, Attached, FanOwners, Threads, TypeOK
  <2> QED BY <2>2, <2>3, <1>a, StartKeepsOrder
<1>7. CASE Mutate(c)
  <2>1. PICK ks \in SUBSET Keys, v \in Values \cup {None} : CommitDiff(job[c].ext, ks, v)
    BY <1>7, MutationTypes
  <2>2. job[c].ext \in Exts \cup {NoExt}
    BY DEF TypeOK, Job
  <2>3. DiffEvent(job[c].ext, ks, v) \in Event /\ DiffEvent(job[c].ext, ks, v).build = 0
    BY <2>2, DiffEventType DEF DiffEvent
  <2>4. ReplayMatchesItems'
    BY <2>1, <2>2, CommitKeepsReplay DEF TypeOK
  <2> QED BY <1>6, <1>7, <2>1, <2>3, <2>4 DEF Mutate, CommitDiff
<1>8. CASE SendRuntimeMessage(c)
  <2> DEFINE e == PlainEvent("chrome.api.event", NoExt, 0)
  <2>1. e \in Event /\ e.build = 0
    BY PlainEventType DEF EventNames, PlainEvent
  <2>2. ReplayMatchesItems'
    <3>1. "chrome.api.event" \in EventNames \ {"storage.diff"} /\ 0 \in Nat
      BY DEF EventNames
    <3> QED BY <1>8, <3>1, AppendKeepsReplay DEF SendRuntimeMessage, TypeOK
  <2> HIDE DEF e
  <2> QED BY <1>6, <1>8, <2>1, <2>2 DEF SendRuntimeMessage, AppendEvent, e
<1> QED BY <1>1, <1>2, <1>3, <1>4, <1>5, <1>7, <1>8, <1>b DEF Looping

LEMMA OtherStep ==
  ASSUME TypeOK, Control, Order, ReplayMatchesItems,
         \/ \E c \in Conns : Pinging(c) \/ CloseOne(c)
         \/ Build \/ Building \/ ContextDone
         \/ StopListening \/ CancelAndDrain \/ CloseStore
  PROVE  Control' /\ Order' /\ ReplayMatchesItems'
<1> USE DEF storeVars, connVars, loopVars, stopVars
<1>a. Dev \notin Conns /\ Dev \in Threads
  BY DaemonAssumption DEF Threads
<1>1. ASSUME NEW c \in Conns, Pinging(c) PROVE Control' /\ Order' /\ ReplayMatchesItems'
  <2>1. QuietStep
    BY <1>1 DEF Pinging, PingFails, PingUnregisters, PingStops, QuietStep, TypeOK
  <2>2. Control'
    BY <1>1 DEF Pinging, PingFails, PingUnregisters, PingStops, Control, Attached,
                FanOwners, TypeOK
  <2> QED BY <1>1, <2>1, <2>2, QuietKeepsOrder, ReplayUnchanged
          DEF Pinging, PingFails, PingUnregisters, PingStops
<1>2. ASSUME NEW c \in Conns, CloseOne(c) PROVE Control' /\ Order' /\ ReplayMatchesItems'
  <2>1. QuietStep
    BY <1>2 DEF CloseOne, QuietStep, TypeOK
  <2>2. Control'
    BY <1>2 DEF CloseOne, Control, Attached, FanOwners, TypeOK
  <2> QED BY <1>2, <2>1, <2>2, QuietKeepsOrder, ReplayUnchanged DEF CloseOne
<1>3. CASE ContextDone \/ StopListening \/ CancelAndDrain \/ CloseStore
  <2>1. QuietStep
    BY <1>3 DEF ContextDone, StopListening, CancelAndDrain, CloseStore, QuietStep
  <2>2. Control'
    BY <1>3 DEF ContextDone, StopListening, CancelAndDrain, CloseStore, Control, Attached,
                FanOwners
  <2> QED BY <1>3, <2>1, <2>2, QuietKeepsOrder, ReplayUnchanged
          DEF ContextDone, StopListening, CancelAndDrain, CloseStore
\* The build loop, while it waits for no fan-out.
<1>4. ASSUME dev.pc \notin {"complete", "reload"}, dev'.pc \notin {"complete", "reload"},
             UNCHANGED <<storeVars, connVars, loopVars, ping, fan, stopVars, seen>>
      PROVE  Control' /\ Order' /\ ReplayMatchesItems'
  <2>1. QuietStep
    BY <1>4 DEF QuietStep
  <2>2. Control'
    BY <1>4 DEF Control, Attached, FanOwners
  <2> QED BY <1>4, <2>1, <2>2, QuietKeepsOrder, ReplayUnchanged
<1>5. CASE Build
  BY <1>4, <1>5 DEF Build
<1>6. CASE NoReload
  BY <1>4, <1>6 DEF NoReload, DevGoto, TypeOK, DevState
<1>7. ASSUME NEW pc \in {"publish", "decide"},
             NEW name \in {"build.complete", "command.reload"},
             NEW next \in {"complete", "reload"}, NEW skip \in {"decide", "idle"},
             Publish(pc, name, next, skip)
      PROVE  Control' /\ Order' /\ ReplayMatchesItems'
  <2>1. CASE UNCHANGED <<storeVars, fan>> /\ DevGoto(skip)
    BY <1>4, <1>7, <2>1 DEF Publish, DevGoto, TypeOK, DevState
  <2>2. CASE AppendEvent(name, DevExt, dev.build) /\ StartFan(Dev) /\ DevGoto(next)
    <3> DEFINE e == PlainEvent(name, DevExt, dev.build)
    <3>1. DevExt \in Exts \cup {NoExt} /\ dev.build \in Nat
          /\ name \in EventNames \ {"storage.diff"}
      BY DaemonAssumption DEF TypeOK, DevState, EventNames
    <3>2. e \in Event
      BY <3>1, PlainEventType
    <3>3. ReplayMatchesItems'
      BY <2>2, <3>1, AppendKeepsReplay DEF TypeOK
    <3>4. fan[Dev].stage = "idle"
      BY <1>7 DEF Publish, Control, FanOwners
    <3>5. StartStep(e, Dev)
      BY <1>7, <1>a, <2>2, <3>4 DEF Publish, StartStep, AppendEvent
    <3>6. Control'
      BY <1>7, <1>a, <2>2
         DEF Publish, DevGoto, StartFan, NoFan, Control, Attached, FanOwners, Threads,
             TypeOK, DevState
    <3> HIDE DEF e
    <3> QED BY <1>a, <3>2, <3>3, <3>5, <3>6, StartKeepsOrder
  <2> QED BY <1>7, <2>1, <2>2 DEF Publish
<1>8. CASE PublishBuildComplete \/ PublishReload
  BY <1>7, <1>8 DEF PublishBuildComplete, PublishReload
<1>9. CASE Published
  <2>1. fan' = [fan EXCEPT ![Dev] = NoFan] /\ FanDone(Dev)
        /\ dev'.pc \notin {"complete", "reload"}
    BY <1>9 DEF Published, DevGoto, TypeOK, DevState
  <2>2. QuietStep
    BY <1>9, <2>1, <1>a DEF Published, FanDone, QuietStep, NoFan, TypeOK
  <2>3. Control'
    BY <1>9, <2>1, <1>a
       DEF Published, NoFan, Control, Attached, FanOwners, Threads, TypeOK
  <2> QED BY <1>9, <2>2, <2>3, QuietKeepsOrder, ReplayUnchanged DEF Published
<1> QED BY <1>1, <1>2, <1>3, <1>5, <1>6, <1>8, <1>9 DEF Building

-----------------------------------------------------------------------------
LEMMA StepDInv == DInv /\ [Next]_vars => DInv'
<1> SUFFICES ASSUME DInv, [Next]_vars PROVE DInv'
  OBVIOUS
<1>1. TypeOK /\ Control /\ Order /\ ReplayMatchesItems
  BY DEF DInv, Control, Order
<1>2. TypeOK'
  BY <1>1, TypeStep DEF Order
<1>3. Control' /\ Order' /\ ReplayMatchesItems'
  <2>1. CASE UNCHANGED vars
    <3>1. QuietStep
      BY <2>1 DEF vars, connVars, storeVars, QuietStep
    <3>2. Control'
      BY <1>1, <2>1 DEF vars, connVars, loopVars, stopVars, Control, Attached, FanOwners
    <3> QED BY <1>1, <2>1, <3>1, <3>2, QuietKeepsOrder, ReplayUnchanged DEF vars
  <2>2. CASE Next
    BY <1>1, <2>2, HandshakeStep, FanningStep, LoopingStep, OtherStep
       DEF Next, ShuttingDown
  <2> QED BY <2>1, <2>2
<1> QED BY <1>2, <1>3 DEF DInv, Control, Order

LEMMA SpecDInv == Spec => []DInv
  BY InitDInv, StepDInv, PTL DEF Spec

\* Types, for any number of connections, commands, builds and database errors.
THEOREM DaemonTypes == Spec => []TypeOK
<1>1. DInv => TypeOK
  BY DEF DInv
<1> QED BY SpecDInv, <1>1, PTL

\* No broadcast is lost on a session that can still be written to, however many
\* goroutines fan out at once and whichever sessions fail meanwhile.
THEOREM BroadcastsReachSessions == Spec => []NoLostBroadcast
<1>1. DInv => NoLostBroadcast
  BY DEF DInv
<1> QED BY SpecDInv, <1>1, PTL

\* Nothing is sent that was not negotiated or is for another extension.
THEOREM FramesAreNegotiated == Spec => []OnlyNegotiatedFrames
<1>1. DInv => OnlyNegotiatedFrames
  BY DEF DInv
<1> QED BY SpecDInv, <1>1, PTL

\* A client that gets a reload got the build.complete events before it.
THEOREM BuildEventsArriveInOrder == Spec => []BuildEventsInOrder
<1>1. DInv => BuildEventsInOrder
  BY DEF DInv
<1> QED BY SpecDInv, <1>1, PTL

\* The store's promise survives every interleaving of read loops, builds,
\* handshakes and shutdown.
THEOREM ReplayIsStorageInDaemon == Spec => []ReplayMatchesItems
<1>1. DInv => ReplayMatchesItems
  BY DEF DInv
<1> QED BY SpecDInv, <1>1, PTL

-----------------------------------------------------------------------------
(* What a read loop holds, and what its answers rest on.                     *)

Busy == {"lookup", "check", "history", "snapshot", "mutate", "send", "fan", "reply"}

\* A read loop handles a command of its client, for the client's extension as long
\* as the session is in the table; before the handshake is over it has no command.
Handles(c) ==
    /\ job[c].from <= Len(events)
    /\ loop[c] \in Busy => job[c].cmd \in Commands
    /\ loop[c] \in {"history", "snapshot", "send"} => job[c].cmd.do = loop[c]
    /\ c \in sessions /\ loop[c] \in Busy \ {"lookup"} => job[c].ext = Ext(c)
    /\ handler[c] # "done" => job[c].reply.ids = {}

\* A key that chrome.storage.set is done with has its diff.
SetsKeys(c) ==
    job[c].cmd.do = "set" /\ job[c].reply.ok =>
        /\ loop[c] \in {"mutate", "fan", "reply"} =>
              \A k \in job[c].cmd.keys \ job[c].todo : KeyIsSet(c, k)
        /\ loop[c] = "reply" => job[c].todo = {}

\* A key that remove is done with was absent, after clear the area was empty, and
\* the message of a broadcast is in the log.
Empties(c) ==
    job[c].reply.ok /\ loop[c] \in {"mutate", "fan", "reply"} =>
        /\ job[c].cmd.do = "remove" =>
              \A k \in job[c].cmd.keys \ job[c].todo : KeyWasAbsent(c, k)
        /\ job[c].cmd.do = "clear" => job[c].todo # {} \/ AreaWasEmpty(c)
        /\ job[c].cmd.do = "send" => MessageIsLogged(c)
        /\ loop[c] = "reply" /\ job[c].cmd.do \in {"remove", "clear"} => job[c].todo = {}

\* From the oldest row on, no row of client c's extension that was in the log when
\* c was registered is missing from a set of rows.
Complete(c, ids) ==
    \A h \in ids, i \in DOMAIN events :
        h <= i /\ i <= since[c] /\ Ext(c) \in {NoExt, events[i].ext} => i \in ids

HoldsPages(c) ==
    /\ handler[c] # "done" => seen[c].hist = {}
    /\ c \in sessions => Complete(c, seen[c].hist) /\ Complete(c, job[c].reply.ids)

\* The value of key k after the first n rows, if no extension but one touched it.
Touches(i, k) == events[i].name = "storage.diff" /\ k \in events[i].keys
AsOf(n, k, v) ==
    \/ v = None /\ \A i \in DOMAIN events : i <= n => ~Touches(i, k)
    \/ \E i \in DOMAIN events : /\ i <= n /\ Touches(i, k) /\ v = events[i].to
                                /\ \A j \in DOMAIN events : j <= n /\ Touches(j, k) => j <= i

\* Only client c's extension has touched key k.
OwnKey(c, k) ==
    \A i \in DOMAIN events : k \in events[i].keys => events[i].ext = NormalizeExt(Ext(c))

ShowsLog(c, view, n) == \A k \in Keys : OwnKey(c, k) => AsOf(n, k, view[k])

\* The snapshot that is about to be answered shows the log as it was.
HoldsSnapshot(c) ==
    /\ job[c].reply.upto <= Len(events)
    /\ c \in sessions /\ loop[c] = "reply" /\ job[c].cmd.name = "query.storage" =>
          /\ since[c] <= job[c].reply.upto
          /\ ShowsLog(c, job[c].reply.view, job[c].reply.upto)

\* No diff up to row n - 1 is on its way.
NoneOnItsWay(d, n) ==
    \A i \in DOMAIN events : i < n /\ events[i].name = "storage.diff" => ~OnItsWay(d, i)

\* A view that was given everything in order shows the log up to the row it
\* reflects, unless something older is still on its way (and will be too late).
FollowsLog(d) ==
    /\ seen[d].upto <= Len(events)
    /\ \A i \in seen[d].live :
          i \in DOMAIN events /\ events[i].name = "storage.diff" => i <= seen[d].upto
    /\ handler[d] # "done" => ~seen[d].synced
    /\ d \in sessions /\ seen[d].synced => since[d] <= seen[d].upto
    /\ (/\ Reachable(d) /\ seen[d].synced /\ ~seen[d].late
        /\ "storage.diff" \in Caps(d)
        /\ NoneOnItsWay(d, seen[d].upto)) => ShowsLog(d, seen[d].view, seen[d].upto)

LInv == \A c \in Conns : /\ Handles(c) /\ SetsKeys(c) /\ Empties(c) /\ HoldsPages(c)
                         /\ HoldsSnapshot(c) /\ FollowsLog(c)

-----------------------------------------------------------------------------
(* What the steps have in common.                                            *)

\* The log is only ever appended to.
Grows == /\ DOMAIN events \subseteq DOMAIN events'
         /\ Len(events) <= Len(events')
         /\ \A i \in DOMAIN events : events'[i] = events[i]

LEMMA LogGrows == ASSUME TypeOK, [Next]_vars PROVE Grows
<1> USE DEF storeVars
<1>1. ASSUME NEW e \in Event, events' = Append(events, e) PROVE Grows
  BY <1>1, AppendKeepsRows DEF Grows
<1>2. ASSUME UNCHANGED events PROVE Grows
  BY <1>2 DEF Grows, TypeOK, StoreTypeOK
<1>3. ASSUME NEW name \in EventNames, NEW x \in Exts \cup {NoExt}, NEW n \in Nat,
             AppendEvent(name, x, n)
      PROVE  Grows
  BY <1>1, <1>3, PlainEventType DEF AppendEvent
<1>4. ASSUME NEW c \in Conns, Handshake(c) PROVE Grows
  <2>1. "hello" \in EventNames /\ "hello.ack" \in EventNames /\ 0 \in Nat
        /\ Ext(c) \in Exts \cup {NoExt}
    BY ExtType DEF EventNames
  <2> QED BY <1>2, <1>3, <1>4, <2>1
          DEF Handshake, RejectHello, AcceptHello, Acknowledge, Register, Persist
<1>5. ASSUME NEW c \in Conns, Looping(c) PROVE Grows
  <2>1. CASE Mutate(c)
    <3>1. PICK ks \in SUBSET Keys, v \in Values \cup {None} : CommitDiff(job[c].ext, ks, v)
      BY <2>1, MutationTypes
    <3>2. DiffEvent(job[c].ext, ks, v) \in Event
      BY DiffEventType DEF TypeOK, Job
    <3> QED BY <1>1, <3>1, <3>2 DEF CommitDiff
  <2>2. CASE SendRuntimeMessage(c)
    <3>1. "chrome.api.event" \in EventNames /\ 0 \in Nat
      BY DEF EventNames
    <3> QED BY <1>3, <2>2, <3>1 DEF SendRuntimeMessage
  <2>3. CASE ~Mutate(c) /\ ~SendRuntimeMessage(c)
    BY <1>2, <1>5, <2>3
       DEF Looping, ReadFails, LookupExtension, CheckSession, OperationFails, QueryEvents,
           QueryStorage, MutateNothing, FanReturns, MutationsDone, WriteReply,
           WriteReplyFails, LoopUnregisters, LoopCloses
  <2> QED BY <2>1, <2>2, <2>3
<1>6. ASSUME NEW pc \in {"publish", "decide"},
             NEW name \in {"build.complete", "command.reload"},
             NEW next \in {"complete", "reload"}, NEW skip \in {"decide", "idle"},
             Publish(pc, name, next, skip)
      PROVE  Grows
  <2>1. name \in EventNames /\ DevExt \in Exts \cup {NoExt} /\ dev.build \in Nat
    BY DaemonAssumption DEF EventNames, TypeOK, DevState
  <2> QED BY <1>2, <1>3, <1>6, <2>1 DEF Publish
<1>7. CASE PublishBuildComplete \/ PublishReload
  BY <1>6, <1>7 DEF PublishBuildComplete, PublishReload
<1>8. ASSUME \/ \E c \in Conns : \/ Connect(c) \/ Leave(c) \/ Pinging(c) \/ CloseOne(c)
                                 \/ \E m \in Commands : Receive(c, m)
             \/ \E t \in Threads : Fanning(t)
             \/ Build \/ NoReload \/ Published
             \/ ContextDone \/ StopListening \/ CancelAndDrain \/ CloseStore
      PROVE  UNCHANGED events
  BY <1>8 DEF Connect, Leave, Pinging, PingFails, PingUnregisters, PingStops, CloseOne, Receive,
       Fanning, FanSnapshot, FanWrite, FanWriteFails, FanDrop, Build, NoReload, Published,
       ContextDone, StopListening, CancelAndDrain, CloseStore
<1>9. CASE UNCHANGED vars
  BY <1>2, <1>9 DEF vars
<1> QED BY <1>2, <1>4, <1>5, <1>7, <1>8, <1>9 DEF Next, Building, ShuttingDown

\* What a read loop and a registration do to their own connection, nobody else does.
Acts(c) == Looping(c) \/ Register(c) \/ \E m \in Commands : Receive(c, m)

LEMMA NobodyElse ==
  ASSUME TypeOK, [Next]_vars, NEW c \in Conns, ~Acts(c)
  PROVE  /\ job'[c] = job[c] /\ loop'[c] = loop[c] /\ since'[c] = since[c]
         /\ c \in sessions' => c \in sessions
         /\ handler'[c] # "done" => handler[c] # "done"
         /\ seen'[c].hist = seen[c].hist
<1> DEFINE Kept == /\ job'[c] = job[c] /\ loop'[c] = loop[c] /\ since'[c] = since[c]
                   /\ c \in sessions' => c \in sessions
                   /\ handler'[c] # "done" => handler[c] # "done"
                   /\ seen'[c].hist = seen[c].hist
<1> USE DEF connVars, loopVars
<1>1. ASSUME NEW d \in Conns, Connect(d) \/ Leave(d) PROVE Kept
  BY <1>1 DEF Connect, Leave, TypeOK
<1>2. ASSUME NEW d \in Conns, Handshake(d) PROVE Kept
  <2>1. CASE Register(d)
    <3>1. d # c
      BY <2>1 DEF Acts
    <3> QED BY <2>1, <3>1 DEF Register, TypeOK
  <2>2. CASE RejectHello(d) \/ AcceptHello(d) \/ Acknowledge(d)
    BY <2>2 DEF RejectHello, AcceptHello, Acknowledge, Persist, Advance, Refuse, TypeOK
  <2> QED BY <1>2, <2>1, <2>2 DEF Handshake
<1>3. ASSUME NEW d \in Conns, Looping(d) \/ \E m \in Commands : Receive(d, m) PROVE Kept
  <2>1. d # c
    BY <1>3 DEF Acts
  <2> QED BY <1>3, <2>1
      DEF Looping, ReadFails, LookupExtension, CheckSession, OperationFails, QueryEvents,
          QueryStorage, Mutate, MutateNothing, SendRuntimeMessage, FanReturns,
          MutationsDone, WriteReply, WriteReplyFails, LoopUnregisters, LoopCloses, Receive,
          Goto, Failed, TypeOK
<1>4. ASSUME NEW d \in Conns, Pinging(d) \/ CloseOne(d) PROVE Kept
  BY <1>4 DEF Pinging, PingFails, PingUnregisters, PingStops, CloseOne, TypeOK
<1>5. ASSUME NEW t \in Threads, Fanning(t) PROVE Kept
  <2>1. ASSUME NEW d \in Conns, FanWrite(t, d) PROVE Kept
    <3>1. seen[d] \in Seen
      BY DEF TypeOK
    <3>2. Receives(d, fan[t].id).hist = seen[d].hist
      BY <3>1 DEF Receives, Seen
    <3> QED BY <2>1, <3>2 DEF FanWrite, TypeOK
  <2>2. CASE FanSnapshot(t) \/ \E d \in Conns : FanWriteFails(t, d) \/ FanDrop(t, d)
    BY <2>2 DEF FanSnapshot, FanWriteFails, FanDrop, TypeOK
  <2> QED BY <1>5, <2>1, <2>2 DEF Fanning
<1>6. CASE Build \/ Building \/ ContextDone \/ StopListening \/ CancelAndDrain \/ CloseStore
  BY <1>6 DEF Build, Building, PublishBuildComplete, PublishReload, Publish, NoReload, Published,
              ContextDone, StopListening, CancelAndDrain, CloseStore
<1>7. CASE UNCHANGED vars
  BY <1>7 DEF vars
<1> QED BY <1>1, <1>2, <1>3, <1>4, <1>5, <1>6, <1>7 DEF Next, ShuttingDown

-----------------------------------------------------------------------------
(* The command in hand.                                                      *)

LEMMA HandlesKept ==
  ASSUME TypeOK, TypeOK', Attached, [Next]_vars, NEW c \in Conns, Handles(c)
  PROVE  Handles(c)'
<1> USE DEF Busy, storeVars, connVars
<1>1. Len(events) <= Len(events') /\ Len(events) \in Nat /\ Len(events') \in Nat
      /\ job[c].from \in Nat
  <2>1. job[c] \in Job /\ events \in Seq(Event) /\ events' \in Seq(Event)
    BY DEF TypeOK, StoreTypeOK
  <2> QED BY <2>1, LogGrows DEF Grows, Job
<1>2. CASE ~Acts(c)
  BY <1>1, <1>2, NobodyElse DEF Handles
<1>3. CASE Register(c)
  BY <1>1, <1>3 DEF Register, Handles, TypeOK
<1>4. ASSUME NEW m \in Commands, Receive(c, m) PROVE Handles(c)'
  <2>1. job'[c] = [Idle EXCEPT !.cmd = m, !.from = Len(events)] /\ loop'[c] = "lookup"
    BY <1>4 DEF Receive, Goto, TypeOK
  <2>2. job'[c].cmd = m /\ job'[c].from = Len(events) /\ job'[c].reply.ids = {}
    BY <2>1 DEF Idle, NoReply
  <2> QED BY <1>1, <2>1, <2>2 DEF Handles
<1>5. CASE Looping(c)
  <2>1. loop[c] # "off" /\ handler[c] = "done" /\ handler' = handler
    BY <1>5
       DEF Looping, ReadFails, LookupExtension, CheckSession, OperationFails, QueryEvents,
           QueryStorage, Mutate, MutateNothing, SendRuntimeMessage, FanReturns,
           MutationsDone, WriteReply, WriteReplyFails, LoopUnregisters, LoopCloses, Attached
  \* Steps that end in a place where there is no command, or keep the one there is.
  <2>2. ASSUME loop'[c] \notin Busy, job'[c] \in {job[c], Idle} PROVE Handles(c)'
    <3>1. Idle.from = 0
      BY DEF Idle
    <3> QED BY <1>1, <2>1, <2>2, <3>1 DEF Handles
  <2>3. ASSUME loop[c] \in Busy \ {"lookup"}, loop'[c] \in {"check", "mutate", "fan", "reply"},
               job'[c].cmd = job[c].cmd, job'[c].from = job[c].from, job'[c].ext = job[c].ext,
               sessions' = sessions
        PROVE  Handles(c)'
    BY <1>1, <2>1, <2>3 DEF Handles
  <2>4. CASE ReadFails(c) \/ WriteReply(c) \/ WriteReplyFails(c) \/ LoopUnregisters(c) \/ LoopCloses(c)
    BY <2>2, <2>4 DEF ReadFails, WriteReply, WriteReplyFails, LoopUnregisters, LoopCloses, Goto,
                      TypeOK
  <2>5. CASE LookupExtension(c)
    <3>1. /\ job'[c].cmd = job[c].cmd /\ job'[c].from = job[c].from
          /\ c \in sessions => job'[c].ext = Ext(c)
      BY <2>5 DEF LookupExtension, TypeOK, Job
    <3>2. loop'[c] \in {"check", "unregister"} /\ loop[c] \in Busy /\ sessions' = sessions
      BY <2>5 DEF LookupExtension, Goto, TypeOK
    <3> QED BY <1>1, <2>1, <3>1, <3>2 DEF Handles
  <2>6. CASE CheckSession(c)
    <3>1. job'[c].cmd = job[c].cmd /\ job'[c].from = job[c].from /\ job'[c].ext = job[c].ext
      BY <2>6 DEF CheckSession, TypeOK, Job
    <3>2. loop[c] = "check" /\ sessions' = sessions
          /\ loop'[c] \in {"unregister", "mutate", "reply", job[c].cmd.do}
      BY <2>6 DEF CheckSession, Goto, TypeOK
    <3>3. job[c].cmd.do \in Jobs
      BY DEF TypeOK, Job, Command
    <3> QED BY <1>1, <2>1, <3>1, <3>2, <3>3 DEF Handles, Jobs
  <2>7. CASE OperationFails(c) \/ FanReturns(c)
    <3>1. /\ job'[c].cmd = job[c].cmd /\ job'[c].from = job[c].from /\ job'[c].ext = job[c].ext
          /\ loop'[c] \in {"unregister", "mutate", "reply"}
          /\ loop'[c] = "unregister" => job'[c] = job[c]
          /\ loop[c] \in Busy \ {"lookup"} /\ sessions' = sessions
      BY <2>7 DEF OperationFails, FanReturns, Failed, Goto, TypeOK, Job
    <3> QED BY <2>2, <2>3, <3>1
  <2>8. CASE QueryEvents(c) \/ QueryStorage(c) \/ Mutate(c) \/ MutateNothing(c) \/ SendRuntimeMessage(c)
    <3>1. job'[c].cmd = job[c].cmd /\ job'[c].from = job[c].from /\ job'[c].ext = job[c].ext
      <4>1. CASE QueryEvents(c) \/ QueryStorage(c)
        BY <4>1 DEF QueryEvents, QueryStorage, TypeOK, Job
      <4>2. CASE Mutate(c)
        BY <4>2 DEF Mutate, TypeOK, Job
      <4>3. CASE MutateNothing(c)
        BY <4>3 DEF MutateNothing, TypeOK, Job
      <4>4. CASE SendRuntimeMessage(c)
        BY <4>4 DEF SendRuntimeMessage, TypeOK, Job
      <4> QED BY <2>8, <4>1, <4>2, <4>3, <4>4
    <3>2. /\ loop'[c] \in {"mutate", "fan", "reply"}
          /\ loop[c] \in Busy \ {"lookup"} /\ sessions' = sessions
      BY <2>8 DEF QueryEvents, QueryStorage, Mutate, MutateNothing, SendRuntimeMessage,
                  Goto, TypeOK
    <3> QED BY <2>3, <3>1, <3>2
  <2>9. CASE MutationsDone(c)
    <3>1. /\ loop'[c] = "reply" => job'[c] = job[c]
          /\ loop'[c] \in {"read", "reply"}
          /\ loop'[c] = "read" => job'[c] = Idle
          /\ loop[c] \in Busy \ {"lookup"} /\ sessions' = sessions
      BY <2>9 DEF MutationsDone, Goto, TypeOK
    <3> QED BY <2>2, <2>3, <3>1
  <2> QED BY <1>5, <2>4, <2>5, <2>6, <2>7, <2>8, <2>9 DEF Looping
<1> QED BY <1>2, <1>3, <1>4, <1>5 DEF Acts

\* A key that was set stays set.
LEMMA KeyStaysSet ==
  ASSUME TypeOK, Grows, NEW c \in Conns, NEW k, KeyIsSet(c, k),
         job'[c].from = job[c].from, job'[c].ext = job[c].ext, job'[c].cmd = job[c].cmd
  PROVE  KeyIsSet(c, k)'
BY DEF KeyIsSet, Grows

LEMMA SetsKeysKept ==
  ASSUME TypeOK, TypeOK', Attached, [Next]_vars, NEW c \in Conns, Handles(c), SetsKeys(c)
  PROVE  SetsKeys(c)'
<1> USE DEF storeVars, connVars
<1>1. Grows
  BY LogGrows
<1>2. CASE ~Acts(c)
  <2>1. job'[c] = job[c] /\ loop'[c] = loop[c]
    BY <1>2, NobodyElse
  <2> QED BY <1>1, <2>1, KeyStaysSet DEF SetsKeys
\* The command does nothing, is over, or is not at the keys yet.
<1>3. ASSUME loop'[c] \notin {"mutate", "fan", "reply"} PROVE SetsKeys(c)'
  BY <1>3 DEF SetsKeys
<1>4. CASE Register(c) \/ (\E m \in Commands : Receive(c, m))
  <2>1. CASE Register(c)
    BY <1>3, <2>1 DEF Register, TypeOK
  <2>2. ASSUME NEW m \in Commands, Receive(c, m) PROVE SetsKeys(c)'
    BY <1>3, <2>2 DEF Receive, Goto, TypeOK
  <2> QED BY <1>4, <2>1, <2>2
<1>5. CASE Looping(c)
  <2>1. CASE ReadFails(c) \/ WriteReply(c) \/ WriteReplyFails(c) \/ LoopUnregisters(c)
             \/ LoopCloses(c) \/ LookupExtension(c)
    BY <1>3, <2>1 DEF ReadFails, WriteReply, WriteReplyFails, LoopUnregisters, LoopCloses,
                      LookupExtension, Goto, TypeOK
  <2>2. ASSUME job'[c].reply.ok = FALSE \/ job'[c].cmd.do # "set" PROVE SetsKeys(c)'
    BY <2>2 DEF SetsKeys
  <2>3. CASE CheckSession(c)
    <3>1. job'[c].cmd = job[c].cmd /\ (job[c].cmd.do = "set" => job'[c].todo = job[c].cmd.keys)
      BY <2>3 DEF CheckSession, TypeOK, Job
    <3>2. job[c].cmd.do = "set" => loop'[c] \in {"unregister", "mutate"}
      BY <2>3 DEF CheckSession, Goto, TypeOK
    <3> QED BY <2>2, <3>1, <3>2 DEF SetsKeys
  <2>4. CASE OperationFails(c)
    <3>1. loop'[c] = "unregister" \/ job'[c].reply.ok = FALSE
      BY <2>4 DEF OperationFails, Failed, Goto, TypeOK, Job, Reply
    <3> QED BY <1>3, <2>2, <3>1
  <2>5. CASE FanReturns(c)
    <3>1. CASE fan[c].err
      <4>1. loop'[c] = "unregister" \/ job'[c].reply.ok = FALSE
        BY <2>5, <3>1 DEF FanReturns, Failed, Goto, TypeOK, Job, Reply
      <4> QED BY <1>3, <2>2, <4>1
    <3>2. CASE ~fan[c].err
      <4>1. job'[c] = job[c] /\ loop[c] = "fan" /\ loop'[c] = "mutate"
        BY <2>5, <3>2 DEF FanReturns, Goto, TypeOK
      <4> QED BY <1>1, <4>1, KeyStaysSet DEF SetsKeys
    <3> QED BY <3>1, <3>2
  <2>6. CASE QueryEvents(c) \/ QueryStorage(c) \/ SendRuntimeMessage(c) \/ MutateNothing(c)
    <3>1. job'[c].cmd = job[c].cmd
      BY <2>6 DEF QueryEvents, QueryStorage, SendRuntimeMessage, MutateNothing, TypeOK, Job
    <3>2. job[c].cmd.do # "set"
      BY <2>6 DEF QueryEvents, QueryStorage, SendRuntimeMessage, MutateNothing, Handles
    <3> QED BY <2>2, <3>1, <3>2
  <2>7. CASE MutationsDone(c)
    <3>1. loop[c] = "mutate" /\ job[c].todo = {}
      BY <2>7 DEF MutationsDone
    <3>2. CASE job[c].cmd.name = "chrome.api.call"
      <4>1. job'[c] = job[c] /\ loop'[c] = "reply"
        BY <2>7, <3>2 DEF MutationsDone, Goto, TypeOK
      <4> QED BY <1>1, <3>1, <4>1, KeyStaysSet DEF SetsKeys
    <3>3. CASE job[c].cmd.name # "chrome.api.call"
      BY <1>3, <2>7, <3>3 DEF MutationsDone, Goto, TypeOK
    <3> QED BY <3>2, <3>3
  <2>8. CASE Mutate(c)
    <3> DEFINE j == job[c]
    <3> SUFFICES ASSUME job'[c].cmd.do = "set", job'[c].reply.ok PROVE SetsKeys(c)'
      BY DEF SetsKeys
    <3>1. PICK k \in job[c].todo :
            /\ CASE job[c].cmd.do = "set"    -> SetStorageItem(job[c].ext, k, job[c].cmd.to)
                 [] job[c].cmd.do = "remove" -> RemoveStorageItem(job[c].ext, k)
                 [] OTHER                    -> ClearStorageArea(job[c].ext)
            /\ job' = [job EXCEPT ![c].todo = IF job[c].cmd.do = "clear" THEN {} ELSE @ \ {k}]
      BY <2>8 DEF Mutate
    <3>2. /\ job'[c].cmd = job[c].cmd /\ job'[c].from = job[c].from /\ job'[c].ext = job[c].ext
          /\ job'[c].reply = job[c].reply
          /\ job[c].cmd.do # "clear" => job'[c].todo = job[c].todo \ {k}
      BY <3>1 DEF TypeOK, Job
    <3>3. job[c].cmd.do = "set" /\ job[c].reply.ok /\ job'[c].todo = job[c].todo \ {k}
      BY <3>2
    <3>4. events' = Append(events, DiffEvent(job[c].ext, {k}, job[c].cmd.to))
      BY <3>1, <3>3 DEF SetStorageItem, CommitDiff
    <3>5. loop[c] = "mutate" /\ loop'[c] = "fan"
      BY <2>8 DEF Mutate, Goto, TypeOK
    <3>6. KeyIsSet(c, k)'
      <4>1. job[c] \in Job /\ job[c].cmd \in Command /\ job[c].todo \in SUBSET Keys
        BY DEF TypeOK, Job
      <4>2. {k} \in SUBSET Keys /\ job[c].cmd.to \in Values \cup {None} /\ job[c].ext \in Exts \cup {NoExt}
            /\ job[c].from \in Nat
        BY <4>1 DEF Command, Job
      <4>3. DiffEvent(job[c].ext, {k}, job[c].cmd.to) \in Event
        BY <4>2, DiffEventType
      <4>4. Len(events) + 1 \in DOMAIN events' /\ job[c].from < Len(events) + 1
            /\ events'[Len(events) + 1] = DiffEvent(job[c].ext, {k}, job[c].cmd.to)
        BY <3>4, <4>2, <4>3, AppendKeepsRows DEF Handles
      <4> QED BY <3>2, <4>4 DEF KeyIsSet, DiffEvent
    <3>7. ASSUME NEW l \in job[c].cmd.keys \ (job[c].todo \ {k}) PROVE KeyIsSet(c, l)'
      BY <1>1, <3>2, <3>3, <3>5, <3>6, KeyStaysSet DEF SetsKeys
    <3> QED BY <3>2, <3>3, <3>5, <3>7 DEF SetsKeys
  <2> QED BY <1>5, <2>1, <2>3, <2>4, <2>5, <2>6, <2>7, <2>8 DEF Looping
<1> QED BY <1>2, <1>4, <1>5 DEF Acts

\* What was so after some rows of the log stays so: the log only grows.
LEMMA AbsenceStays ==
  ASSUME TypeOK, TypeOK', Grows, NEW n \in 0..Len(events), NEW x, NEW k, AbsentAfter(n, x, k)
  PROVE  AbsentAfter(n, x, k)'
<1>1. /\ DOMAIN events = 1..Len(events) /\ Len(events) \in Nat
      /\ DOMAIN events' = 1..Len(events') /\ Len(events') \in Nat
  BY DEF TypeOK, StoreTypeOK
<1>2. \A i \in DOMAIN events' : i <= n => i \in DOMAIN events /\ events'[i] = events[i]
  BY <1>1 DEF Grows
<1>3. \A i : i <= n => (i \in DiffsOf(x, k)' <=> i \in DiffsOf(x, k))
  BY <1>2 DEF DiffsOf, Grows
<1>4. SUFFICES ASSUME NEW i \in DiffsOf(x, k)', i <= n,
                      \A j \in DiffsOf(x, k)' : j <= n => j <= i
               PROVE  events'[i].to = None
  BY DEF AbsentAfter
<1>5. i \in DiffsOf(x, k) /\ \A j \in DiffsOf(x, k) : j <= n => j <= i
  BY <1>3, <1>4
<1>6. events'[i] = events[i]
  BY <1>2, <1>4 DEF DiffsOf
<1> QED BY <1>4, <1>5, <1>6 DEF AbsentAfter

\* A key the storage holds nothing for is absent after the rows there are.
LEMMA EmptyIsAbsent ==
  ASSUME TypeOK, ReplayMatchesItems, NEW x \in Exts, NEW k \in Keys, items[x][k] = None
  PROVE  AbsentAfter(Len(events), x, k)
<1>1. DOMAIN events = 1..Len(events) /\ Len(events) \in Nat
  BY DEF TypeOK, StoreTypeOK
<1>2. SUFFICES ASSUME NEW i \in DiffsOf(x, k), \A j \in DiffsOf(x, k) : j <= Len(events) => j <= i
               PROVE  events[i].to = None
  BY DEF AbsentAfter
<1>3. PICK l \in DiffsOf(x, k) : (\A j \in DiffsOf(x, k) : j <= l) /\ items[x][k] = events[l].to
  BY DEF ReplayMatchesItems
<1>4. i <= l /\ l <= i /\ i \in Nat /\ l \in Nat
  BY <1>1, <1>2, <1>3 DEF DiffsOf
<1> QED BY <1>3, <1>4

\* The same of the rows there are after a step.
LEMMA EmptyIsAbsentAfter ==
  ASSUME TypeOK', ReplayMatchesItems', NEW x \in Exts, NEW k \in Keys, items'[x][k] = None
  PROVE  AbsentAfter(Len(events), x, k)'
<1>1. DOMAIN events' = 1..Len(events') /\ Len(events') \in Nat
  BY DEF TypeOK, StoreTypeOK
<1>2. SUFFICES ASSUME NEW i \in DiffsOf(x, k)', \A j \in DiffsOf(x, k)' : j <= Len(events') => j <= i
               PROVE  events'[i].to = None
  BY DEF AbsentAfter
<1>3. PICK l \in DiffsOf(x, k)' : (\A j \in DiffsOf(x, k)' : j <= l) /\ items'[x][k] = events'[l].to
  BY DEF ReplayMatchesItems
<1>4. i <= l /\ l <= i /\ i \in Nat /\ l \in Nat
  BY <1>1, <1>2, <1>3 DEF DiffsOf
<1> QED BY <1>3, <1>4

\* The job a loop goes on with keeps what it has brought about.
LEMMA WhatWasDoneStays ==
  ASSUME TypeOK, TypeOK', Grows, NEW c \in Conns, job[c].from <= Len(events),
         job'[c].from = job[c].from, job'[c].ext = job[c].ext, job'[c].cmd = job[c].cmd
  PROVE  /\ \A k : KeyWasAbsent(c, k) => KeyWasAbsent(c, k)'
         /\ AreaWasEmpty(c) => AreaWasEmpty(c)'
         /\ MessageIsLogged(c) => MessageIsLogged(c)'
<1>1. /\ job[c].from \in Nat /\ Len(events) \in Nat /\ Len(events') \in Nat
      /\ Len(events) <= Len(events')
  BY DEF TypeOK, StoreTypeOK, Job, Grows
<1>2. \A n \in Moments(c) : n \in 0..Len(events) /\ n \in job'[c].from..Len(events')
  BY <1>1 DEF Moments
<1> DEFINE x == NormalizeExt(job[c].ext)
<1>3. NormalizeExt(job'[c].ext) = x
  OBVIOUS
<1>4. ASSUME NEW k, KeyWasAbsent(c, k) PROVE KeyWasAbsent(c, k)'
  <2>1. PICK n \in Moments(c) : AbsentAfter(n, x, k)
    BY <1>4 DEF KeyWasAbsent
  <2>2. AbsentAfter(n, x, k)'
    BY <1>2, <2>1, AbsenceStays
  <2> QED BY <1>2, <1>3, <2>2 DEF KeyWasAbsent, Moments
<1>5. ASSUME AreaWasEmpty(c) PROVE AreaWasEmpty(c)'
  <2>1. PICK n \in Moments(c) : \A k \in Keys : AbsentAfter(n, x, k)
    BY <1>5 DEF AreaWasEmpty
  <2>2. \A k \in Keys : AbsentAfter(n, x, k)'
    BY <1>2, <2>1, AbsenceStays
  <2> QED BY <1>2, <1>3, <2>2 DEF AreaWasEmpty, Moments
<1>6. MessageIsLogged(c) => MessageIsLogged(c)'
  BY DEF MessageIsLogged, Grows
<1> QED BY <1>4, <1>5, <1>6

LEMMA EmptiesKept ==
  ASSUME TypeOK, TypeOK', Attached, ReplayMatchesItems, ReplayMatchesItems', [Next]_vars,
         NEW c \in Conns, Handles(c), Handles(c)', Empties(c)
  PROVE  Empties(c)'
<1> USE DEF storeVars, connVars
<1>1. Grows
  BY LogGrows
<1>0. /\ job[c] \in Job /\ job[c].from \in Nat /\ job[c].from <= Len(events)
      /\ job'[c] \in Job /\ job'[c].from \in Nat /\ job'[c].from <= Len(events')
      /\ Len(events) \in Nat /\ Len(events') \in Nat
  BY DEF TypeOK, StoreTypeOK, Job, Handles
<1>k. ASSUME job'[c].from = job[c].from, job'[c].ext = job[c].ext, job'[c].cmd = job[c].cmd
      PROVE  /\ \A k : KeyWasAbsent(c, k) => KeyWasAbsent(c, k)'
             /\ AreaWasEmpty(c) => AreaWasEmpty(c)'
             /\ MessageIsLogged(c) => MessageIsLogged(c)'
  BY <1>0, <1>1, <1>k, WhatWasDoneStays
<1>2. CASE ~Acts(c)
  <2>1. job'[c] = job[c] /\ loop'[c] = loop[c]
    BY <1>2, NobodyElse
  <2> QED BY <1>k, <2>1 DEF Empties
\* The command does nothing, is over, or is not at the keys yet.
<1>3. ASSUME loop'[c] \notin {"mutate", "fan", "reply"} PROVE Empties(c)'
  BY <1>3 DEF Empties
<1>4. CASE Register(c) \/ (\E m \in Commands : Receive(c, m))
  <2>1. CASE Register(c)
    BY <1>3, <2>1 DEF Register, TypeOK
  <2>2. ASSUME NEW m \in Commands, Receive(c, m) PROVE Empties(c)'
    BY <1>3, <2>2 DEF Receive, Goto, TypeOK
  <2> QED BY <1>4, <2>1, <2>2
<1>5. CASE Looping(c)
  <2>1. CASE ReadFails(c) \/ WriteReply(c) \/ WriteReplyFails(c) \/ LoopUnregisters(c)
             \/ LoopCloses(c) \/ LookupExtension(c)
    BY <1>3, <2>1 DEF ReadFails, WriteReply, WriteReplyFails, LoopUnregisters, LoopCloses,
                      LookupExtension, Goto, TypeOK
  <2>2. ASSUME job'[c].reply.ok = FALSE \/ job'[c].cmd.do \notin {"remove", "clear", "send"}
        PROVE Empties(c)'
    BY <2>2 DEF Empties
  <2>3. CASE CheckSession(c)
    <3>1. /\ job'[c].cmd = job[c].cmd
          /\ job[c].cmd.do = "remove" => job'[c].todo = job[c].cmd.keys
          /\ job[c].cmd.do = "clear" => job'[c].todo = Keys
      BY <2>3 DEF CheckSession, TypeOK, Job
    <3>2. /\ job[c].cmd.do \in {"remove", "clear"} => loop'[c] \in {"unregister", "mutate"}
          /\ job[c].cmd.do = "send" => loop'[c] \in {"unregister", "send"}
      BY <2>3 DEF CheckSession, Goto, TypeOK
    <3>3. CASE job[c].cmd.do = "clear" /\ loop'[c] = "mutate"
      <4>1. Keys = {} => AreaWasEmpty(c)'
        BY <1>0 DEF AreaWasEmpty, Moments
      <4> QED BY <3>1, <3>3, <4>1 DEF Empties
    <3>4. CASE job[c].cmd.do = "remove" /\ loop'[c] = "mutate"
      BY <3>1, <3>4 DEF Empties
    <3> QED BY <1>3, <2>2, <3>1, <3>2, <3>3, <3>4
  <2>4. CASE OperationFails(c)
    <3>1. loop'[c] = "unregister" \/ job'[c].reply.ok = FALSE
      BY <2>4 DEF OperationFails, Failed, Goto, TypeOK, Job, Reply
    <3> QED BY <1>3, <2>2, <3>1
  <2>5. CASE FanReturns(c)
    <3>1. CASE fan[c].err
      <4>1. loop'[c] = "unregister" \/ job'[c].reply.ok = FALSE
        BY <2>5, <3>1 DEF FanReturns, Failed, Goto, TypeOK, Job, Reply
      <4> QED BY <1>3, <2>2, <4>1
    <3>2. CASE ~fan[c].err
      <4>1. job'[c] = job[c] /\ loop[c] = "fan" /\ loop'[c] = "mutate"
        BY <2>5, <3>2 DEF FanReturns, Goto, TypeOK
      <4> QED BY <1>k, <4>1 DEF Empties
    <3> QED BY <3>1, <3>2
  <2>6. CASE QueryEvents(c) \/ QueryStorage(c)
    <3>1. job'[c].cmd = job[c].cmd
      BY <2>6 DEF QueryEvents, QueryStorage, TypeOK, Job
    <3>2. job[c].cmd.do \in {"history", "snapshot"}
      BY <2>6 DEF QueryEvents, QueryStorage, Handles
    <3> QED BY <2>2, <3>1, <3>2
  <2>7. CASE MutationsDone(c)
    <3>1. loop[c] = "mutate" /\ job[c].todo = {}
      BY <2>7 DEF MutationsDone
    <3>2. CASE job[c].cmd.name = "chrome.api.call"
      <4>1. job'[c] = job[c] /\ loop'[c] = "reply"
        BY <2>7, <3>2 DEF MutationsDone, Goto, TypeOK
      <4> QED BY <1>k, <3>1, <4>1 DEF Empties
    <3>3. CASE job[c].cmd.name # "chrome.api.call"
      BY <1>3, <2>7, <3>3 DEF MutationsDone, Goto, TypeOK
    <3> QED BY <3>2, <3>3
  <2>8. CASE SendRuntimeMessage(c)
    <3>1. /\ job'[c] = job[c] /\ job[c].cmd.do = "send"
          /\ events' = Append(events, PlainEvent("chrome.api.event", NoExt, 0))
      BY <2>8 DEF SendRuntimeMessage, AppendEvent, Handles
    <3>2. PlainEvent("chrome.api.event", NoExt, 0) \in Event
      BY DaemonAssumption, StoreAssumption DEF PlainEvent, Event, NormalizeExt, EventNames
    <3>3. Len(events) + 1 \in DOMAIN events' /\ events'[Len(events) + 1].name = "chrome.api.event"
      BY <3>1, <3>2, AppendKeepsRows DEF PlainEvent
    <3>4. MessageIsLogged(c)'
      BY <1>0, <3>1, <3>3 DEF MessageIsLogged
    <3> QED BY <3>1, <3>4 DEF Empties
  <2>9. CASE MutateNothing(c)
    <3> PICK x : x = NormalizeExt(job[c].ext)
      OBVIOUS
    <3>1. /\ job'[c].cmd = job[c].cmd /\ job'[c].from = job[c].from /\ job'[c].ext = job[c].ext
          /\ job'[c].reply = job[c].reply /\ loop[c] = "mutate" /\ loop'[c] = "mutate"
          /\ items' = items /\ events' = events
      BY <2>9 DEF MutateNothing, TypeOK, Job
    <3>2. x \in Exts /\ Len(events') \in Moments(c)' /\ job[c].todo \subseteq Keys
      BY <1>0, <3>1, NormalizeExtType DEF Moments, Job
    <3>3. ASSUME NEW k \in Keys, k \notin Held(job[c].ext) PROVE AbsentAfter(Len(events), x, k)'
      <4>1. AbsentAfter(Len(events), x, k)
        BY <3>2, <3>3, EmptyIsAbsent DEF Held
      <4> QED BY <3>1, <4>1 DEF AbsentAfter, DiffsOf
    <3>4. NormalizeExt(job'[c].ext) = x
      BY <3>1
    <3>5. CASE job[c].cmd.do = "remove"
      <4>1. PICK k \in job[c].todo \ Held(job[c].ext) : job' = [job EXCEPT ![c].todo = @ \ {k}]
        BY <2>9, <3>5 DEF MutateNothing
      <4>2. job'[c].todo = job[c].todo \ {k}
        BY <4>1 DEF TypeOK, Job
      <4>3. KeyWasAbsent(c, k)'
        BY <3>2, <3>3, <3>4, <4>1 DEF KeyWasAbsent
      <4>4. ASSUME job[c].reply.ok, NEW l \in job[c].cmd.keys \ (job[c].todo \ {k})
            PROVE  KeyWasAbsent(c, l)'
        BY <1>k, <3>1, <3>5, <4>3, <4>4 DEF Empties
      <4> QED BY <3>1, <3>5, <4>2, <4>4 DEF Empties
    <3>6. CASE job[c].cmd.do = "clear"
      <4>1. Held(job[c].ext) = {}
        BY <2>9, <3>6 DEF MutateNothing
      <4>2. AreaWasEmpty(c)'
        BY <3>2, <3>3, <3>4, <4>1 DEF AreaWasEmpty
      <4> QED BY <3>1, <3>6, <4>2 DEF Empties
    <3>7. job[c].cmd.do \in {"remove", "clear"}
      BY <2>9 DEF MutateNothing
    <3> QED BY <3>5, <3>6, <3>7
  <2>10. CASE Mutate(c)
    <3> PICK x : x = NormalizeExt(job[c].ext)
      OBVIOUS
    <3>1. PICK k \in job[c].todo :
            /\ CASE job[c].cmd.do = "set"    -> SetStorageItem(job[c].ext, k, job[c].cmd.to)
                 [] job[c].cmd.do = "remove" -> RemoveStorageItem(job[c].ext, k)
                 [] OTHER                    -> ClearStorageArea(job[c].ext)
            /\ job' = [job EXCEPT ![c].todo = IF job[c].cmd.do = "clear" THEN {} ELSE @ \ {k}]
      BY <2>10 DEF Mutate
    <3>2. /\ job'[c].cmd = job[c].cmd /\ job'[c].from = job[c].from /\ job'[c].ext = job[c].ext
          /\ job'[c].reply = job[c].reply
          /\ job[c].cmd.do = "remove" => job'[c].todo = job[c].todo \ {k}
      BY <3>1 DEF TypeOK, Job
    <3>3. loop[c] = "mutate" /\ loop'[c] = "fan"
      BY <2>10 DEF Mutate, Goto, TypeOK
    <3>4. x \in Exts /\ Len(events') \in Moments(c)' /\ job[c].todo \subseteq Keys
      BY <1>0, <3>2, NormalizeExtType DEF Moments, Job
    <3>5. ASSUME NEW l \in Keys, items'[x][l] = None
          PROVE  AbsentAfter(Len(events), x, l)'
      BY <3>4, <3>5, EmptyIsAbsentAfter
    <3>6. NormalizeExt(job'[c].ext) = x
      BY <3>2
    <3>7. CASE job[c].cmd.do = "remove"
      <4>1. items' = [items EXCEPT ![x] = [l \in Keys |-> IF l \in {k} THEN None ELSE @[l]]]
        BY <3>1, <3>7 DEF RemoveStorageItem, CommitDiff
      <4>2. items'[x][k] = None
        BY <3>4, <4>1 DEF TypeOK, StoreTypeOK
      <4>3. KeyWasAbsent(c, k)'
        BY <3>4, <3>5, <3>6, <4>2 DEF KeyWasAbsent
      <4>4. ASSUME job[c].reply.ok, NEW l \in job[c].cmd.keys \ (job[c].todo \ {k})
            PROVE  KeyWasAbsent(c, l)'
        BY <1>k, <3>2, <3>3, <3>7, <4>3, <4>4 DEF Empties
      <4> QED BY <3>2, <3>3, <3>7, <4>4 DEF Empties
    <3>8. CASE job[c].cmd.do = "clear"
      <4>1. items' = [items EXCEPT ![x] = [l \in Keys |-> IF l \in Held(job[c].ext) THEN None ELSE @[l]]]
        BY <3>1, <3>8 DEF ClearStorageArea, CommitDiff
      <4>2. \A l \in Keys : items'[x][l] = None
        BY <3>4, <4>1 DEF TypeOK, StoreTypeOK, Held
      <4>3. AreaWasEmpty(c)'
        BY <3>4, <3>5, <3>6, <4>2 DEF AreaWasEmpty
      <4> QED BY <3>2, <3>3, <3>8, <4>3 DEF Empties
    <3>9. CASE job[c].cmd.do \notin {"remove", "clear"}
      BY <1>k, <3>2, <3>3, <3>9 DEF Empties
    <3> QED BY <3>7, <3>8, <3>9
  <2> QED BY <1>5, <2>1, <2>3, <2>4, <2>5, <2>6, <2>7, <2>8, <2>9, <2>10 DEF Looping
<1> QED BY <1>2, <1>4, <1>5 DEF Acts

-----------------------------------------------------------------------------
(* The pages of the timeline.                                                *)

\* A page ends with the newest row there is.
LEMMA PageIsSuffix ==
  ASSUME TypeOK, NEW x \in Exts \cup {NoExt}, NEW h \in Recent(MaxLimit, 0, x).ids,
         NEW i \in DOMAIN events, x \in {NoExt, events[i].ext}, h <= i
  PROVE  i \in Recent(MaxLimit, 0, x).ids
<1> DEFINE n == BoundLimit(MaxLimit)
           M == Matching(0, x)
<1>1. M \in SUBSET Nat /\ IsFiniteSet(M)
  BY MatchingIsFinite DEF TypeOK
<1>2. n \in Nat /\ Recent(MaxLimit, 0, x).ids = Newest(M, n)
  BY StoreAssumption, PageIsNewest DEF TypeOK
<1>3. i \in M
  BY DEF Matching
<1> HIDE DEF M, n
<1> QED BY <1>1, <1>2, <1>3, NewestIsSuffix

LEMMA HoldsPagesKept ==
  ASSUME TypeOK, TypeOK', Attached, SinceInLog, [Next]_vars, NEW c \in Conns,
         Handles(c), HoldsPages(c)
  PROVE  HoldsPages(c)'
<1> USE DEF storeVars, connVars
<1>1. /\ since[c] \in Nat /\ since[c] <= Len(events)
      /\ DOMAIN events = 1..Len(events) /\ Len(events) \in Nat
      /\ DOMAIN events' = 1..Len(events') /\ Len(events') \in Nat
      /\ \A i \in DOMAIN events : events'[i] = events[i]
      /\ Len(events) <= Len(events')
  <2>1. Grows
    BY LogGrows
  <2>2. events \in Seq(Event) /\ events' \in Seq(Event)
    BY DEF TypeOK, StoreTypeOK
  <2>3. since[c] \in Nat /\ since[c] <= Len(events)
    BY DEF TypeOK, SinceInLog
  <2> QED BY <2>1, <2>2, <2>3 DEF Grows
\* Pages only change by what a read loop adds to them.
<1>2. ASSUME NEW ids, Complete(c, ids), since'[c] = since[c] PROVE Complete(c, ids)'
  BY <1>1, <1>2 DEF Complete
<1>3. ASSUME handler'[c] # "done" => handler[c] # "done",
             c \in sessions' => c \in sessions, since'[c] = since[c],
             seen'[c].hist = seen[c].hist,
             job'[c].reply.ids \in {job[c].reply.ids, {}}
      PROVE  HoldsPages(c)'
  <2>1. CASE c \in sessions'
    <3>1. Complete(c, {})'
      BY DEF Complete
    <3> QED BY <1>2, <1>3, <2>1, <3>1 DEF HoldsPages, Complete
  <2>2. CASE c \notin sessions'
    BY <1>3, <2>2 DEF HoldsPages
  <2> QED BY <2>1, <2>2
<1>4. CASE ~Acts(c)
  BY <1>3, <1>4, NobodyElse
<1>5. CASE Register(c)
  <2>1. handler[c] # "done" /\ handler'[c] = "done" /\ job' = job /\ seen' = seen
    BY <1>5 DEF Register, TypeOK, loopVars
  <2>2. seen[c].hist = {} /\ job[c].reply.ids = {}
    BY <2>1 DEF HoldsPages, Handles
  <2>3. Complete(c, {})'
    BY DEF Complete
  <2> QED BY <2>1, <2>2, <2>3 DEF HoldsPages, Complete
<1>6. ASSUME NEW m \in Commands, Receive(c, m) PROVE HoldsPages(c)'
  <2>1. job'[c].reply.ids = {} /\ UNCHANGED <<handler, sessions, since, seen>>
    BY <1>6 DEF Receive, Goto, Idle, NoReply, TypeOK
  <2> QED BY <1>3, <2>1
<1>7. CASE Looping(c)
  <2>0. Idle.reply.ids = {}
    BY DEF Idle, NoReply
  <2>1. CASE QueryEvents(c)
    <3> DEFINE ids == Recent(MaxLimit, 0, job[c].ext).ids
    <3>1. job'[c].reply.ids = ids /\ UNCHANGED <<events, handler, sessions, since, seen>>
      BY <2>1 DEF QueryEvents, TypeOK, Job, Reply
    <3>2. c \in sessions => job[c].ext = Ext(c)
      BY <2>1 DEF QueryEvents, Handles, Busy
    <3>3. Ext(c) \in Exts \cup {NoExt}
      BY ExtType
    <3>4. c \in sessions => Complete(c, ids)
      BY <3>2, <3>3, PageIsSuffix DEF Complete
    <3> HIDE DEF ids
    <3> QED BY <3>1, <3>4 DEF HoldsPages, Complete
  <2>2. CASE WriteReply(c)
    <3>1. seen'[c].hist \in {seen[c].hist, seen[c].hist \cup job[c].reply.ids}
      <4>1. seen[c] \in Seen
        BY DEF TypeOK
      <4>2. Answered(c).hist \in {seen[c].hist, seen[c].hist \cup job[c].reply.ids}
        BY <4>1 DEF Answered, Seen
      <4> QED BY <2>2, <4>2 DEF WriteReply, TypeOK
    <3>2. /\ UNCHANGED <<events, handler, sessions, since>> /\ c \in sessions
          /\ job'[c] = Idle /\ handler[c] = "done"
      BY <2>2 DEF WriteReply, TypeOK, Attached
    <3>3. Complete(c, seen[c].hist) /\ Complete(c, job[c].reply.ids)
      BY <3>2 DEF HoldsPages
    <3>4. Complete(c, seen[c].hist \cup job[c].reply.ids)
      BY <3>3 DEF Complete
    <3> QED BY <2>0, <3>1, <3>2, <3>3, <3>4 DEF HoldsPages, Complete
  <2>3. CASE ~QueryEvents(c) /\ ~WriteReply(c)
    <3>1. UNCHANGED <<handler, since, seen>> /\ sessions' \subseteq sessions
      BY <1>7, <2>3
         DEF Looping, ReadFails, LookupExtension, CheckSession, OperationFails,
             QueryStorage, Mutate, MutateNothing, SendRuntimeMessage, FanReturns,
             MutationsDone, WriteReplyFails, LoopUnregisters, LoopCloses
    <3>2. job'[c].reply.ids = job[c].reply.ids \/ job'[c] = Idle
      <4>1. CASE ReadFails(c) \/ LookupExtension(c)
        BY <4>1 DEF ReadFails, LookupExtension, TypeOK, Job
      <4>7. CASE CheckSession(c)
        BY <4>7 DEF CheckSession, TypeOK, Job
      <4>2. CASE QueryStorage(c)
        BY <4>2 DEF QueryStorage, TypeOK, Job, Reply
      <4>3. CASE Mutate(c)
        BY <4>3 DEF Mutate, TypeOK, Job
      <4>8. CASE MutateNothing(c)
        <5>1. \E rest : job' = [job EXCEPT ![c].todo = rest]
          BY <4>8 DEF MutateNothing
        <5>2. job[c] \in Job /\ job \in [Conns -> Job]
          BY DEF TypeOK
        <5> QED BY <5>1, <5>2 DEF Job
      <4>9. CASE SendRuntimeMessage(c)
        BY <4>9 DEF SendRuntimeMessage, TypeOK, Job
      <4>4. CASE FanReturns(c)
        <5>1. \/ UNCHANGED job
              \/ job' = [job EXCEPT ![c].reply.ok = FALSE]
          BY <4>4 DEF FanReturns, Failed
        <5>2. job[c].reply \in Reply /\ job[c] \in Job /\ job \in [Conns -> Job]
          BY DEF TypeOK, Job
        <5> QED BY <5>1, <5>2 DEF Job, Reply
      <4>10. CASE MutationsDone(c)
        BY <4>10 DEF MutationsDone, TypeOK, Job
      <4>11. CASE WriteReplyFails(c)
        BY <4>11 DEF WriteReplyFails, TypeOK, Job
      <4>5. CASE LoopUnregisters(c) \/ LoopCloses(c)
        BY <4>5 DEF LoopUnregisters, LoopCloses, TypeOK
      <4>6. CASE OperationFails(c)
        BY <4>6 DEF OperationFails, Failed, TypeOK, Job, Reply
      <4> QED BY <1>7, <2>3, <4>1, <4>2, <4>3, <4>4, <4>5, <4>6, <4>7, <4>8, <4>9,
                 <4>10, <4>11 DEF Looping
    <3> QED BY <1>3, <2>0, <3>1, <3>2
  <2> QED BY <2>1, <2>2, <2>3
<1> QED BY <1>4, <1>5, <1>6, <1>7 DEF Acts

-----------------------------------------------------------------------------
(* Snapshots of the storage.                                                 *)

\* What the first n rows say does not change.
LEMMA AsOfStays ==
  ASSUME TypeOK, TypeOK', Grows, NEW n \in Nat, n <= Len(events), NEW k, NEW v, AsOf(n, k, v)
  PROVE  AsOf(n, k, v)'
<1>1. DOMAIN events = 1..Len(events) /\ Len(events) \in Nat
      /\ DOMAIN events' = 1..Len(events') /\ Len(events') \in Nat
  BY DEF TypeOK, StoreTypeOK
<1>2. \A i \in DOMAIN events' : i <= n => i \in DOMAIN events
  BY <1>1
<1>3. \A i \in DOMAIN events : i \in DOMAIN events' /\ (Touches(i, k)' <=> Touches(i, k))
                               /\ events'[i] = events[i]
  BY DEF Touches, Grows
<1> QED BY <1>2, <1>3 DEF AsOf

\* It is one value.
LEMMA AsOfIsOne ==
  ASSUME TypeOK, NEW n \in Nat, NEW k, NEW v, NEW w, AsOf(n, k, v), AsOf(n, k, w)
  PROVE  v = w
<1>1. DOMAIN events \subseteq Nat
  BY DEF TypeOK, StoreTypeOK
<1>2. \A i, j \in Nat : i <= j /\ j <= i => i = j
  OBVIOUS
<1> QED BY <1>1, <1>2 DEF AsOf

LEMMA ViewStays ==
  ASSUME TypeOK, TypeOK', Grows, NEW c \in Conns, NEW view, NEW n \in Nat, n <= Len(events),
         ShowsLog(c, view, n)
  PROVE  ShowsLog(c, view, n)'
<1> SUFFICES ASSUME NEW k \in Keys, OwnKey(c, k)' PROVE AsOf(n, k, view[k])'
  BY DEF ShowsLog
<1>1. OwnKey(c, k)
  BY DEF OwnKey, Grows
<1> QED BY <1>1, AsOfStays DEF ShowsLog

\* What queries are answered from is what the log says.
LEMMA StorageShowsLog ==
  ASSUME TypeOK, ReplayMatchesItems, NEW c \in Conns
  PROVE  ShowsLog(c, items[NormalizeExt(Ext(c))], Len(events))
<1> SUFFICES ASSUME NEW k \in Keys, OwnKey(c, k)
             PROVE  AsOf(Len(events), k, items[NormalizeExt(Ext(c))][k])
  BY DEF ShowsLog
<1> DEFINE x == NormalizeExt(Ext(c))
<1>1. x \in Exts
  BY ExtType, NormalizeExtType
<1>2. \A i \in DOMAIN events : i <= Len(events)
  BY DEF TypeOK, StoreTypeOK
<1>3. \A i \in DOMAIN events : i \in DiffsOf(x, k) <=> Touches(i, k)
  BY DEF DiffsOf, Touches, OwnKey
<1>4. DiffsOf(x, k) \subseteq DOMAIN events
  BY DEF DiffsOf
<1>5. \/ DiffsOf(x, k) = {} /\ items[x][k] = None
      \/ \E i \in DiffsOf(x, k) : /\ \A j \in DiffsOf(x, k) : j <= i
                                  /\ items[x][k] = events[i].to
  BY <1>1 DEF ReplayMatchesItems
<1> HIDE DEF x
<1>6. AsOf(Len(events), k, items[x][k])
  BY <1>2, <1>3, <1>4, <1>5 DEF AsOf
<1> QED BY <1>6 DEF x

LEMMA HoldsSnapshotKept ==
  ASSUME TypeOK, TypeOK', Attached, SinceInLog, ReplayMatchesItems, [Next]_vars, NEW c \in Conns,
         Handles(c), HoldsSnapshot(c)
  PROVE  HoldsSnapshot(c)'
<1> USE DEF storeVars, connVars
<1>1. /\ Grows /\ Len(events) \in Nat /\ Len(events') \in Nat /\ Len(events) <= Len(events')
      /\ job[c] \in Job /\ job[c].reply.upto \in Nat /\ since[c] \in Nat /\ since[c] <= Len(events)
  <2>1. events \in Seq(Event) /\ events' \in Seq(Event)
    BY DEF TypeOK, StoreTypeOK
  <2>2. job[c] \in Job /\ job[c].reply.upto \in Nat /\ since[c] \in Nat
    BY DEF TypeOK, Job, Reply
  <2> QED BY <2>1, <2>2, LogGrows DEF Grows, SinceInLog
<1>2. CASE ~Acts(c)
  <2>1. /\ job'[c] = job[c] /\ loop'[c] = loop[c] /\ since'[c] = since[c]
        /\ c \in sessions' => c \in sessions
    BY <1>2, NobodyElse
  <2>2. job[c].reply.upto <= Len(events)
    BY DEF HoldsSnapshot
  <2> DEFINE r == job[c].reply
  <2>3. ShowsLog(c, r.view, r.upto) => ShowsLog(c, r.view, r.upto)'
    <3>1. job[c].reply = r
      OBVIOUS
    <3> QED BY <1>1, <2>1, <2>2, ViewStays DEF ShowsLog
  <2> QED BY <1>1, <2>1, <2>2, <2>3 DEF HoldsSnapshot, ShowsLog
\* No snapshot is about to be answered.
<1>3. ASSUME loop'[c] # "reply" \/ job'[c].cmd.name # "query.storage",
             job'[c].reply.upto \in {job[c].reply.upto, 0}
      PROVE  HoldsSnapshot(c)'
  BY <1>1, <1>3 DEF HoldsSnapshot
<1>0. Idle.reply.upto = 0
  BY DEF Idle, NoReply
<1>4. CASE Register(c)
  BY <1>3, <1>4 DEF Register, TypeOK
<1>5. ASSUME NEW m \in Commands, Receive(c, m) PROVE HoldsSnapshot(c)'
  <2>1. loop'[c] = "lookup" /\ job'[c].reply.upto = 0
    BY <1>5 DEF Receive, Goto, Idle, NoReply, TypeOK
  <2> QED BY <1>3, <2>1
<1>6. CASE Looping(c)
  <2>1. CASE QueryStorage(c)
    <3> DEFINE v == items[NormalizeExt(job[c].ext)]
    <3>a. job[c].reply \in Reply /\ job[c] \in Job /\ job \in [Conns -> Job]
      BY DEF TypeOK, Job
    <3>b. job'[c].reply.view = v /\ job'[c].reply.upto = Len(events)
      BY <2>1, <3>a DEF QueryStorage, Job, Reply
    <3>1. /\ job'[c].reply.view = v /\ job'[c].reply.upto = Len(events)
          /\ UNCHANGED <<events, items, sessions, since>> /\ loop[c] = "snapshot"
      BY <2>1, <3>b DEF QueryStorage
    <3>2. c \in sessions => ShowsLog(c, v, Len(events))
      BY <3>1, StorageShowsLog DEF Handles, Busy
    <3> HIDE DEF v
    <3> QED BY <1>1, <3>1, <3>2 DEF HoldsSnapshot, ShowsLog, OwnKey, AsOf, Touches
  <2>2. CASE CheckSession(c)
    <3>1. job'[c].cmd = job[c].cmd /\ job'[c].reply = job[c].reply
      BY <2>2 DEF CheckSession, TypeOK, Job
    <3>2. loop'[c] = "reply" => job[c].cmd.do \in {"local", "reply"}
      BY <2>2 DEF CheckSession, Goto, TypeOK
    <3>3. job[c].cmd.name = "query.storage" => job[c].cmd.do = "snapshot"
      <4>1. job[c].cmd \in Commands
        BY <2>2 DEF CheckSession, Handles, Busy
      <4> QED BY <4>1, DaemonAssumption DEF Does
    <3> QED BY <1>3, <3>1, <3>2, <3>3
  <2>3. CASE QueryEvents(c)
    <3>1. job'[c].cmd = job[c].cmd /\ job'[c].reply.upto = job[c].reply.upto
      BY <2>3 DEF QueryEvents, TypeOK, Job, Reply
    <3>2. job[c].cmd \in Commands /\ job[c].cmd.do = "history"
      BY <2>3 DEF QueryEvents, Handles, Busy
    <3>3. job[c].cmd.name # "query.storage"
      BY <3>2, DaemonAssumption DEF Does
    <3> QED BY <1>3, <3>1, <3>3
  <2>4. CASE OperationFails(c) \/ FanReturns(c)
    <3>1. job'[c].cmd = job[c].cmd /\ job'[c].reply.upto = job[c].reply.upto
      <4>1. CASE Failed(c)
        <5>1. job'[c].cmd = job[c].cmd
          BY <4>1 DEF Failed, TypeOK, Job
        <5>2. job'[c].reply.upto = job[c].reply.upto
          <6>1. CASE job[c].cmd.name = "chrome.api.call"
            <7>1. job' = [job EXCEPT ![c].reply.ok = FALSE]
              BY <4>1, <6>1 DEF Failed
            <7> QED BY <7>1, <1>1 DEF TypeOK, Job, Reply
          <6>2. CASE job[c].cmd.name # "chrome.api.call"
            BY <4>1, <6>2 DEF Failed
          <6> QED BY <6>1, <6>2
        <5> QED BY <5>1, <5>2
      <4>2. CASE UNCHANGED job
        BY <4>2
      <4> QED BY <2>4, <4>1, <4>2 DEF OperationFails, FanReturns
    <3>2. loop'[c] = "reply" => job[c].cmd.name = "chrome.api.call"
      BY <2>4 DEF OperationFails, FanReturns, Failed, Goto, TypeOK
    <3> QED BY <1>3, <3>1, <3>2
  <2>5. CASE MutationsDone(c)
    <3>1. CASE job[c].cmd.name = "chrome.api.call"
      BY <1>3, <2>5, <3>1 DEF MutationsDone, TypeOK
    <3>2. CASE job[c].cmd.name # "chrome.api.call"
      BY <1>0, <1>3, <2>5, <3>2 DEF MutationsDone, Goto, TypeOK
    <3> QED BY <3>1, <3>2
  <2>6. CASE ReadFails(c) \/ LookupExtension(c) \/ WriteReplyFails(c) \/ LoopCloses(c)
    <3>1. job'[c].reply = job[c].reply
      BY <2>6 DEF ReadFails, LookupExtension, WriteReplyFails, LoopCloses, TypeOK, Job
    <3>2. loop'[c] # "reply"
      BY <2>6 DEF ReadFails, LookupExtension, WriteReplyFails, LoopCloses, Goto, TypeOK
    <3> QED BY <1>3, <3>1, <3>2
  <2>7. CASE Mutate(c) \/ MutateNothing(c) \/ SendRuntimeMessage(c)
    <3>1. job'[c].reply = job[c].reply
      BY <2>7 DEF Mutate, MutateNothing, SendRuntimeMessage, TypeOK, Job
    <3>2. loop'[c] # "reply"
      BY <2>7 DEF Mutate, MutateNothing, SendRuntimeMessage, Goto, TypeOK
    <3> QED BY <1>3, <3>1, <3>2
  <2>8. CASE WriteReply(c) \/ LoopUnregisters(c)
    BY <1>0, <1>3, <2>8 DEF WriteReply, LoopUnregisters, Goto, TypeOK
  <2> QED BY <1>6, <2>1, <2>2, <2>3, <2>4, <2>5, <2>6, <2>7, <2>8 DEF Looping
<1> QED BY <1>2, <1>4, <1>5, <1>6 DEF Acts

-----------------------------------------------------------------------------
(* A client's view of the storage.                                           *)

\* What a client holds changes by what is written to it.
LEMMA SeenKept ==
  ASSUME TypeOK, [Next]_vars, NEW d \in Conns,
         \A t \in Threads : ~FanWrite(t, d), ~WriteReply(d)
  PROVE  seen'[d] = seen[d]
<1>1. ASSUME NEW c \in Conns,
             Connect(c) \/ Leave(c) \/ Handshake(c) \/ Pinging(c) \/ CloseOne(c)
               \/ \E m \in Commands : Receive(c, m)
      PROVE  seen' = seen
  BY <1>1 DEF Connect, Leave, Handshake, RejectHello, AcceptHello, Acknowledge, Register, Receive,
              Pinging, PingFails, PingUnregisters, PingStops, CloseOne
<1>2. ASSUME NEW c \in Conns, Looping(c) PROVE seen'[d] = seen[d]
  <2>1. CASE WriteReply(c)
    <3>1. c # d
      BY <2>1
    <3> QED BY <2>1, <3>1 DEF WriteReply, TypeOK
  <2>2. CASE ~WriteReply(c)
    BY <1>2, <2>2
       DEF Looping, ReadFails, LookupExtension, CheckSession, OperationFails, QueryEvents,
           QueryStorage, Mutate, MutateNothing, SendRuntimeMessage, FanReturns,
           MutationsDone, WriteReplyFails, LoopUnregisters, LoopCloses
  <2> QED BY <2>1, <2>2
<1>3. ASSUME NEW t \in Threads, Fanning(t) PROVE seen'[d] = seen[d]
  <2>1. ASSUME NEW b \in Conns, FanWrite(t, b) PROVE seen'[d] = seen[d]
    <3>1. b # d
      BY <2>1
    <3> QED BY <2>1, <3>1 DEF FanWrite, TypeOK
  <2>2. CASE FanSnapshot(t) \/ \E b \in Conns : FanWriteFails(t, b) \/ FanDrop(t, b)
    BY <2>2 DEF FanSnapshot, FanWriteFails, FanDrop
  <2> QED BY <1>3, <2>1, <2>2 DEF Fanning
<1>4. CASE Build \/ Building \/ ContextDone \/ StopListening \/ CancelAndDrain \/ CloseStore
  BY <1>4 DEF Build, Building, PublishBuildComplete, PublishReload, Publish, NoReload, Published,
              ContextDone, StopListening, CancelAndDrain, CloseStore
<1>5. CASE UNCHANGED vars
  BY <1>5 DEF vars
<1> QED BY <1>1, <1>2, <1>3, <1>4, <1>5 DEF Next, ShuttingDown

\* A socket is open from the handshake on; once closed, it stays closed.
LEMMA OpenBefore ==
  ASSUME TypeOK, Attached', [Next]_vars, NEW d \in Conns, Reachable(d)'
  PROVE  conn[d] = "open"
<1> USE DEF connVars, Reachable
<1>1. ASSUME NEW c \in Conns, Connect(c) PROVE conn[d] = "open"
  <2>1. handler'[c] = "hello"
    BY <1>1 DEF Connect, TypeOK
  <2>2. c # d
    BY <2>1 DEF Attached
  <2> QED BY <1>1, <2>2 DEF Connect, TypeOK
<1>2. ASSUME NEW c \in Conns,
             Leave(c) \/ Handshake(c) \/ Pinging(c) \/ CloseOne(c)
               \/ \E m \in Commands : Receive(c, m)
      PROVE  conn[d] = "open"
  BY <1>2 DEF Leave, Handshake, RejectHello, AcceptHello, Acknowledge, Register, Persist, Refuse,
       Advance, Receive, Pinging, PingFails, PingUnregisters, PingStops, CloseOne, TypeOK
<1>3. ASSUME NEW c \in Conns, Looping(c) PROVE conn[d] = "open"
  BY <1>3
     DEF Looping, ReadFails, LookupExtension, CheckSession, OperationFails, QueryEvents,
         QueryStorage, Mutate, MutateNothing, SendRuntimeMessage, FanReturns, WriteReply,
         MutationsDone, WriteReplyFails, LoopUnregisters, LoopCloses, TypeOK
<1>4. ASSUME NEW t \in Threads, Fanning(t) PROVE conn[d] = "open"
  BY <1>4 DEF Fanning, FanSnapshot, FanWrite, FanWriteFails, FanDrop, TypeOK
<1>5. CASE Build \/ Building \/ ContextDone \/ StopListening \/ CancelAndDrain \/ CloseStore
  BY <1>5 DEF Build, Building, PublishBuildComplete, PublishReload, Publish, NoReload, Published,
              ContextDone, StopListening, CancelAndDrain, CloseStore
<1>6. CASE UNCHANGED vars
  BY <1>6 DEF vars
<1> QED BY <1>1, <1>2, <1>3, <1>4, <1>5, <1>6 DEF Next, ShuttingDown

\* A diff on its way to a client that wants diffs is written to it, unless its
\* session ends.
LEMMA StaysOnItsWay ==
  ASSUME TypeOK, Control, FanRows, [Next]_vars, NEW d \in Conns, Reachable(d), Reachable(d)',
         "storage.diff" \in Caps(d), \A t \in Threads : ~FanWrite(t, d),
         NEW i \in DOMAIN events, events[i].name = "storage.diff", OnItsWay(d, i)
  PROVE  OnItsWay(d, i)'
<1> USE DEF Reachable
<1> PICK t \in Threads : /\ fan[t].id = i
                         /\ \/ fan[t].stage = "snap"
                            \/ fan[t].stage = "out" /\ d \in fan[t].left
  BY DEF OnItsWay
<1> DEFINE Carries == /\ fan'[t].id = i
                      /\ \/ fan'[t].stage = "snap"
                         \/ fan'[t].stage = "out" /\ d \in fan'[t].left
<1> SUFFICES Carries
  BY DEF OnItsWay
<1>1. CASE fan' = fan
  BY <1>1
\* Another goroutine's broadcast.
<1>2. ASSUME NEW u \in Threads, u # t, NEW f, fan' = [fan EXCEPT ![u] = f] PROVE Carries
  BY <1>2 DEF TypeOK
<1>3. Wants(d, events[i])
  BY DEF Wants, Targeted
<1>4. ASSUME NEW u \in Threads, Fanning(u) PROVE Carries
  <2>1. CASE u # t
    <3>1. \E f \in Fan : fan' = [fan EXCEPT ![u] = f]
      <4>1. fan'[u] \in Fan
        <5>1. TypeOK'
          BY <1>4, FanningTypes
        <5> QED BY <5>1 DEF TypeOK
      <4>2. fan' = [fan EXCEPT ![u] = fan'[u]]
        BY <1>4 DEF Fanning, FanSnapshot, FanWrite, FanWriteFails, FanDrop, TypeOK
      <4> QED BY <4>1, <4>2
    <3> QED BY <1>2, <2>1, <3>1
  <2>2. CASE u = t
    <3>1. CASE FanSnapshot(t)
      <4>1. fan'[t].id = i /\ fan'[t].stage = "out"
            /\ fan'[t].left = {b \in sessions : Wants(b, events[i])}
        BY <3>1 DEF FanSnapshot, TypeOK
      <4> QED BY <1>3, <4>1
    <3>2. ASSUME NEW b \in Conns, FanWrite(t, b) PROVE Carries
      <4>1. b # d
        BY <3>2
      <4> QED BY <3>2, <4>1 DEF FanWrite, TypeOK
    <3>3. ASSUME NEW b \in Conns, FanWriteFails(t, b) PROVE Carries
      <4>1. conn'[b] = "closed"
        BY <3>3 DEF FanWriteFails, TypeOK
      <4>2. b # d
        BY <4>1
      <4> QED BY <3>3, <4>2 DEF FanWriteFails, TypeOK
    <3>4. ASSUME NEW b \in Conns, FanDrop(t, b) PROVE Carries
      BY <3>4 DEF FanDrop, TypeOK
    <3> QED BY <1>4, <2>2, <3>1, <3>2, <3>3, <3>4 DEF Fanning
  <2> QED BY <2>1, <2>2
\* A broadcast begins where there is none, and ends when everybody has got it.
<1>5. ASSUME NEW u \in Threads, fan[u].stage = "idle", StartFan(u) PROVE Carries
  BY <1>2, <1>5 DEF StartFan
<1>6. ASSUME NEW u \in Threads, FanDone(u), fan' = [fan EXCEPT ![u] = NoFan] PROVE Carries
  BY <1>2, <1>6 DEF FanDone
<1>7. ASSUME NEW c \in Conns, Looping(c) PROVE Carries
  <2>1. c \in Threads
    BY DEF Threads
  <2>2. CASE Mutate(c) \/ SendRuntimeMessage(c)
    <3>1. fan[c].stage = "idle" /\ StartFan(c)
      BY <2>2 DEF Mutate, SendRuntimeMessage, Control, FanOwners
    <3> QED BY <1>5, <2>1, <3>1
  <2>3. CASE FanReturns(c)
    BY <1>6, <2>1, <2>3 DEF FanReturns
  <2>4. CASE ~Mutate(c) /\ ~SendRuntimeMessage(c) /\ ~FanReturns(c)
    BY <1>1, <1>7, <2>4
       DEF Looping, ReadFails, LookupExtension, CheckSession, OperationFails, QueryEvents,
           QueryStorage, MutateNothing, MutationsDone, WriteReply, WriteReplyFails,
           LoopUnregisters, LoopCloses
  <2> QED BY <2>2, <2>3, <2>4
<1>8. ASSUME NEW pc \in {"publish", "decide"}, NEW name, NEW next, NEW skip,
             Publish(pc, name, next, skip)
      PROVE  Carries
  <2>1. Dev \in Threads /\ fan[Dev].stage = "idle"
    BY <1>8 DEF Publish, Control, FanOwners, Threads
  <2> QED BY <1>1, <1>5, <1>8, <2>1 DEF Publish
<1>9. CASE Building
  <2>1. Dev \in Threads
    BY DEF Threads
  <2> QED BY <1>1, <1>6, <1>8, <1>9, <2>1
          DEF Building, PublishBuildComplete, PublishReload, NoReload, Published
<1>10. ASSUME NEW c \in Conns,
              Connect(c) \/ Leave(c) \/ Handshake(c) \/ Pinging(c) \/ CloseOne(c)
                \/ \E m \in Commands : Receive(c, m)
       PROVE  fan' = fan
  BY <1>10 DEF Connect, Leave, Handshake, RejectHello, AcceptHello, Acknowledge, Register, Receive,
               Pinging, PingFails, PingUnregisters, PingStops, CloseOne
<1>11. CASE Build \/ ContextDone \/ StopListening \/ CancelAndDrain \/ CloseStore
  BY <1>1, <1>11 DEF Build, ContextDone, StopListening, CancelAndDrain, CloseStore
<1>12. CASE UNCHANGED vars
  BY <1>1, <1>12 DEF vars
<1> QED BY <1>1, <1>4, <1>7, <1>9, <1>10, <1>11, <1>12 DEF Next, ShuttingDown

\* Rows a client that wants diffs has not got are on their way to it.
LEMMA DiffsArrive ==
  ASSUME TypeOK, NoLostBroadcast, NEW d \in Conns, Reachable(d), "storage.diff" \in Caps(d),
         NEW i \in DOMAIN events, events[i].name = "storage.diff", i > since[d]
  PROVE  i \in seen[d].live \/ OnItsWay(d, i)
BY DEF NoLostBroadcast, Live, Wants, Targeted, BroadcastCapabilities

\* A diff that comes in order.
LEMMA DiffInOrder ==
  ASSUME TypeOK, FanRows, NoLostBroadcast, NEW t \in Threads, NEW d \in Conns, FanWrite(t, d),
         FollowsLog(d), Reachable(d), seen[d].synced, ~seen'[d].late, "storage.diff" \in Caps(d),
         NoneOnItsWay(d, seen[d].upto)'
  PROVE  ShowsLog(d, seen'[d].view, seen'[d].upto)
<1> USE DEF storeVars, connVars
<1> DEFINE i == fan[t].id
           s == seen[d]
<1>1. /\ s \in Seen /\ i \in DOMAIN events /\ DOMAIN events = 1..Len(events) /\ Len(events) \in Nat
      /\ s.upto \in Nat /\ i \in Nat /\ since[d] \in Nat
  BY DEF FanWrite, FanRows, TypeOK, StoreTypeOK, Seen
<1>2. seen'[d] = Receives(d, i) /\ UNCHANGED events
  BY DEF FanWrite, TypeOK
\* It was on its way alone, of the older ones.
<1>3. \A j \in DOMAIN events : OnItsWay(d, j) => OnItsWay(d, j)' \/ j = i
  <2> SUFFICES ASSUME NEW j \in DOMAIN events, j # i, OnItsWay(d, j) PROVE OnItsWay(d, j)'
    OBVIOUS
  <2> PICK u \in Threads : /\ fan[u].id = j
                           /\ \/ fan[u].stage = "snap"
                              \/ fan[u].stage = "out" /\ d \in fan[u].left
    BY DEF OnItsWay
  <2>1. u # t
    OBVIOUS
  <2>2. fan'[u] = fan[u]
    BY <2>1 DEF FanWrite, TypeOK
  <2> QED BY <2>2 DEF OnItsWay
<1>4. CASE events[i].name # "storage.diff"
  <2>1. seen'[d].view = s.view /\ seen'[d].upto = s.upto /\ (~s.late)
    BY <1>1, <1>2, <1>4 DEF Receives, Seen
  <2>2. NoneOnItsWay(d, s.upto)
    BY <1>2, <1>3, <1>4, <2>1 DEF NoneOnItsWay
  <2> QED BY <2>1, <2>2 DEF FollowsLog
<1>5. CASE events[i].name = "storage.diff"
  <2>1. /\ seen'[d].view = ApplyDiff(s.view, events[i])
        /\ seen'[d].upto = IF i > s.upto THEN i ELSE s.upto
        /\ ~s.late /\ i >= s.upto
    BY <1>1, <1>2, <1>5 DEF Receives, Seen
  <2>2. seen'[d].upto = i
    BY <1>1, <2>1
  <2>3. \A j \in DOMAIN events : j < i /\ events[j].name = "storage.diff" => ~OnItsWay(d, j)
    BY <1>1, <1>2, <1>3, <2>2 DEF NoneOnItsWay
  <2>4. NoneOnItsWay(d, s.upto)
    BY <1>1, <2>1, <2>3 DEF NoneOnItsWay
  <2>5. ShowsLog(d, s.view, s.upto)
    BY <2>1, <2>4 DEF FollowsLog
  <2>6. since[d] <= s.upto
    BY DEF FollowsLog, Reachable
  \* There is no diff in between: it would be on its way, or be reflected.
  <2>7. \A j \in DOMAIN events : s.upto < j /\ j < i => events[j].name # "storage.diff"
    <3> SUFFICES ASSUME NEW j \in DOMAIN events, s.upto < j, j < i, events[j].name = "storage.diff"
                 PROVE  FALSE
      OBVIOUS
    <3>1. j > since[d]
      BY <1>1, <2>6
    <3>2. j \in s.live
      BY <2>3, <3>1, DiffsArrive
    <3>3. j <= s.upto
      BY <3>2 DEF FollowsLog
    <3> QED BY <1>1, <3>3
  <2> SUFFICES ASSUME NEW k \in Keys, OwnKey(d, k)
               PROVE  AsOf(i, k, ApplyDiff(s.view, events[i])[k])
    BY <2>1, <2>2 DEF ShowsLog
  <2> HIDE DEF s, i
  <2>8. CASE k \in events[i].keys
    <3>1. ApplyDiff(s.view, events[i])[k] = events[i].to
      BY <2>8 DEF ApplyDiff
    <3>2. i <= i /\ Touches(i, k)
      BY <1>1, <1>5, <2>8 DEF Touches
    <3> QED BY <1>1, <3>1, <3>2 DEF AsOf
  <2>9. CASE k \notin events[i].keys
    <3>1. ApplyDiff(s.view, events[i])[k] = s.view[k]
      BY <2>9 DEF ApplyDiff
    <3>2. AsOf(s.upto, k, s.view[k])
      BY <2>5 DEF ShowsLog
    <3>3. \A j \in DOMAIN events : j <= i /\ Touches(j, k) <=> j <= s.upto /\ Touches(j, k)
      BY <1>1, <2>1, <2>7, <2>9 DEF Touches
    <3>4. AsOf(i, k, s.view[k])
      BY <3>2, <3>3 DEF AsOf
    <3> QED BY <3>1, <3>4
  <2> QED BY <2>8, <2>9
<1> QED BY <1>4, <1>5

LEMMA FollowsLogKept ==
  ASSUME DInv, DInv', [Next]_vars, NEW d \in Conns, Handles(d), HoldsSnapshot(d), FollowsLog(d)
  PROVE  FollowsLog(d)'
<1> USE DEF storeVars, connVars
<1>0. /\ TypeOK /\ TypeOK' /\ Attached /\ Attached' /\ SinceInLog /\ FanRows /\ NoLostBroadcast
      /\ OnlyNegotiatedFrames /\ Control
  BY DEF DInv, Control
<1>1. /\ Grows /\ Len(events) \in Nat /\ Len(events') \in Nat /\ Len(events) <= Len(events')
      /\ since[d] \in Nat /\ since[d] <= Len(events) /\ DOMAIN events = 1..Len(events)
  <2>1. events \in Seq(Event) /\ events' \in Seq(Event) /\ since[d] \in Nat
    BY <1>0 DEF TypeOK, StoreTypeOK
  <2> QED BY <1>0, <2>1, LogGrows DEF Grows, SinceInLog
<1>2. seen[d] \in Seen /\ seen[d].upto \in Nat /\ seen'[d].upto \in Nat
  BY <1>0 DEF TypeOK, Seen
<1>3. ASSUME NEW t \in Threads, FanWrite(t, d) PROVE FollowsLog(d)'
  <2> DEFINE i == fan[t].id
  <2>1. seen'[d] = Receives(d, i) /\ UNCHANGED <<events, sessions, since, conn, handler>>
        /\ i \in DOMAIN events
    BY <1>0, <1>3 DEF FanWrite, FanRows, TypeOK
  <2>2. /\ seen'[d].live = seen[d].live \cup {i} /\ seen'[d].synced = seen[d].synced
        /\ seen'[d].upto = IF events[i].name = "storage.diff" /\ i > seen[d].upto THEN i
                           ELSE seen[d].upto
    BY <1>2, <2>1 DEF Receives, Seen
  <2>3. seen'[d].upto <= Len(events') /\ seen'[d].upto >= seen[d].upto
    BY <1>1, <1>2, <2>1, <2>2 DEF FollowsLog
  <2>4. \A j \in seen'[d].live : j \in DOMAIN events' /\ events'[j].name = "storage.diff"
                                    => j <= seen'[d].upto
    <3> HIDE DEF i
    <3> QED BY <1>1, <1>2, <2>1, <2>2 DEF FollowsLog
  <2>5. ASSUME Reachable(d)', seen'[d].synced, ~seen'[d].late, "storage.diff" \in Caps(d),
               NoneOnItsWay(d, seen[d].upto)'
        PROVE  ShowsLog(d, seen[d].view, seen[d].upto)'
    <3>1. Reachable(d)
      BY <2>1, <2>5 DEF Reachable
    <3>2. ShowsLog(d, seen'[d].view, seen'[d].upto)
      BY <1>0, <1>3, <2>2, <2>5, <3>1, DiffInOrder
    <3> QED BY <2>1, <3>2 DEF ShowsLog, OwnKey, AsOf, Touches
  <2> QED BY <1>1, <1>2, <2>1, <2>2, <2>3, <2>4, <2>5 DEF FollowsLog
<1>4. CASE WriteReply(d)
  <2> DEFINE r == job[d].reply
             s == seen[d]
  <2>1. /\ seen'[d] = Answered(d) /\ UNCHANGED <<events, sessions, since, conn, handler, fan>>
        /\ d \in sessions /\ handler[d] = "done" /\ loop[d] = "reply"
        /\ r \in Reply /\ r.upto \in Nat
    BY <1>0, <1>4 DEF WriteReply, TypeOK, Attached, Job, Reply
  <2>2. CASE job[d].cmd.name = "query.storage"
    <3>1. /\ seen'[d].live = s.live /\ seen'[d].view = r.view
          /\ seen'[d].upto = IF r.upto > s.upto THEN r.upto ELSE s.upto
          /\ (~seen'[d].late => ~(r.upto < s.upto))
      BY <1>2, <2>1, <2>2 DEF Answered, Seen
    <3>2. since[d] <= r.upto /\ r.upto <= Len(events) /\ ShowsLog(d, r.view, r.upto)
      BY <2>1, <2>2 DEF HoldsSnapshot
    <3>3. s.upto <= Len(events)
          /\ \A j \in s.live : j \in DOMAIN events /\ events[j].name = "storage.diff" => j <= s.upto
      BY DEF FollowsLog
    <3>4. seen'[d].upto <= Len(events) /\ s.upto <= seen'[d].upto /\ since[d] <= seen'[d].upto
          /\ (~seen'[d].late => seen'[d].upto = r.upto)
      BY <1>1, <1>2, <2>1, <3>1, <3>2, <3>3
    <3>5. \A j \in seen'[d].live : j \in DOMAIN events' /\ events'[j].name = "storage.diff"
                                     => j <= seen'[d].upto
      BY <1>1, <1>2, <2>1, <3>1, <3>3, <3>4
    <3>6. ~seen'[d].late => ShowsLog(d, seen[d].view, seen[d].upto)'
      <4>1. ~seen'[d].late => ShowsLog(d, seen'[d].view, seen'[d].upto)
        BY <3>1, <3>2, <3>4
      <4> QED BY <2>1, <4>1 DEF ShowsLog, OwnKey, AsOf, Touches
    <3> QED BY <2>1, <3>4, <3>5, <3>6 DEF FollowsLog
  <2>3. CASE job[d].cmd.name # "query.storage"
    <3>1. /\ seen'[d].live = s.live /\ seen'[d].view = s.view /\ seen'[d].upto = s.upto
      BY <1>2, <2>1, <2>3 DEF Answered, Seen
    <3>2. seen'[d].synced = s.synced
      BY <1>2, <2>1, <2>3 DEF Answered, Seen
    <3>3. seen'[d].late = s.late
      BY <1>2, <2>1, <2>3 DEF Answered, Seen
    <3> QED BY <2>1, <3>1, <3>2, <3>3
            DEF FollowsLog, Reachable, NoneOnItsWay, OnItsWay, ShowsLog, OwnKey, AsOf, Touches
  <2> QED BY <2>2, <2>3
<1>5. CASE (\A t \in Threads : ~FanWrite(t, d)) /\ ~WriteReply(d)
  <2>1. seen'[d] = seen[d]
    BY <1>0, <1>5, SeenKept
  <2>2. seen'[d].upto <= Len(events')
    BY <1>1, <1>2, <2>1 DEF FollowsLog
  <2>3. \A j \in seen'[d].live : j \in DOMAIN events' /\ events'[j].name = "storage.diff"
                                   => j <= seen'[d].upto
    BY <1>0, <1>1, <2>1 DEF FollowsLog, OnlyNegotiatedFrames, Grows
  <2>4. CASE Register(d)
    <3>1. ~seen'[d].synced /\ handler'[d] = "done"
      BY <1>0, <2>1, <2>4 DEF Register, FollowsLog, TypeOK
    <3> QED BY <2>2, <2>3, <3>1 DEF FollowsLog
  <2>5. CASE ~Register(d)
    <3>1. since'[d] = since[d] /\ (d \in sessions' => d \in sessions)
          /\ (handler'[d] # "done" => handler[d] # "done")
      <4>1. CASE Acts(d)
        BY <2>5, <4>1
           DEF Acts, Receive, Looping, ReadFails, LookupExtension, CheckSession, OperationFails,
               QueryEvents, QueryStorage, Mutate, MutateNothing, SendRuntimeMessage,
               FanReturns, WriteReply, MutationsDone, WriteReplyFails, LoopUnregisters, LoopCloses
      <4>2. CASE ~Acts(d)
        BY <1>0, <4>2, NobodyElse
      <4> QED BY <4>1, <4>2
    <3>2. ASSUME Reachable(d)', seen[d].synced, ~seen[d].late, "storage.diff" \in Caps(d),
                 NoneOnItsWay(d, seen[d].upto)'
          PROVE  ShowsLog(d, seen[d].view, seen[d].upto)'
      <4>1. Reachable(d)
        BY <1>0, <3>1, <3>2, OpenBefore DEF Reachable
      <4>2. NoneOnItsWay(d, seen[d].upto)
        BY <1>0, <1>1, <1>5, <2>1, <3>2, <4>1, StaysOnItsWay DEF NoneOnItsWay, Grows
      <4>3. ShowsLog(d, seen[d].view, seen[d].upto) /\ seen[d].upto <= Len(events)
        BY <3>2, <4>1, <4>2 DEF FollowsLog
      <4>4. ASSUME NEW k \in Keys, NEW v, NEW n \in Nat, v = seen[d].view[k], n = seen[d].upto,
                   OwnKey(d, k)'
            PROVE  AsOf(n, k, v)'
        <5>1. OwnKey(d, k)
          BY <1>1, <4>4 DEF OwnKey, Grows
        <5>2. AsOf(n, k, v) /\ n <= Len(events)
          BY <4>3, <4>4, <5>1 DEF ShowsLog
        <5> QED BY <1>0, <1>1, <5>2, AsOfStays
      <4>5. \A k \in Keys : OwnKey(d, k)' => AsOf(seen[d].upto, k, seen[d].view[k])'
        <5> SUFFICES ASSUME NEW k \in Keys, OwnKey(d, k)'
                     PROVE  AsOf(seen[d].upto, k, seen[d].view[k])'
          OBVIOUS
        <5> QED BY <1>2, <2>1, <4>4 DEF AsOf
      <4> QED BY <4>5 DEF ShowsLog
    <3> QED BY <1>1, <1>2, <2>1, <2>2, <2>3, <3>1, <3>2 DEF FollowsLog
  <2> QED BY <2>4, <2>5
<1> QED BY <1>3, <1>4, <1>5

-----------------------------------------------------------------------------
LEMMA InitLInv == Init => LInv
<1> SUFFICES ASSUME Init, NEW c \in Conns
             PROVE  /\ Handles(c) /\ SetsKeys(c) /\ Empties(c) /\ HoldsPages(c)
                    /\ HoldsSnapshot(c) /\ FollowsLog(c)
  BY DEF LInv
<1>1. /\ job[c].from = 0 /\ job[c].reply.ids = {} /\ job[c].reply.upto = 0 /\ loop[c] = "off"
      /\ c \notin sessions /\ events = <<>> /\ Len(events) = 0
  BY DEF Init, StoreInit, Idle, NoReply
<1>2. seen[c].upto = 0 /\ seen[c].live = {} /\ seen[c].hist = {} /\ ~seen[c].synced
  BY DEF Init, Unaware
<1> QED BY <1>1, <1>2 DEF Handles, SetsKeys, Empties, HoldsPages, HoldsSnapshot, FollowsLog, Busy, Reachable

LEMMA StepLInv == DInv /\ DInv' /\ LInv /\ [Next]_vars => LInv'
<1> SUFFICES ASSUME DInv, DInv', LInv, [Next]_vars, NEW c \in Conns
             PROVE  (/\ Handles(c) /\ SetsKeys(c) /\ Empties(c) /\ HoldsPages(c)
                     /\ HoldsSnapshot(c) /\ FollowsLog(c))'
  BY DEF LInv
<1>1. /\ TypeOK /\ TypeOK' /\ Attached /\ SinceInLog /\ ReplayMatchesItems /\ ReplayMatchesItems'
      /\ Handles(c) /\ SetsKeys(c) /\ Empties(c) /\ HoldsPages(c) /\ HoldsSnapshot(c) /\ FollowsLog(c)
  BY DEF DInv, LInv
<1>2. Handles(c)'
  BY <1>1, HandlesKept
<1> QED BY <1>1, <1>2, SetsKeysKept, EmptiesKept, HoldsPagesKept, HoldsSnapshotKept,
           FollowsLogKept

LEMMA SpecLInv == Spec => [](DInv /\ LInv)
<1>1. DInv /\ LInv /\ [Next]_vars => (DInv /\ LInv)'
  BY StepDInv, StepLInv
<1> QED BY InitDInv, InitLInv, <1>1, PTL DEF Spec

\* A chrome call that is answered as a success was carried out in full: all keys of
\* a set were written, those of a remove or a clear were absent, the message is in
\* the log, whatever failed, was broadcast or was written in between.
THEOREM SuccessIsCommitted == Spec => []SuccessMeansCommitted
<1>1. DInv /\ LInv => SuccessMeansCommitted
  <2> SUFFICES ASSUME LInv, NEW c \in Conns, loop[c] = "reply", job[c].reply.ok
               PROVE  LET m == job[c].cmd
                      IN  /\ m.do = "set"    => \A k \in m.keys : KeyIsSet(c, k)
                          /\ m.do = "remove" => \A k \in m.keys : KeyWasAbsent(c, k)
                          /\ m.do = "clear"  => AreaWasEmpty(c)
                          /\ m.do = "send"   => MessageIsLogged(c)
    BY DEF SuccessMeansCommitted
  <2> QED BY DEF LInv, SetsKeys, Empties
<1> QED BY SpecLInv, <1>1, PTL

\* History and live rows together have no hole, for any page size, any number of
\* clients, commands and goroutines that broadcast (websocket_server.go, ADR 010).
THEOREM TimelinesHaveNoGap == Spec => []TimelineHasNoGap
<1>1. DInv /\ LInv => TimelineHasNoGap
  <2> SUFFICES ASSUME DInv, LInv, NEW d \in Conns, Reachable(d),
                      NEW i \in DOMAIN events, Live(i), Wants(d, events[i]),
                      Ext(d) \in {NoExt, events[i].ext}, NEW h \in seen[d].hist, h <= i
               PROVE  i \in seen[d].hist \cup seen[d].live \/ OnItsWay(d, i)
    BY DEF TimelineHasNoGap
  <2>1. CASE i > since[d]
    BY <2>1 DEF DInv, NoLostBroadcast
  <2>2. CASE i <= since[d]
    BY <2>2 DEF LInv, HoldsPages, Complete, Reachable
  <2>3. i \in Nat /\ since[d] \in Nat
    BY DEF DInv, TypeOK, StoreTypeOK
  <2> QED BY <2>1, <2>2, <2>3
<1> QED BY SpecLInv, <1>1, PTL

\* A view built from a snapshot and live diffs is the storage once nothing is on its
\* way, unless something old was applied on top of something new.
THEOREM ViewsFollowStore == Spec => []ViewFollowsStore
<1>1. DInv /\ LInv => ViewFollowsStore
  <2> SUFFICES ASSUME DInv, LInv, NEW d \in Conns, Reachable(d), seen[d].synced, ~seen[d].late,
                      "storage.diff" \in Caps(d),
                      \A i \in DOMAIN events : events[i].name = "storage.diff" => ~OnItsWay(d, i),
                      NEW k \in Keys, OwnKey(d, k)
               PROVE  seen[d].view[k] = items[NormalizeExt(Ext(d))][k]
    BY DEF ViewFollowsStore, OwnKey
  <2>1. /\ TypeOK /\ NoLostBroadcast /\ ReplayMatchesItems /\ FollowsLog(d)
        /\ DOMAIN events = 1..Len(events) /\ Len(events) \in Nat
        /\ since[d] \in Nat /\ seen[d].upto \in Nat
    BY DEF DInv, LInv, TypeOK, StoreTypeOK, Seen
  <2>2. AsOf(seen[d].upto, k, seen[d].view[k])
    BY <2>1 DEF FollowsLog, NoneOnItsWay, ShowsLog
  <2>3. \A i \in DOMAIN events : events[i].name = "storage.diff" => i <= seen[d].upto
    <3> SUFFICES ASSUME NEW i \in DOMAIN events, events[i].name = "storage.diff"
                 PROVE  i <= seen[d].upto
      OBVIOUS
    <3>1. since[d] <= seen[d].upto
      BY <2>1 DEF FollowsLog, Reachable
    <3>2. CASE i > since[d]
      BY <2>1, <3>2, DiffsArrive DEF FollowsLog
    <3> QED BY <2>1, <3>1, <3>2
  <2>4. AsOf(Len(events), k, seen[d].view[k])
    BY <2>1, <2>2, <2>3 DEF AsOf, Touches
  <2>5. AsOf(Len(events), k, items[NormalizeExt(Ext(d))][k])
    BY <2>1, StorageShowsLog DEF ShowsLog
  <2> QED BY <2>1, <2>4, <2>5, AsOfIsOne
<1> QED BY SpecLInv, <1>1, PTL

-----------------------------------------------------------------------------
(* The daemon is a user of the store.                                        *)

LEMMA AppendIsAllowed ==
  ASSUME NEW name \in EventNames \ {"storage.diff"}, NEW x \in Exts \cup {NoExt},
         NEW build \in Nat, AppendEvent(name, x, build)
  PROVE  StoreNext
  BY DEF StoreNext, StoreWrites

\* A command that mutates the storage is one whose message says so, with a value
\* to store if it is to store one.
LEMMA MutateIsAllowed ==
  ASSUME DInv, LInv, NEW c \in Conns, Mutate(c) PROVE StoreNext
<1> DEFINE m == job[c].cmd
           x == job[c].ext
<1>1. TypeOK /\ Handles(c) /\ loop[c] \in Busy
  BY DEF DInv, LInv, Mutate, Busy
<1>2. m \in Commands /\ m \in Command /\ x \in Exts \cup {NoExt} /\ job[c].todo \in SUBSET Keys
  BY <1>1 DEF Handles, TypeOK, Job
<1>3. m.do = "set" => m.to \in Values
  BY <1>2, DaemonAssumption DEF Command
<1>4. PICK k \in job[c].todo :
        CASE m.do = "set"    -> SetStorageItem(x, k, m.to)
          [] m.do = "remove" -> RemoveStorageItem(x, k)
          [] OTHER           -> ClearStorageArea(x)
  BY DEF Mutate
<1>5. k \in Keys
  BY <1>2
<1> HIDE DEF m, x
<1>6. CASE m.do = "set"
  <2>1. SetStorageItem(x, k, m.to)
    BY <1>4, <1>6
  <2> QED BY <1>2, <1>3, <1>5, <1>6, <2>1 DEF StoreNext, StoreWrites
<1>7. CASE m.do = "remove"
  <2>1. RemoveStorageItem(x, k)
    BY <1>4, <1>7
  <2> QED BY <1>2, <1>5, <2>1 DEF StoreNext, StoreWrites
<1>8. CASE m.do # "set" /\ m.do # "remove"
  <2>1. ClearStorageArea(x)
    BY <1>4, <1>8
  <2> QED BY <1>2, <2>1 DEF StoreNext, StoreWrites
<1> QED BY <1>6, <1>7, <1>8

LEMMA StepUsesStore ==
  ASSUME DInv, LInv, [Next]_vars PROVE StoreNext \/ UNCHANGED storeVars
<1>0. TypeOK
  BY DEF DInv
<1>1. ASSUME NEW c \in Conns, Handshake(c) PROVE StoreNext \/ UNCHANGED storeVars
  <2>1. ASSUME NEW name \in {"hello", "hello.ack"}, NEW next, Persist(c, name, next)
        PROVE  StoreNext \/ UNCHANGED storeVars
    <3>1. /\ name \in EventNames \ {"storage.diff"} /\ 0 \in Nat
          /\ Ext(c) \in Exts \cup {NoExt}
      BY ExtType DEF EventNames
    <3> QED BY <2>1, <3>1, AppendIsAllowed DEF Persist
  <2>2. CASE AcceptHello(c)
    BY <2>1, <2>2 DEF AcceptHello
  <2>3. CASE Acknowledge(c)
    BY <2>1, <2>3 DEF Acknowledge
  <2>4. CASE RejectHello(c) \/ Register(c)
    BY <2>4 DEF RejectHello, Register
  <2> QED BY <1>1, <2>2, <2>3, <2>4 DEF Handshake
<1>2. ASSUME NEW c \in Conns, Looping(c) PROVE StoreNext \/ UNCHANGED storeVars
  <2>1. CASE Mutate(c)
    BY <2>1, MutateIsAllowed
  <2>2. CASE SendRuntimeMessage(c)
    <3>1. /\ "chrome.api.event" \in EventNames \ {"storage.diff"} /\ 0 \in Nat
          /\ NoExt \in Exts \cup {NoExt}
      BY DEF EventNames
    <3> QED BY <2>2, <3>1, AppendIsAllowed DEF SendRuntimeMessage
  <2>3. CASE ~Mutate(c) /\ ~SendRuntimeMessage(c)
    BY <1>2, <2>3
       DEF Looping, ReadFails, LookupExtension, CheckSession, OperationFails, QueryEvents,
           QueryStorage, MutateNothing, FanReturns, MutationsDone, WriteReply,
           WriteReplyFails, LoopUnregisters, LoopCloses
  <2> QED BY <2>1, <2>2, <2>3
<1>3. ASSUME NEW name \in {"build.complete", "command.reload"}, NEW pc, NEW next, NEW skip,
             Publish(pc, name, next, skip)
      PROVE  StoreNext \/ UNCHANGED storeVars
  <2>1. /\ name \in EventNames \ {"storage.diff"} /\ DevExt \in Exts \cup {NoExt}
        /\ dev.build \in Nat
    BY <1>0, DaemonAssumption DEF EventNames, TypeOK, DevState
  <2> QED BY <1>3, <2>1, AppendIsAllowed DEF Publish
<1>4. CASE PublishBuildComplete \/ PublishReload
  BY <1>3, <1>4 DEF PublishBuildComplete, PublishReload
<1>5. ASSUME \/ \E c \in Conns : \/ Connect(c) \/ Leave(c) \/ Pinging(c) \/ CloseOne(c)
                                 \/ \E m \in Commands : Receive(c, m)
             \/ \E t \in Threads : Fanning(t)
             \/ Build \/ NoReload \/ Published
             \/ ContextDone \/ StopListening \/ CancelAndDrain \/ CloseStore
      PROVE  UNCHANGED storeVars
  BY <1>5 DEF Connect, Leave, Pinging, PingFails, PingUnregisters, PingStops, CloseOne, Receive,
       Fanning, FanSnapshot, FanWrite, FanWriteFails, FanDrop, Build, NoReload, Published,
       ContextDone, StopListening, CancelAndDrain, CloseStore
<1>6. CASE UNCHANGED vars
  BY <1>6 DEF vars
<1> QED BY <1>1, <1>2, <1>4, <1>5, <1>6 DEF Next, Building, ShuttingDown

\* The daemon implements the store: however its goroutines interleave and
\* whichever statements fail, the two tables see only what the store's operations
\* do, each in one step.
THEOREM DaemonImplementsStore == Spec => StoreSpec
<1>1. Init => StoreInit
  BY DEF Init
<1>2. DInv /\ LInv /\ [Next]_vars => [StoreNext]_storeVars
  BY StepUsesStore
<1> QED BY SpecLInv, <1>1, <1>2, PTL DEF Spec, StoreSpec

\* So what holds of every use of the store holds of the daemon's: it persists no
\* diff that changes nothing, although a key may be gone by the time it is removed.
THEOREM NoIdleDiffInDaemon == Spec => NoIdleDiff
  BY DaemonImplementsStore, DiffsChangeSomething

\* And a client that pages back through the daemon's log misses nothing.
THEOREM PagesLoseNothingInDaemon == Spec => []PagesAreContiguous(Nat)
  BY DaemonImplementsStore, PagesLoseNothing, PTL
=============================================================================
