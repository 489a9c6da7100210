--------------------------- MODULE DevLoop_proofs ---------------------------
(* No change is forgotten by the edit-build loop, for any tree, budget of   *)
(* re-walks, capacity of the channel and number of edits.                   *)
EXTENDS DevLoop, TLAPS

USE DevLoopAssumption

\* Something is on its way that no one can lose any more: an event the watcher
\* has not read or not emitted, or an emitted one.
Link == queue # <<>> \/ pending # {} \/ queued > 0

Busy == bpc \in {"building", "rebuilding"}

\* A build that has seen no directory disappear will read p.  Of a torn one
\* that cannot be said: it may abort.
Reading(p) == Busy /\ p \in unread /\ ~torn

\* The watcher will look at p again, or never will.
Found(p) == \/ Stale(p)
            \/ p \in dirs \ watchedDirs
            \/ p \in Dirs /\ recent[p] > 0
            \/ target = p

\* NoChangeForgotten, without what cannot be relied on: the re-walks find a file
\* only if there is one, and a torn build may read nothing more.
Sure(p) == \/ built[p] = disk[p]
           \/ early[p]
           \/ Link
           \/ Reading(p)
           \/ disk[p] > 0 /\ Found(p)

\* Only directories that exist hold files.
FilesInDirs == \A p \in Places : disk[p] > 0 => p \in dirs \cup {Root}

\* Before the watcher is attached all is early, and the root has a watch after.
StartIsEarly ==
    IF wpc = "start" THEN /\ watched = {} /\ watchedDirs = {}
                          /\ \A p \in Places : early[p]
                     ELSE Root \in watched

\* Where a walk is: the initial one has only early places left, any other one
\* at most the new directory, and there is none outside "attach".
WalkIsOn ==
    /\ wpc \in {"start", "loop", "drop"} => target = NoDir /\ todo = {}
    /\ IF target = NoDir THEN \A p \in todo : early[p] ELSE todo \subseteq {target}

\* While a watch may miss events, re-walks of its directory are left.
FreshIsRewalked ==
    \A d \in Dirs : /\ fresh[d] <= RewalkBudget
                    /\ fresh[d] <= recent[d] \/ target = d

DevInv == /\ DevTypeOK /\ FilesInDirs /\ StartIsEarly /\ WalkIsOn /\ FreshIsRewalked
          /\ wpc # "failed" => \A p \in Places : Sure(p)

LEMMA InitDevInv == DevInit => DevInv
<1> SUFFICES ASSUME DevInit PROVE DevInv
  OBVIOUS
<1>1. DevTypeOK
  <2>1. queue \in Seq(Event)
    BY DEF DevInit
  <2> QED BY <2>1 DEF DevInit, DevTypeOK, Places
<1>2. FilesInDirs /\ StartIsEarly /\ WalkIsOn /\ FreshIsRewalked
  BY DEF DevInit, FilesInDirs, StartIsEarly, WalkIsOn, FreshIsRewalked
<1>3. \A p \in Places : Sure(p)
  BY DEF DevInit, Sure
<1> QED BY <1>1, <1>2, <1>3 DEF DevInv

LEMMA OneMore ==
  ASSUME NEW S, NEW q \in Seq(S), NEW e \in S
  PROVE  /\ q \o <<>> = q
         /\ Append(q, e) \in Seq(S) /\ Append(q, e) # <<>>
         /\ q \o <<e>> \in Seq(S) /\ q \o <<e>> # <<>>
<1>1. q \o <<e>> = Append(q, e)
  OBVIOUS
<1>2. Append(q, e) \in Seq(S) /\ Len(Append(q, e)) = Len(q) + 1
  OBVIOUS
<1>3. Append(q, e) # <<>>
  BY <1>2
<1>4. q \o <<>> = q
  OBVIOUS
<1> QED BY <1>1, <1>2, <1>3, <1>4

-----------------------------------------------------------------------------
(* The developer.                                                           *)

LEMMA WriteStep ==
  ASSUME DevInv, NEW p \in Places, Write(p) PROVE DevInv'
<1> USE DEF DevInv
<1>a. DevTypeOK /\ p \in dirs \cup {Root} /\ edits \in Nat /\ queue \in Seq(Event)
  BY DEF DevTypeOK, Write
<1>b. /\ edits' = edits + 1
      /\ early' = [early EXCEPT ![p] = wpc = "start" \/ (target = NoDir /\ p \in todo)]
      /\ disk' = [disk EXCEPT ![p] = edits + 1]
      /\ UNCHANGED <<dirs, watched, fresh, wpc, todo, target, watchedDirs, recent,
                     pending, armed, queued, dirty, bpc, unread, torn, built>>
  BY DEF Write, Changed, Counted, watchVars, linkVars, buildVars, walkVars, flushVars
<1>c. \/ p \notin watched /\ queue' = queue
      \/ p \in watched /\ queue' = queue \o <<Happened(p, FALSE)>>
      \/ p \in watched /\ p \in Dirs /\ fresh[p] > 0 /\ queue' = queue
  <2>1. queue \o <<>> = queue
    BY <1>a
  <2> QED BY <2>1 DEF Write, Delivered
<1>d. Happened(p, FALSE) \in Event
  BY DEF Happened, Event
<1>e. queue' \in Seq(Event) /\ (queue # <<>> => queue' # <<>>)
  <2> DEFINE more == queue \o <<Happened(p, FALSE)>>
  <2>1. more \in Seq(Event) /\ more # <<>>
    BY <1>a, <1>d, OneMore
  <2> HIDE DEF more
  <2>2. queue' = queue \/ queue' = more
    BY <1>c DEF more
  <2> QED BY <1>a, <2>1, <2>2
<1>1. DevTypeOK'
  BY <1>a, <1>b, <1>e DEF DevTypeOK
<1>2. FilesInDirs' /\ StartIsEarly' /\ WalkIsOn' /\ FreshIsRewalked'
  BY <1>a, <1>b DEF DevTypeOK, FilesInDirs, StartIsEarly, WalkIsOn, FreshIsRewalked
<1>3. ASSUME wpc' # "failed", NEW q \in Places, q # p PROVE Sure(q)'
  BY <1>3, <1>a, <1>b, <1>e DEF Sure, Link, Reading, Busy, Found, Stale, DevTypeOK
<1>4. ASSUME wpc' # "failed" PROVE Sure(p)'
  <2>1. disk'[p] > 0
    BY <1>a, <1>b DEF DevTypeOK
  <2>2. CASE p \notin watched
    <3>1. CASE p = Root
      <4>1. wpc = "start"
        BY <2>2, <3>1 DEF StartIsEarly
      <4>2. early'[p]
        BY <1>a, <1>b, <4>1 DEF DevTypeOK
      <4> QED BY <4>2 DEF Sure
    <3>2. CASE p \in dirs
      <4> p \in dirs \ watchedDirs \/ Stale(p)
        BY <2>2, <3>2 DEF Stale
      <4> QED BY <1>b, <2>1 DEF Sure, Found, Stale
    <3> QED BY <1>a, <3>1, <3>2
  <2>3. CASE queue' = queue \o <<Happened(p, FALSE)>>
    <3> queue' # <<>>
      BY <1>a, <1>d, <2>3
    <3> QED BY DEF Sure, Link
  <2>4. CASE p \in Dirs /\ fresh[p] > 0
    <3>1. recent[p] > 0 \/ target = p
      BY <2>4 DEF FreshIsRewalked, DevTypeOK
    <3> QED BY <1>b, <2>1, <2>4, <3>1 DEF Sure, Found
  <2> QED BY <1>c, <2>2, <2>3, <2>4
<1> QED BY <1>1, <1>2, <1>3, <1>4

LEMMA MakeDirStep ==
  ASSUME DevInv, NEW d \in Dirs, MakeDir(d) PROVE DevInv'
<1> USE DEF DevInv
<1>a. DevTypeOK /\ d \notin dirs /\ edits \in Nat /\ queue \in Seq(Event) /\ d \in Places
  BY DEF DevTypeOK, MakeDir, Places
<1>b. /\ edits' = edits + 1 /\ dirs' = dirs \cup {d}
      /\ UNCHANGED <<disk, early, watched, fresh, wpc, todo, target, watchedDirs, recent,
                     pending, armed, queued, dirty, bpc, unread, torn, built>>
  BY DEF MakeDir, Counted, watchVars, linkVars, buildVars, walkVars, flushVars
<1>c. queue' = queue \/ queue' = queue \o <<Happened(d, TRUE)>>
  <2>1. queue \o <<>> = queue
    BY <1>a
  <2> QED BY <2>1 DEF MakeDir, Delivered
<1>d. Happened(d, TRUE) \in Event
  BY <1>a DEF Happened, Event
<1>e. queue' \in Seq(Event) /\ (queue # <<>> => queue' # <<>>)
  <2> DEFINE more == queue \o <<Happened(d, TRUE)>>
  <2>1. more \in Seq(Event) /\ more # <<>>
    BY <1>a, <1>d, OneMore
  <2> HIDE DEF more
  <2>2. queue' = queue \/ queue' = more
    BY <1>c DEF more
  <2> QED BY <1>a, <2>1, <2>2
<1>1. DevTypeOK'
  BY <1>a, <1>b, <1>e DEF DevTypeOK
<1>2. FilesInDirs' /\ StartIsEarly' /\ WalkIsOn' /\ FreshIsRewalked'
  BY <1>a, <1>b DEF DevTypeOK, FilesInDirs, StartIsEarly, WalkIsOn, FreshIsRewalked
<1>3. ASSUME wpc' # "failed", NEW q \in Places PROVE Sure(q)'
  BY <1>3, <1>a, <1>b, <1>e DEF Sure, Link, Reading, Busy, Found, Stale, DevTypeOK
<1> QED BY <1>1, <1>2, <1>3

LEMMA RemoveDirStep ==
  ASSUME DevInv, NEW d \in Dirs, RemoveDir(d) PROVE DevInv'
<1> USE DEF DevInv
<1>a. DevTypeOK /\ d \in dirs /\ edits \in Nat /\ queue \in Seq(Event)
      /\ d \in Places /\ d # Root
  BY DEF DevTypeOK, RemoveDir, Places
<1>b. /\ edits' = edits + 1 /\ dirs' = dirs \ {d} /\ watched' = watched \ {d}
      /\ early' = [early EXCEPT ![d] = wpc = "start" \/ (target = NoDir /\ d \in todo)]
      /\ disk' = [disk EXCEPT ![d] = 0]
      /\ UNCHANGED <<fresh, wpc, todo, target, watchedDirs, recent,
                     pending, armed, queued, dirty, bpc, unread, built>>
  BY DEF RemoveDir, Changed, Counted, watchVars, linkVars, walkVars, flushVars
<1>c. queue' = IF Root \in watched THEN Append(queue, Happened(d, FALSE)) ELSE queue
  BY DEF RemoveDir
<1>d. Happened(d, FALSE) \in Event
  BY <1>a DEF Happened, Event
<1>e. queue' \in Seq(Event)
  BY <1>a, <1>c, <1>d, OneMore
<1>f. torn' \in BOOLEAN
  BY <1>a DEF RemoveDir, DevTypeOK
<1>1. DevTypeOK'
  BY <1>a, <1>b, <1>e, <1>f DEF DevTypeOK
<1>2. FilesInDirs' /\ StartIsEarly' /\ WalkIsOn' /\ FreshIsRewalked'
  BY <1>a, <1>b DEF DevTypeOK, FilesInDirs, StartIsEarly, WalkIsOn, FreshIsRewalked
<1>3. ASSUME NEW q \in Places PROVE Sure(q)'
  <2>1. CASE Root \in watched
    <3> queue' # <<>>
      BY <1>a, <1>c, <1>d, <2>1, OneMore
    <3> QED BY DEF Sure, Link
  <2>2. CASE Root \notin watched
    <3> early'[q]
      BY <1>a, <1>b, <2>2 DEF StartIsEarly, DevTypeOK
    <3> QED BY DEF Sure
  <2> QED BY <2>1, <2>2
<1> QED BY <1>1, <1>2, <1>3

-----------------------------------------------------------------------------
(* FileWatcher.Run.                                                         *)

LEMMA AttachRootStep == DevInv /\ AttachRoot => DevInv'
<1> SUFFICES ASSUME DevInv, AttachRoot PROVE DevInv'
  OBVIOUS
<1> USE DEF DevInv
<1>b. /\ wpc = "start" /\ watched' = {Root} /\ watchedDirs' = {Root}
      /\ todo' = dirs /\ wpc' = "attach"
      /\ UNCHANGED <<dirs, disk, edits, early, fresh, queue, target, recent,
                     pending, armed, queued, dirty, bpc, unread, torn, built>>
  BY DEF AttachRoot, treeVars, flushVars, linkVars, buildVars
<1>1. DevTypeOK'
  BY <1>b DEF DevTypeOK, Places
<1>2. FilesInDirs' /\ StartIsEarly' /\ WalkIsOn' /\ FreshIsRewalked'
  BY <1>b DEF DevTypeOK, FilesInDirs, StartIsEarly, WalkIsOn, FreshIsRewalked, Places
<1>3. \A q \in Places : Sure(q)'
  BY <1>b DEF Sure, StartIsEarly
<1> QED BY <1>1, <1>2, <1>3

LEMMA AttachDirStep ==
  ASSUME DevInv, NEW d \in Dirs, AttachDir(d) PROVE DevInv'
<1> USE DEF DevInv
<1>a. /\ wpc = "attach" /\ d \in todo
      /\ UNCHANGED <<dirs, disk, edits, early, queue, target, recent,
                     pending, armed, queued, dirty, bpc, unread, torn, built>>
  BY DEF AttachDir, treeVars, flushVars, linkVars, buildVars
<1>1. CASE d \in dirs /\ todo' = todo \ {d} /\ watchedDirs' = watchedDirs \cup {d}
           /\ wpc' = wpc
           /\ IF d \in watchedDirs THEN UNCHANGED <<watched, fresh>> ELSE Watch({d})
  <2>a. target # NoDir => target = d
    BY <1>a DEF WalkIsOn
  <2>b. /\ watched \subseteq watched' /\ watched' \subseteq watched \cup {d}
        /\ d \in watchedDirs => watched' = watched
        /\ \/ fresh' = fresh
           \/ fresh' = [e \in Dirs |-> IF e = d /\ target # NoDir THEN RewalkBudget
                                       ELSE fresh[e]]
    BY <1>1 DEF Watch
  <2>1. DevTypeOK'
    <3>1. fresh' \in [Dirs -> Nat]
      BY <2>b DEF DevTypeOK
    <3> QED BY <1>1, <1>a, <2>b, <3>1 DEF DevTypeOK, Places
  <2>2. FilesInDirs' /\ StartIsEarly' /\ WalkIsOn'
    BY <1>1, <1>a, <2>b DEF FilesInDirs, StartIsEarly, WalkIsOn
  <2>3. FreshIsRewalked'
    BY <1>1, <1>a, <2>a, <2>b DEF DevTypeOK, FreshIsRewalked
  <2>4. ASSUME NEW q \in Places PROVE Sure(q)'
    <3>1. CASE q = d
      BY <1>1, <1>a, <2>a, <2>b, <3>1
         DEF Sure, Link, Reading, Busy, Found, Stale, WalkIsOn
    <3>2. CASE q # d
      BY <1>1, <1>a, <2>b, <3>2 DEF Sure, Link, Reading, Busy, Found, Stale
    <3> QED BY <3>1, <3>2
  <2> QED BY <2>1, <2>2, <2>3, <2>4
<1>2. CASE wpc' = "failed" /\ UNCHANGED <<todo, watched, fresh, watchedDirs>>
  <2>1. DevTypeOK'
    BY <1>a, <1>2 DEF DevTypeOK
  <2>2. FilesInDirs' /\ StartIsEarly' /\ WalkIsOn' /\ FreshIsRewalked'
    BY <1>a, <1>2 DEF FilesInDirs, StartIsEarly, WalkIsOn, FreshIsRewalked
  <2> QED BY <1>2, <2>1, <2>2
<1> QED BY <1>1, <1>2 DEF AttachDir

LEMMA ReadyStep == DevInv /\ Ready => DevInv'
<1> SUFFICES ASSUME DevInv, Ready PROVE DevInv'
  OBVIOUS
<1> USE DEF DevInv
<1>b. /\ wpc = "attach" /\ todo = {} /\ target = NoDir /\ wpc' = "loop"
      /\ UNCHANGED <<treeVars, kernelVars, todo, target, watchedDirs, recent, pending, armed,
                     queued, dirty, bpc, unread, torn, built>>
  BY DEF Ready, flushVars, linkVars, buildVars, walkVars
<1> USE DEF treeVars, kernelVars
<1>1. DevTypeOK'
  BY <1>b DEF DevTypeOK
<1>2. FilesInDirs' /\ StartIsEarly' /\ WalkIsOn' /\ FreshIsRewalked'
  BY <1>b DEF FilesInDirs, StartIsEarly, WalkIsOn, FreshIsRewalked
<1>3. \A q \in Places : Sure(q)'
  BY <1>b DEF Sure, Link, Reading, Busy, Found, Stale
<1> QED BY <1>1, <1>2, <1>3

LEMMA SynthesizeStep == DevInv /\ SynthesizeChildren => DevInv'
<1> SUFFICES ASSUME DevInv, SynthesizeChildren PROVE DevInv'
  OBVIOUS
<1> USE DEF DevInv
<1>b. /\ wpc = "attach" /\ todo = {} /\ target # NoDir /\ wpc' = "loop"
      /\ pending' = IF Exists(target) THEN pending \cup {target} ELSE pending
      /\ recent' = [recent EXCEPT ![target] = RewalkBudget]
      /\ target' = NoDir /\ armed' = TRUE
      /\ UNCHANGED <<dirs, disk, edits, early, watched, fresh, queue, todo, watchedDirs,
                     queued, dirty, bpc, unread, torn, built>>
  BY DEF SynthesizeChildren, linkVars, buildVars, treeVars, kernelVars
<1>c. target \in Dirs /\ target \in Places
  BY <1>b DEF DevTypeOK, Places
<1>1. DevTypeOK'
  BY <1>b, <1>c DEF DevTypeOK
<1>2. FilesInDirs' /\ StartIsEarly' /\ WalkIsOn' /\ FreshIsRewalked'
  BY <1>b, <1>c DEF DevTypeOK, FilesInDirs, StartIsEarly, WalkIsOn, FreshIsRewalked
<1>3. \A q \in Places : Sure(q)'
  BY <1>b, <1>c DEF DevTypeOK, Sure, Link, Reading, Busy, Found, Stale
<1> QED BY <1>1, <1>2, <1>3

LEMMA HandleEventStep == DevInv /\ HandleEvent => DevInv'
<1> SUFFICES ASSUME DevInv, HandleEvent PROVE DevInv'
  OBVIOUS
<1> USE DEF DevInv
<1> DEFINE e == Head(queue)
<1>a. queue \in Seq(Event) /\ queue # <<>>
  BY DEF DevTypeOK, HandleEvent
<1>b. e \in Event /\ Tail(queue) \in Seq(Event)
  BY <1>a
<1>c. e.place \in Places
  BY <1>b DEF Event
<1>d. /\ wpc = "loop" /\ queue' = Tail(queue) /\ pending' = pending \cup {e.place}
      /\ UNCHANGED <<dirs, disk, edits, early, watched, fresh, watchedDirs, recent,
                     queued, dirty, bpc, unread, torn, built>>
  BY DEF HandleEvent, treeVars, linkVars, buildVars
<1>e. \/ /\ e.place \in dirs /\ wpc' = "attach" /\ todo' = {e.place} /\ target' = e.place
         /\ armed' = armed
      \/ /\ armed' = TRUE /\ UNCHANGED <<wpc, todo, target>>
  BY DEF HandleEvent
<1> HIDE DEF e
<1>1. DevTypeOK'
  BY <1>b, <1>c, <1>d, <1>e DEF DevTypeOK
<1>2. FilesInDirs' /\ StartIsEarly' /\ WalkIsOn' /\ FreshIsRewalked'
  <2> e.place \in dirs => e.place # NoDir
    BY DEF DevTypeOK, Places
  <2>1. FilesInDirs' /\ StartIsEarly'
    BY <1>d, <1>e DEF FilesInDirs, StartIsEarly
  <2>2. WalkIsOn'
    BY <1>d, <1>e DEF WalkIsOn
  <2>3. FreshIsRewalked'
    BY <1>d, <1>e DEF FreshIsRewalked, WalkIsOn, DevTypeOK, Places
  <2> QED BY <2>1, <2>2, <2>3
<1>3. \A q \in Places : Sure(q)'
  BY <1>d DEF Sure, Link
<1> QED BY <1>1, <1>2, <1>3

LEMMA SyncTreeStep == DevInv /\ SyncTree => DevInv'
<1> SUFFICES ASSUME DevInv, SyncTree PROVE DevInv'
  OBVIOUS
<1> USE DEF DevInv
<1> DEFINE found == dirs \ watchedDirs
           walks == [d \in Dirs |-> IF d \in found THEN RewalkBudget ELSE recent[d]]
           news  == [d \in Dirs |-> IF d \in found THEN RewalkBudget ELSE fresh[d]]
           seen  == {d \in Dirs : walks[d] > 0 /\ Exists(d)}
<1>a. /\ wpc = "loop"
      /\ watched' = watched \cup found /\ watchedDirs' = watchedDirs \cup found
      /\ fresh' = Older(news) /\ recent' = Older(walks)
      /\ pending' = pending \cup seen
      /\ armed' = (armed \/ pending' # pending)
      /\ UNCHANGED <<dirs, disk, edits, early, queue, wpc, todo, target,
                     queued, dirty, bpc, unread, torn, built>>
  BY DEF SyncTree, treeVars, linkVars, buildVars
<1>b. /\ found \subseteq Places /\ seen \subseteq Places
      /\ walks \in [Dirs -> Nat] /\ news \in [Dirs -> Nat]
  BY DEF DevTypeOK, Places
<1>c. /\ fresh' = [d \in Dirs |-> IF news[d] > 0 THEN news[d] - 1 ELSE 0]
      /\ recent' = [d \in Dirs |-> IF walks[d] > 0 THEN walks[d] - 1 ELSE 0]
  BY <1>a DEF Older
<1>d. fresh' \in [Dirs -> Nat] /\ recent' \in [Dirs -> Nat]
  BY <1>b, <1>c
<1>e. armed' \in BOOLEAN
  BY <1>a DEF DevTypeOK
<1>1. DevTypeOK'
  <2> HIDE DEF found, walks, news, seen
  <2> QED BY <1>a, <1>b, <1>d, <1>e DEF DevTypeOK
<1>2. FilesInDirs' /\ StartIsEarly' /\ WalkIsOn'
  BY <1>a DEF FilesInDirs, StartIsEarly, WalkIsOn
<1>3. FreshIsRewalked'
  <2> SUFFICES ASSUME NEW d \in Dirs
               PROVE  fresh'[d] <= RewalkBudget /\ fresh'[d] <= recent'[d]
    BY DEF FreshIsRewalked
  <2>1. fresh[d] \in Nat /\ recent[d] \in Nat
    BY DEF DevTypeOK
  <2>2. fresh[d] <= RewalkBudget /\ fresh[d] <= recent[d]
    <3> target # d
      BY <1>a DEF WalkIsOn, Places
    <3> QED BY DEF FreshIsRewalked
  <2>3. news[d] <= RewalkBudget /\ news[d] <= walks[d]
    BY <2>1, <2>2
  <2> HIDE DEF walks, news
  <2> QED BY <1>b, <1>c, <2>3
<1>4. ASSUME NEW q \in Places PROVE Sure(q)'
  <2>1. CASE disk[q] > 0 /\ Found(q) /\ ~Stale(q)
    <3>1. q \in dirs /\ q \in Dirs
      BY <1>a, <2>1 DEF FilesInDirs, DevTypeOK, Found, WalkIsOn, Places
    <3>2. walks[q] > 0
      BY <1>a, <2>1, <3>1 DEF Found, WalkIsOn, Places
    <3>3. q \in pending'
      BY <1>a, <2>1, <3>1, <3>2 DEF Exists
    <3> QED BY <3>3 DEF Sure, Link
  <2>2. CASE Stale(q) /\ disk[q] > 0
    <3>1. Stale(q)'
      BY <1>a, <2>2 DEF Stale
    <3> QED BY <1>a, <2>2, <3>1 DEF Sure, Found
  <2>3. CASE built[q] = disk[q] \/ early[q] \/ Link \/ Reading(q)
    <3> HIDE DEF seen
    <3> QED BY <1>a, <2>3 DEF Sure, Link, Reading, Busy
  <2> QED BY <1>a, <2>1, <2>2, <2>3 DEF Sure
<1> QED BY <1>1, <1>2, <1>3, <1>4

LEMMA FlushStep == DevInv /\ (Flush \/ StoreDirty \/ WatchError) => DevInv'
<1> SUFFICES ASSUME DevInv, Flush \/ StoreDirty \/ WatchError PROVE DevInv'
  OBVIOUS
<1> USE DEF DevInv
<1>a. /\ wpc \in {"loop", "drop"}
      /\ UNCHANGED <<dirs, disk, edits, early, watched, fresh, queue, todo, target,
                     watchedDirs, recent, bpc, unread, torn, built>>
  BY DEF Flush, StoreDirty, WatchError, treeVars, kernelVars, walkVars, linkVars, buildVars
<1>b. /\ wpc' \in {"loop", "drop", "failed"} /\ pending' \in {pending, {}}
      /\ armed' \in {armed, FALSE} /\ dirty' \in {dirty, TRUE}
      /\ queued' \in Nat
      /\ Link => Link'
  <2>1. queued \in Nat
    BY DEF DevTypeOK
  <2>2. CASE Flush
    <3>1. /\ wpc' \in {"loop", "drop"} /\ queued' \in Nat
          /\ pending # {} => queued' > 0
          /\ queued > 0 => queued' > 0
      BY <2>1, <2>2 DEF Flush
    <3>2. pending' = {} /\ armed' = FALSE /\ dirty' = dirty
      BY <2>2 DEF Flush
    <3> QED BY <1>a, <3>1, <3>2 DEF Link
  <2>3. CASE StoreDirty
    BY <2>1, <2>3, <1>a DEF StoreDirty, Link, flushVars
  <2>4. CASE WatchError
    BY <2>1, <2>4, <1>a DEF WatchError, Link, flushVars, linkVars
  <2> QED BY <2>2, <2>3, <2>4
<1>1. DevTypeOK'
  BY <1>a, <1>b DEF DevTypeOK
<1>2. FilesInDirs' /\ StartIsEarly' /\ WalkIsOn' /\ FreshIsRewalked'
  BY <1>a, <1>b DEF FilesInDirs, StartIsEarly, WalkIsOn, FreshIsRewalked
<1>3. \A q \in Places : Sure(q)'
  BY <1>a, <1>b DEF Sure, Reading, Busy, Found, Stale
<1> QED BY <1>1, <1>2, <1>3

-----------------------------------------------------------------------------
(* runBuildLoop.                                                            *)

\* What the build loop leaves alone.
LEMMA BuildFrame ==
  ASSUME DevInv, Building \/ BuildAborts
  PROVE  /\ UNCHANGED <<dirs, disk, edits, early, watched, fresh, queue, wpc, todo, target,
                        watchedDirs, recent, pending, armed>>
         /\ FilesInDirs' /\ StartIsEarly' /\ WalkIsOn' /\ FreshIsRewalked'
<1>1. UNCHANGED <<dirs, disk, edits, early, watched, fresh, queue, wpc, todo, target,
                  watchedDirs, recent, pending, armed>>
  BY DEF Building, BuildAborts, TakeEvent, ReadSource, BuildDone, CheckDirty,
         treeVars, kernelVars, watchVars, walkVars, flushVars
<1> QED BY <1>1 DEF DevInv, FilesInDirs, StartIsEarly, WalkIsOn, FreshIsRewalked

LEMMA BuildStep == DevInv /\ (Building \/ BuildAborts) => DevInv'
<1> SUFFICES ASSUME DevInv, Building \/ BuildAborts PROVE DevInv'
  OBVIOUS
<1> USE DEF DevInv
<1>a. UNCHANGED <<dirs, disk, edits, early, watched, fresh, queue, wpc, todo, target,
                  watchedDirs, recent, pending, armed>>
  BY BuildFrame
<1>b. FilesInDirs' /\ StartIsEarly' /\ WalkIsOn' /\ FreshIsRewalked'
  BY BuildFrame
<1>1. CASE TakeEvent
  <2>1. DevTypeOK'
    <3> queued \in Nat /\ queued > 0
      BY <1>1 DEF DevTypeOK, TakeEvent
    <3>1. queued' \in Nat
      BY <1>1 DEF TakeEvent
    <3>2. bpc' = "building" /\ unread' = Places /\ torn' = FALSE /\ UNCHANGED <<built, dirty>>
      BY <1>1 DEF TakeEvent, StartBuild
    <3> QED BY <1>a, <3>1, <3>2 DEF DevTypeOK
  <2>2. \A q \in Places : Sure(q)'
    BY <1>1 DEF Sure, Reading, Busy, TakeEvent, StartBuild
  <2> QED BY <1>b, <2>1, <2>2
<1>2. ASSUME NEW p \in Places, ReadSource(p) PROVE DevInv'
  <2>1. DevTypeOK'
    BY <1>a, <1>2 DEF DevTypeOK, ReadSource, linkVars
  <2>2. ASSUME wpc # "failed", NEW q \in Places PROVE Sure(q)'
    BY <1>a, <1>2, <2>2
       DEF Sure, Link, Reading, Busy, Found, Stale, ReadSource, linkVars, DevTypeOK
  <2> QED BY <1>a, <1>b, <2>1, <2>2
<1>3. CASE BuildDone \/ BuildAborts
  <2>1. DevTypeOK'
    BY <1>a, <1>3 DEF DevTypeOK, BuildDone, BuildAborts, EndBuild, linkVars
  <2>2. ASSUME wpc # "failed", NEW q \in Places PROVE Sure(q)'
    BY <1>a, <1>3, <2>2
       DEF Sure, Link, Reading, Busy, Found, Stale, BuildDone, BuildAborts, linkVars
  <2> QED BY <1>a, <1>b, <2>1, <2>2
<1>4. CASE CheckDirty
  <2>1. DevTypeOK'
    BY <1>a, <1>4 DEF DevTypeOK, CheckDirty, StartBuild
  <2>2. ASSUME wpc # "failed", NEW q \in Places PROVE Sure(q)'
    BY <1>a, <1>4, <2>2
       DEF Sure, Link, Reading, Busy, Found, Stale, CheckDirty, StartBuild
  <2> QED BY <1>a, <1>b, <2>1, <2>2
<1> QED BY <1>1, <1>2, <1>3, <1>4 DEF Building

LEMMA StutterStep == DevInv /\ UNCHANGED vars => DevInv'
<1> SUFFICES ASSUME DevInv, UNCHANGED vars PROVE DevInv'
  OBVIOUS
<1> USE DEF vars, treeVars, kernelVars, watchVars, walkVars, flushVars, linkVars, buildVars
<1>1. DevTypeOK'
  BY DEF DevInv, DevTypeOK
<1>2. FilesInDirs' /\ StartIsEarly' /\ WalkIsOn' /\ FreshIsRewalked'
  BY DEF DevInv, FilesInDirs, StartIsEarly, WalkIsOn, FreshIsRewalked
<1>3. ASSUME wpc # "failed", NEW q \in Places PROVE Sure(q)'
  BY <1>3 DEF DevInv, Sure, Link, Reading, Busy, Found, Stale
<1> QED BY <1>1, <1>2, <1>3 DEF DevInv

LEMMA StepDevInv == DevInv /\ [DevNext]_vars => DevInv'
  BY WriteStep, MakeDirStep, RemoveDirStep, AttachRootStep, AttachDirStep, ReadyStep,
     SynthesizeStep, HandleEventStep, SyncTreeStep, FlushStep, BuildStep, StutterStep
     DEF DevNext, Editing, Attaching

LEMMA SpecDevInv == DevSpec => []DevInv
  BY InitDevInv, StepDevInv, PTL DEF DevSpec

\* No change of the source tree is forgotten by watcher, channel and build loop
\* together: whatever is dropped, missed or aborted, the build reads it later.
THEOREM ChangesAreKept == DevSpec => []NoChangeForgotten
<1>1. DevInv => NoChangeForgotten
  BY DEF DevInv, NoChangeForgotten, Sure, Link, Reading, Busy, Found, Coming
<1> QED BY <1>1, SpecDevInv, PTL
=============================================================================
