------------------------------- MODULE DevLoop -------------------------------
(***************************************************************************)
(* The edit-build loop of `panex dev`: the file watcher of one extension,  *)
(* the channel to its build goroutine with the flag for dropped events,    *)
(* and the builds, against a developer who edits, adds and deletes.        *)
(*                                                                         *)
(* Source: internal/daemon/file_watcher.go, and startDevServer and         *)
(* runBuildLoop in cmd/panex/main.go.  What a finished build publishes is  *)
(* in Daemon; the end of the process is not modelled.                      *)
(*                                                                         *)
(* The source tree is the root and its direct subdirectories, each with    *)
(* one source file whose content is a version number, 0 when there is no   *)
(* file.  A path is abstracted to the directory it lies in.  A build reads *)
(* every file, whatever paths it was told about, one after the other.      *)
(***************************************************************************)
EXTENDS Naturals, Sequences

CONSTANTS
    Root,          \* the source directory
    Dirs,          \* the subdirectories that may exist
    NoDir,
    RewalkBudget,  \* recentDirRewalkBudget
    ChanCap,       \* capacity of changeEvents
    Lossy,         \* events of new directories may get lost (Windows)
    MaxEdits       \* bound: changes of the source tree

Places == Dirs \cup {Root}

ASSUME DevLoopAssumption ==
    /\ Root \notin Dirs
    /\ NoDir \notin Places
    /\ RewalkBudget \in Nat \ {0}
    /\ ChanCap \in Nat \ {0}
    /\ Lossy \in BOOLEAN
    /\ MaxEdits \in Nat

VARIABLES
    dirs,         \* the subdirectories that exist
    disk,         \* the version of each directory's file
    edits,        \* changes so far, for MaxEdits
    early,        \* places not changed since the watcher attached to them
    watched,      \* the directories fsnotify has a watch on
    fresh,        \* ticks during which a new watch may miss events
    queue,        \* its events that the watcher has not read
    wpc,          \* where FileWatcher.Run is
    todo,         \* directories addDirectoryTree has still to add
    target,       \* the new directory that is being added, or NoDir
    watchedDirs,  \* Run's own record of what is watched
    recent,       \* recentlyAddedDirs: re-walks left
    pending,      \* places with a change that was not emitted
    armed,        \* the debounce timer is running
    queued,       \* events in changeEvents
    dirty,        \* the flag "an event was dropped"
    bpc,          \* where runBuildLoop is
    unread,       \* files the build has not read
    torn,         \* a directory was deleted under the running build
    built         \* the version of each file that the last build read

treeVars  == <<dirs, disk, edits, early>>
kernelVars == <<watched, fresh, queue>>
walkVars  == <<todo, target, watchedDirs, recent>>
flushVars == <<pending, armed>>
watchVars == <<wpc, walkVars, flushVars>>
linkVars  == <<queued, dirty>>
buildVars == <<bpc, unread, torn, built>>
vars == <<treeVars, kernelVars, watchVars, linkVars, buildVars>>

Event == [place : Places, created : BOOLEAN]

DevTypeOK ==
    /\ dirs \subseteq Dirs
    /\ disk \in [Places -> Nat]
    /\ edits \in Nat
    /\ early \in [Places -> BOOLEAN]
    /\ watched \subseteq Places
    /\ fresh \in [Dirs -> Nat]
    /\ queue \in Seq(Event)
    /\ wpc \in {"start", "attach", "loop", "drop", "failed"}
    /\ todo \subseteq Dirs
    /\ target \in Dirs \cup {NoDir}
    /\ watchedDirs \subseteq Places
    /\ recent \in [Dirs -> Nat]
    /\ pending \subseteq Places
    /\ armed \in BOOLEAN
    /\ queued \in Nat
    /\ dirty \in BOOLEAN
    /\ bpc \in {"building", "check", "rebuilding", "idle"}
    /\ unread \subseteq Places
    /\ torn \in BOOLEAN
    /\ built \in [Places -> Nat]

\* Watcher and build loop start together; the loop begins with a build.
DevInit ==
    /\ dirs \in SUBSET Dirs
    /\ disk = [p \in Places |-> IF p \in dirs \cup {Root} THEN 1 ELSE 0]
    /\ edits = 1
    /\ early = [p \in Places |-> TRUE]
    /\ watched = {} /\ queue = <<>>
    /\ fresh = [d \in Dirs |-> 0]
    /\ wpc = "start" /\ todo = {} /\ target = NoDir
    /\ watchedDirs = {}
    /\ recent = [d \in Dirs |-> 0]
    /\ pending = {} /\ armed = FALSE
    /\ queued = 0 /\ dirty = FALSE
    /\ bpc = "building" /\ unread = Places /\ torn = FALSE
    /\ built = [p \in Places |-> 0]

-----------------------------------------------------------------------------
(* The developer.                                                           *)

Happened(p, created) == [place |-> p, created |-> created]

\* An event that may be missing: what happens in a directory whose watch is new.
Delivered(evs, mayMiss) ==
    \/ queue' = queue \o evs
    \/ Lossy /\ mayMiss /\ UNCHANGED queue

Counted == edits < MaxEdits /\ edits' = edits + 1

\* early is bookkeeping: the initial walk comes to p only after this change.
Changed(p) ==
    /\ Counted
    /\ early' = [early EXCEPT ![p] = wpc = "start" \/ (target = NoDir /\ p \in todo)]

\* A file is written, or created.
Write(p) ==
    /\ p \in dirs \cup {Root}
    /\ Changed(p)
    /\ disk' = [disk EXCEPT ![p] = edits + 1]
    /\ Delivered(IF p \in watched THEN <<Happened(p, FALSE)>> ELSE <<>>,
                 p \in Dirs /\ fresh[p] > 0)
    /\ UNCHANGED <<dirs, watched, fresh, watchVars, linkVars, buildVars>>

MakeDir(d) ==
    /\ d \in Dirs \ dirs
    /\ Counted
    /\ dirs' = dirs \cup {d}
    /\ Delivered(IF Root \in watched THEN <<Happened(d, TRUE)>> ELSE <<>>, TRUE)
    /\ UNCHANGED <<disk, early, watched, fresh, watchVars, linkVars, buildVars>>

\* The directory goes with its file.  The kernel drops the watch on it.
RemoveDir(d) ==
    /\ d \in dirs
    /\ Changed(d)
    /\ dirs' = dirs \ {d}
    /\ disk' = [disk EXCEPT ![d] = 0]
    /\ watched' = watched \ {d}
    /\ queue' = IF Root \in watched THEN Append(queue, Happened(d, FALSE)) ELSE queue
    /\ torn' = (torn \/ bpc \in {"building", "rebuilding"})
    /\ UNCHANGED <<fresh, watchVars, linkVars, bpc, unread, built>>

-----------------------------------------------------------------------------
(* FileWatcher.Run.                                                         *)

\* The walk that adds a watch on every directory begins with the root, and
\* lists it.
AttachRoot ==
    /\ wpc = "start"
    /\ watched' = {Root}
    /\ watchedDirs' = {Root}
    /\ todo' = dirs
    /\ wpc' = "attach"
    /\ UNCHANGED <<treeVars, fresh, queue, target, recent, flushVars, linkVars, buildVars>>

\* Add.  The watch on a directory that is new may miss events for a while.
Watch(new) ==
    /\ watched' = watched \cup new
    /\ fresh' = [d \in Dirs |-> IF d \in new /\ target # NoDir THEN RewalkBudget ELSE fresh[d]]

\* addDirectoryTree: what is on record is skipped, and a directory that is gone
\* by now is an error, with which Run ends and the dev server too.
AttachDir(d) ==
    /\ wpc = "attach"
    /\ d \in todo
    /\ \/ /\ d \in dirs
          /\ todo' = todo \ {d}
          /\ watchedDirs' = watchedDirs \cup {d}
          /\ IF d \in watchedDirs THEN UNCHANGED <<watched, fresh>> ELSE Watch({d})
          /\ UNCHANGED wpc
       \/ /\ d \notin dirs
          /\ wpc' = "failed"
          /\ UNCHANGED <<todo, watched, fresh, watchedDirs>>
    /\ UNCHANGED <<treeVars, queue, target, recent, flushVars, linkVars, buildVars>>

\* The initial walk is over.
Ready ==
    /\ wpc = "attach" /\ todo = {} /\ target = NoDir
    /\ wpc' = "loop"
    /\ UNCHANGED <<treeVars, kernelVars, walkVars, flushVars, linkVars, buildVars>>

Exists(d) == d \in dirs /\ disk[d] > 0

\* Wrong variant: the new directory is looked at once.
SynthesizeOnce ==
    /\ wpc = "attach" /\ todo = {} /\ target # NoDir
    /\ pending' = IF Exists(target) THEN pending \cup {target} ELSE pending
    /\ target' = NoDir
    /\ armed' = TRUE
    /\ wpc' = "loop"
    /\ UNCHANGED <<treeVars, kernelVars, todo, watchedDirs, recent, linkVars, buildVars>>

\* synthesizeExistingChildren, after the new directory has its watch.
SynthesizeChildren ==
    /\ wpc = "attach" /\ todo = {} /\ target # NoDir
    /\ pending' = IF Exists(target) THEN pending \cup {target} ELSE pending
    /\ recent' = [recent EXCEPT ![target] = RewalkBudget]
    /\ target' = NoDir
    /\ armed' = TRUE
    /\ wpc' = "loop"
    /\ UNCHANGED <<treeVars, kernelVars, todo, watchedDirs, linkVars, buildVars>>

\* An event: its path is pending; a new directory that is still there is added.
HandleEvent ==
    LET e == Head(queue)
    IN  /\ wpc = "loop"
        /\ queue # <<>>
        /\ queue' = Tail(queue)
        /\ pending' = pending \cup {e.place}
        /\ \/ /\ e.created /\ e.place \in dirs
              /\ wpc' = "attach"
              /\ todo' = {e.place}
              /\ target' = e.place
              /\ UNCHANGED armed
           \/ /\ ~(e.created /\ e.place \in dirs)
              /\ armed' = TRUE
              /\ UNCHANGED <<wpc, todo, target>>
        /\ UNCHANGED <<treeVars, watched, fresh, watchedDirs, recent, linkVars, buildVars>>

\* One tick later.
Older(f) == [d \in Dirs |-> IF f[d] > 0 THEN f[d] - 1 ELSE 0]

\* Wrong variant: the re-walks never end.
SyncTreeForever ==
    LET found == dirs \ watchedDirs
        walks == [d \in Dirs |-> IF d \in found THEN RewalkBudget ELSE recent[d]]
        seen  == {d \in Dirs : walks[d] > 0 /\ Exists(d)}
    IN  /\ wpc = "loop"
        /\ watched' = watched \cup found
        /\ fresh' = Older([d \in Dirs |-> IF d \in found THEN RewalkBudget ELSE fresh[d]])
        /\ watchedDirs' = watchedDirs \cup found
        /\ recent' = walks
        /\ pending' = pending \cup seen
        /\ armed' = (armed \/ pending' # pending)
        /\ UNCHANGED <<treeVars, queue, wpc, todo, target, linkVars, buildVars>>

\* The tree-sync tick.  It is one step here: a file that is written between the
\* new watch and the walk has an event as well.
SyncTree ==
    LET found == dirs \ watchedDirs
        walks == [d \in Dirs |-> IF d \in found THEN RewalkBudget ELSE recent[d]]
        seen  == {d \in Dirs : walks[d] > 0 /\ Exists(d)}
    IN  /\ wpc = "loop"
        /\ watched' = watched \cup found
        /\ fresh' = Older([d \in Dirs |-> IF d \in found THEN RewalkBudget ELSE fresh[d]])
        /\ watchedDirs' = watchedDirs \cup found
        /\ recent' = Older(walks)
        /\ pending' = pending \cup seen
        /\ armed' = (armed \/ pending' # pending)
        /\ UNCHANGED <<treeVars, queue, wpc, todo, target, linkVars, buildVars>>

\* Wrong variant: events are dropped whenever a build is running.
FlushWhenIdle ==
    /\ wpc = "loop"
    /\ armed
    /\ armed' = FALSE
    /\ pending' = {}
    /\ IF pending = {} \/ bpc # "idle" THEN UNCHANGED queued ELSE queued' = queued + 1
    /\ UNCHANGED <<treeVars, kernelVars, wpc, walkVars, dirty, buildVars>>

\* The debounce timer fires: what is pending is emitted as one event, or dropped
\* when the channel is full.
Flush ==
    /\ wpc = "loop"
    /\ armed
    /\ armed' = FALSE
    /\ pending' = {}
    /\ IF pending = {} THEN UNCHANGED <<queued, wpc>>
       ELSE IF queued < ChanCap THEN queued' = queued + 1 /\ UNCHANGED wpc
       ELSE wpc' = "drop" /\ UNCHANGED queued
    /\ UNCHANGED <<treeVars, kernelVars, walkVars, dirty, buildVars>>

StoreDirty ==
    /\ wpc = "drop"
    /\ dirty' = TRUE
    /\ wpc' = "loop"
    /\ UNCHANGED <<treeVars, kernelVars, walkVars, flushVars, queued, buildVars>>

\* An error of fsnotify (its queue overflowed): Run returns it.
WatchError ==
    /\ wpc = "loop"
    /\ wpc' = "failed"
    /\ UNCHANGED <<treeVars, kernelVars, walkVars, flushVars, linkVars, buildVars>>

-----------------------------------------------------------------------------
(* runBuildLoop.                                                            *)

StartBuild(pc) == bpc' = pc /\ unread' = Places /\ torn' = FALSE /\ UNCHANGED built

TakeEvent ==
    /\ bpc = "idle"
    /\ queued > 0
    /\ queued' = queued - 1
    /\ StartBuild("building")
    /\ UNCHANGED <<treeVars, kernelVars, watchVars, dirty>>

ReadSource(p) ==
    /\ bpc \in {"building", "rebuilding"}
    /\ p \in unread
    /\ unread' = unread \ {p}
    /\ built' = [built EXCEPT ![p] = disk[p]]
    /\ UNCHANGED <<treeVars, kernelVars, watchVars, linkVars, bpc, torn>>

\* After a build that took the dropped-events flag, no flag is looked at.
EndBuild == bpc' = IF bpc = "building" THEN "check" ELSE "idle"

BuildDone ==
    /\ bpc \in {"building", "rebuilding"}
    /\ unread = {}
    /\ EndBuild
    /\ UNCHANGED <<treeVars, kernelVars, watchVars, linkVars, unread, torn, built>>

\* A directory that disappears while Build walks the sources fails the build.
BuildAborts ==
    /\ bpc \in {"building", "rebuilding"}
    /\ torn
    /\ EndBuild
    /\ unread' = {}
    /\ UNCHANGED <<treeVars, kernelVars, watchVars, linkVars, torn, built>>

\* dirty.CompareAndSwap(true, false)
CheckDirty ==
    /\ bpc = "check"
    /\ \/ /\ dirty
          /\ dirty' = FALSE
          /\ StartBuild("rebuilding")
       \/ /\ ~dirty
          /\ bpc' = "idle"
          /\ UNCHANGED <<dirty, unread, torn, built>>
    /\ UNCHANGED <<treeVars, kernelVars, watchVars, queued>>

-----------------------------------------------------------------------------
Editing == \/ \E p \in Places : Write(p)
           \/ \E d \in Dirs : MakeDir(d) \/ RemoveDir(d)

Attaching == AttachRoot \/ (\E d \in Dirs : AttachDir(d)) \/ Ready \/ SynthesizeChildren

Building == TakeEvent \/ (\E p \in Places : ReadSource(p)) \/ BuildDone \/ CheckDirty

DevNext == \/ Editing
           \/ Attaching \/ HandleEvent \/ SyncTree \/ Flush \/ StoreDirty \/ WatchError
           \/ Building \/ BuildAborts

DevSpec == DevInit /\ [][DevNext]_vars

\* Go chooses among the ready cases of a select at random, so none is put off
\* for ever; ticker and timer keep running; builds end.
DevFairness == /\ WF_vars(Attaching) /\ WF_vars(HandleEvent) /\ WF_vars(SyncTree)
               /\ WF_vars(Flush) /\ WF_vars(StoreDirty) /\ WF_vars(Building)

DevFairSpec == DevSpec /\ DevFairness

-----------------------------------------------------------------------------
\* On record as watched, but without a watch: deleted, and created again.
Stale(p) == p \in dirs /\ p \in watchedDirs \ watched

\* Something that makes a build read p again is under way.
Coming(p) ==
    \/ queue # <<>>
    \/ pending # {}
    \/ queued > 0
    \/ bpc \in {"building", "rebuilding"} /\ p \in unread
    \/ p \in dirs \ watchedDirs
    \/ p \in Dirs /\ recent[p] > 0
    \/ target = p

\* No change is forgotten: a file that differs from what the last build read has
\* an event, a re-walk or a build on its way, also when events were dropped, a
\* build ran into a deleted directory, or the events of a new directory were
\* lost.  Excepted are changes made before the watcher was attached, and
\* directories that were deleted and created again.
NoChangeForgotten ==
    wpc # "failed" =>
        \A p \in Places : \/ built[p] = disk[p]
                          \/ early[p]
                          \/ Stale(p)
                          \/ Coming(p)

\* Every change is built: the liveness side of NoChangeForgotten.
EveryChangeIsBuilt ==
    \A p \in Places :
        built[p] # disk[p] ~> \/ built[p] = disk[p]
                              \/ early[p] \/ Stale(p) \/ wpc = "failed"

\* When the developer stops, the builds stop: neither the re-walks nor the
\* dropped-events flag keep the loop going.
BuildsSettle == <>[](bpc = "idle" /\ queued = 0)

\* "Watch all directories under the configured extension source root.  When a
\* new directory is created, add a watcher for that subtree immediately."
\* (docs/adr/005-file-watching-strategy.md:11-12)  A directory that is deleted
\* and created again is still on record and gets no watch.
NewDirectoriesAreWatched ==
    wpc = "loop" /\ queue = <<>> => dirs \subseteq watched
=============================================================================
