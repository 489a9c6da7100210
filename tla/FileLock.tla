------------------------------ MODULE FileLock ------------------------------
(***************************************************************************)
(* The lock files of internal/lock: `apply` and a dev session each take    *)
(* one.  The lock is an advisory flock on the file at a path, and the file *)
(* is removed on release, so what is locked is an inode, and the path may  *)
(* name another inode by then.                                             *)
(*                                                                         *)
(* Source: internal/lock/lock.go, process_unix.go.                         *)
(*                                                                         *)
(* The module follows one lock file.  A process here is a caller with its  *)
(* own open file description: a process, or a goroutine of one.  flock     *)
(* with LOCK_NB answers at once, is dropped when the description is closed *)
(* or the process dies, and knows nothing of the path.  An inode that is   *)
(* neither linked nor open is free and may be allocated again.             *)
(***************************************************************************)
EXTENDS Naturals

CONSTANTS
    Procs,      \* callers
    Inodes,     \* bound: as many inodes as callers and one more suffice
    Nobody,     \* no caller
    NoInode,    \* no file
    Sweepers,   \* the callers that run RecoverStale
    Probers     \* the callers that run IsHeld or StaleInfo

ASSUME LockAssumption ==
    /\ Nobody \notin Procs
    /\ NoInode \notin Inodes
    /\ Sweepers \subseteq Procs
    /\ Probers \subseteq Procs

VARIABLES
    path,    \* the inode the lock file's path names
    fd,      \* the inode each caller has open
    ex,      \* who holds LOCK_EX on an inode
    shared,  \* who holds LOCK_SH on it
    info,    \* the caller named in the inode's content
    pc,      \* where each caller is
    raced    \* an unlink has removed a file another caller had open to lock it

vars == <<path, fd, ex, shared, info, pc, raced>>

PCs == {"idle", "opened", "locked", "held", "found", "sweeping", "unlink",
        "peek", "probing"}

LockTypeOK ==
    /\ path \in Inodes \cup {NoInode}
    /\ fd \in [Procs -> Inodes \cup {NoInode}]
    /\ ex \in [Inodes -> Procs \cup {Nobody}]
    /\ shared \in [Inodes -> SUBSET Procs]
    /\ info \in [Inodes -> Procs \cup {Nobody}]
    /\ pc \in [Procs -> PCs]
    /\ raced \in BOOLEAN

LockInit ==
    /\ path = NoInode
    /\ fd = [p \in Procs |-> NoInode]
    /\ ex = [i \in Inodes |-> Nobody]
    /\ shared = [i \in Inodes |-> {}]
    /\ info = [i \in Inodes |-> Nobody]
    /\ pc = [p \in Procs |-> "idle"]
    /\ raced = FALSE

Goto(p, l) == pc' = [pc EXCEPT ![p] = l]

Free(i) == i # path /\ \A p \in Procs : fd[p] # i

\* flock(LOCK_EX | LOCK_NB) on the inode p has open succeeds; LOCK_SH likewise.
Lockable(p)  == ex[fd[p]] \in {Nobody, p} /\ shared[fd[p]] \subseteq {p}
Shareable(p) == ex[fd[p]] \in {Nobody, p}

\* Closing the description drops its locks, whatever they are.
Close(p) ==
    /\ fd' = [fd EXCEPT ![p] = NoInode]
    /\ ex' = [i \in Inodes |-> IF ex[i] = p THEN Nobody ELSE ex[i]]
    /\ shared' = [i \in Inodes |-> shared[i] \ {p}]

-----------------------------------------------------------------------------
(* Acquire: open or create, try the lock, write who holds it.               *)

AcquireOpen(p) ==
    /\ pc[p] = "idle"
    /\ \/ /\ path # NoInode
          /\ fd' = [fd EXCEPT ![p] = path]
          /\ UNCHANGED <<path, info>>
       \/ /\ path = NoInode
          /\ \E i \in Inodes : /\ Free(i)
                               /\ path' = i
                               /\ fd' = [fd EXCEPT ![p] = i]
                               /\ info' = [info EXCEPT ![i] = Nobody]
    /\ Goto(p, "opened")
    /\ UNCHANGED <<ex, shared, raced>>

\* Wrong variant: a shared lock is taken, as IsHeld does.
AcquireLockShared(p) ==
    /\ pc[p] = "opened"
    /\ Shareable(p)
    /\ shared' = [shared EXCEPT ![fd[p]] = @ \cup {p}]
    /\ Goto(p, "locked")
    /\ UNCHANGED <<path, fd, ex, info, raced>>

AcquireLock(p) ==
    /\ pc[p] = "opened"
    /\ Lockable(p)
    /\ ex' = [ex EXCEPT ![fd[p]] = p]
    /\ Goto(p, "locked")
    /\ UNCHANGED <<path, fd, shared, info, raced>>

\* Held by someone else: the content is read for the message, the file closed.
AcquireRefused(p) ==
    /\ pc[p] = "opened"
    /\ ~Lockable(p)
    /\ Close(p)
    /\ Goto(p, "idle")
    /\ UNCHANGED <<path, info, raced>>

\* Wrong variant: the content is written only into a new file.
WriteInfoOnce(p) ==
    /\ pc[p] = "locked"
    /\ info' = [info EXCEPT ![fd[p]] = IF @ = Nobody THEN p ELSE @]
    /\ Goto(p, "held")
    /\ UNCHANGED <<path, fd, ex, shared, raced>>

\* Truncate and write; the errors of both are ignored, and the truncation is
\* assumed to succeed.
WriteInfo(p) ==
    /\ pc[p] = "locked"
    /\ \E who \in {p, Nobody} : info' = [info EXCEPT ![fd[p]] = who]
    /\ Goto(p, "held")
    /\ UNCHANGED <<path, fd, ex, shared, raced>>

-----------------------------------------------------------------------------
(* Release, and the sweep of RecoverStale: unlock, close, then unlink       *)
(* whatever the path names by then.                                         *)

\* Wrong variant: the handle is not closed and the lock stays.
ReleaseKeepsLock(p) ==
    /\ pc[p] = "held"
    /\ Goto(p, "unlink")
    /\ UNCHANGED <<path, fd, ex, shared, info, raced>>

ReleaseUnlock(p) ==
    /\ pc[p] = "held"
    /\ Close(p)
    /\ Goto(p, "unlink")
    /\ UNCHANGED <<path, info, raced>>

SweepOpen(p) ==
    /\ p \in Sweepers
    /\ pc[p] = "idle"
    /\ path # NoInode
    /\ fd' = [fd EXCEPT ![p] = path]
    /\ Goto(p, "found")
    /\ UNCHANGED <<path, ex, shared, info, raced>>

SweepLock(p) ==
    /\ pc[p] = "found"
    /\ \/ /\ Lockable(p)
          /\ ex' = [ex EXCEPT ![fd[p]] = p]
          /\ Goto(p, "sweeping")
          /\ UNCHANGED <<fd, shared>>
       \/ /\ ~Lockable(p)
          /\ Close(p)
          /\ Goto(p, "idle")
    /\ UNCHANGED <<path, info, raced>>

SweepUnlock(p) ==
    /\ pc[p] = "sweeping"
    /\ Close(p)
    /\ Goto(p, "unlink")
    /\ UNCHANGED <<path, info, raced>>

\* os.Remove.  raced is bookkeeping: from now on some caller holds, or may yet
\* get, the lock of a file that the next Acquire will not find.
Unlink(p) ==
    /\ pc[p] = "unlink"
    /\ path' = NoInode
    /\ raced' = (raced \/ \E q \in Procs : /\ fd[q] = path
                                           /\ pc[q] \in {"opened", "locked", "held"})
    /\ Goto(p, "idle")
    /\ UNCHANGED <<fd, ex, shared, info>>

-----------------------------------------------------------------------------
(* IsHeld and StaleInfo: a shared lock that is dropped again.               *)

ProbeOpen(p) ==
    /\ p \in Probers
    /\ pc[p] = "idle"
    /\ path # NoInode
    /\ fd' = [fd EXCEPT ![p] = path]
    /\ Goto(p, "peek")
    /\ UNCHANGED <<path, ex, shared, info, raced>>

ProbeLock(p) ==
    /\ pc[p] = "peek"
    /\ \/ /\ Shareable(p)
          /\ shared' = [shared EXCEPT ![fd[p]] = @ \cup {p}]
          /\ Goto(p, "probing")
          /\ UNCHANGED <<fd, ex>>
       \/ /\ ~Shareable(p)
          /\ Close(p)
          /\ Goto(p, "idle")
    /\ UNCHANGED <<path, info, raced>>

ProbeDone(p) ==
    /\ pc[p] = "probing"
    /\ Close(p)
    /\ Goto(p, "idle")
    /\ UNCHANGED <<path, info, raced>>

\* The process dies, at any point: its locks go, the file stays.
Die(p) ==
    /\ pc[p] # "idle"
    /\ Close(p)
    /\ Goto(p, "idle")
    /\ UNCHANGED <<path, info, raced>>

-----------------------------------------------------------------------------
LockStep(p) ==
    \/ AcquireOpen(p) \/ AcquireLock(p) \/ AcquireRefused(p) \/ WriteInfo(p)
    \/ ReleaseUnlock(p) \/ Unlink(p)
    \/ SweepOpen(p) \/ SweepLock(p) \/ SweepUnlock(p)
    \/ ProbeOpen(p) \/ ProbeLock(p) \/ ProbeDone(p)
    \/ Die(p)

LockNext == \E p \in Procs : LockStep(p)
LockSpec == LockInit /\ [][LockNext]_vars

\* Acquire has returned a lock that was not released yet.
Holds(p) == pc[p] = "held"

-----------------------------------------------------------------------------
\* No lock without a caller to drop it: every error path, a release and a death
\* leave nothing locked, so no file ever has to be recovered by hand.
LocksHaveOwners ==
    \A i \in Inodes :
        /\ ex[i] # Nobody => /\ fd[ex[i]] = i
                             /\ pc[ex[i]] \in {"locked", "held", "sweeping"}
        /\ \A p \in shared[i] : fd[p] = i /\ pc[p] = "probing"
        /\ shared[i] # {} => ex[i] = Nobody

\* What a refused Acquire or IsHeld reads in a locked file names the caller that has
\* the flock, or nobody, with two exceptions: from its flock to its truncation
\* (lock.go:64-84) a new holder leaves the name of an earlier one there, dead or
\* on its way to unlink the file, and a sweep writes no name.
InfoNamesHolder ==
    \A i \in Inodes : ex[i] # Nobody =>
        info[i] \in {ex[i], Nobody} \/ pc[ex[i]] \in {"locked", "sweeping"}

\* Why: once Acquire has written, nobody else writes into the inode it holds.
HoldersAreNamed ==
    \A p \in Procs : Holds(p) => info[fd[p]] \in {p, Nobody}

\* Two callers hold the lock only after an unlink took the file away from under
\* a caller that had it open: that race is the only hole in the exclusion.
ExclusionUnlessRaced ==
    ~raced => \A p, q \in Procs : Holds(p) /\ Holds(q) => p = q

\* "Package lock provides file-based mutual exclusion for Panex operations"
\* (internal/lock/lock.go:1); docs/phase1-audit.md:28 lists "lock.Acquire has a
\* TOCTOU race" as fixed.  Release unlocks first and unlinks afterwards.
MutualExclusion ==
    \A p, q \in Procs : Holds(p) /\ Holds(q) => p = q
=============================================================================
