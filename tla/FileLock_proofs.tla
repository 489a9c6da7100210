--------------------------- MODULE FileLock_proofs ---------------------------
(* The lock file, for any set of callers: what holds, and up to which race. *)
EXTENDS FileLock, TLAPS

\* A caller has a file open exactly between its open and its close.
OpenMeansOpen ==
    \A p \in Procs : fd[p] = NoInode <=> pc[p] \in {"idle", "unlink"}

\* A caller that was told it has the lock has it.
OwnersHaveLocks ==
    \A p \in Procs : /\ pc[p] \in {"locked", "held", "sweeping"} => ex[fd[p]] = p
                     /\ pc[p] = "probing" => p \in shared[fd[p]]

\* Without the race, who wants or has the lock looks at the file at the path.
OpenIsLinked ==
    ~raced => \A p \in Procs : pc[p] \in {"opened", "locked", "held"} => fd[p] = path

IInv == /\ LockTypeOK
        /\ OpenMeansOpen
        /\ LocksHaveOwners
        /\ OwnersHaveLocks
        /\ HoldersAreNamed
        /\ OpenIsLinked

USE LockAssumption DEF Holds

-----------------------------------------------------------------------------
LEMMA InitIInv == LockInit => IInv
  BY DEF LockInit, IInv, LockTypeOK, PCs, OpenMeansOpen, LocksHaveOwners,
         OwnersHaveLocks, HoldersAreNamed, OpenIsLinked

LEMMA StepIInv == ASSUME IInv, NEW p \in Procs, LockStep(p) PROVE IInv'
<1> USE DEF IInv
<1>1. CASE AcquireOpen(p)
  <2>1. LockTypeOK'
    BY <1>1 DEF AcquireOpen, Goto, Free, LockTypeOK, PCs
  <2>2. OpenMeansOpen'
    BY <1>1 DEF AcquireOpen, Goto, Free, OpenMeansOpen, LockTypeOK, PCs
  <2>3. LocksHaveOwners'
    BY <1>1 DEF AcquireOpen, Goto, Free, LocksHaveOwners, OwnersHaveLocks, OpenMeansOpen, LockTypeOK, PCs
  <2>4. OwnersHaveLocks'
    BY <1>1 DEF AcquireOpen, Goto, Free, OwnersHaveLocks, LocksHaveOwners, OpenMeansOpen, LockTypeOK, PCs
  <2>5. HoldersAreNamed'
    BY <1>1 DEF AcquireOpen, Goto, Free, HoldersAreNamed, OwnersHaveLocks, OpenMeansOpen, LockTypeOK, PCs
  <2>6. OpenIsLinked'
    BY <1>1 DEF AcquireOpen, Goto, Free, OpenIsLinked, OpenMeansOpen, LockTypeOK, PCs
  <2> QED BY <2>1, <2>2, <2>3, <2>4, <2>5, <2>6
<1>2. CASE AcquireLock(p)
  <2>1. LockTypeOK'
    BY <1>2 DEF AcquireLock, Goto, Lockable, LockTypeOK, PCs
  <2>2. OpenMeansOpen'
    BY <1>2 DEF AcquireLock, Goto, Lockable, OpenMeansOpen, LockTypeOK, PCs
  <2>3. LocksHaveOwners'
    BY <1>2 DEF AcquireLock, Goto, Lockable, LocksHaveOwners, OwnersHaveLocks, OpenMeansOpen, LockTypeOK, PCs
  <2>4. OwnersHaveLocks'
    BY <1>2 DEF AcquireLock, Goto, Lockable, OwnersHaveLocks, LocksHaveOwners, OpenMeansOpen, LockTypeOK, PCs
  <2>5. HoldersAreNamed'
    BY <1>2 DEF AcquireLock, Goto, Lockable, HoldersAreNamed, OwnersHaveLocks, OpenMeansOpen, LockTypeOK, PCs
  <2>6. OpenIsLinked'
    BY <1>2 DEF AcquireLock, Goto, Lockable, OpenIsLinked, OpenMeansOpen, LockTypeOK, PCs
  <2> QED BY <2>1, <2>2, <2>3, <2>4, <2>5, <2>6
<1>3. CASE AcquireRefused(p)
  <2>1. LockTypeOK'
    BY <1>3 DEF AcquireRefused, Goto, Close, LockTypeOK, PCs
  <2>2. OpenMeansOpen'
    BY <1>3 DEF AcquireRefused, Goto, Close, OpenMeansOpen, LockTypeOK, PCs
  <2>3. LocksHaveOwners'
    BY <1>3 DEF AcquireRefused, Goto, Close, LocksHaveOwners, OwnersHaveLocks, OpenMeansOpen, LockTypeOK, PCs
  <2>4. OwnersHaveLocks'
    BY <1>3 DEF AcquireRefused, Goto, Close, OwnersHaveLocks, LocksHaveOwners, OpenMeansOpen, LockTypeOK, PCs
  <2>5. HoldersAreNamed'
    BY <1>3 DEF AcquireRefused, Goto, Close, HoldersAreNamed, OwnersHaveLocks, OpenMeansOpen, LockTypeOK, PCs
  <2>6. OpenIsLinked'
    BY <1>3 DEF AcquireRefused, Goto, Close, OpenIsLinked, OpenMeansOpen, LockTypeOK, PCs
  <2> QED BY <2>1, <2>2, <2>3, <2>4, <2>5, <2>6
<1>4. CASE WriteInfo(p)
  <2>1. LockTypeOK'
    <3> PICK who \in {p, Nobody} : info' = [info EXCEPT ![fd[p]] = who]
      BY <1>4 DEF WriteInfo
    <3> QED BY <1>4 DEF WriteInfo, Goto, LockTypeOK, PCs
  <2>2. OpenMeansOpen'
    BY <1>4 DEF WriteInfo, Goto, OpenMeansOpen, LockTypeOK, PCs
  <2>3. LocksHaveOwners'
    BY <1>4 DEF WriteInfo, Goto, LocksHaveOwners, OwnersHaveLocks, OpenMeansOpen, LockTypeOK, PCs
  <2>4. OwnersHaveLocks'
    BY <1>4 DEF WriteInfo, Goto, OwnersHaveLocks, LocksHaveOwners, OpenMeansOpen, LockTypeOK, PCs
  <2>5. HoldersAreNamed'
    BY <1>4 DEF WriteInfo, Goto, HoldersAreNamed, OwnersHaveLocks, OpenMeansOpen, LockTypeOK, PCs
  <2>6. OpenIsLinked'
    BY <1>4 DEF WriteInfo, Goto, OpenIsLinked, OpenMeansOpen, LockTypeOK, PCs
  <2> QED BY <2>1, <2>2, <2>3, <2>4, <2>5, <2>6
<1>5. CASE ReleaseUnlock(p)
  <2>1. LockTypeOK'
    BY <1>5 DEF ReleaseUnlock, Goto, Close, LockTypeOK, PCs
  <2>2. OpenMeansOpen'
    BY <1>5 DEF ReleaseUnlock, Goto, Close, OpenMeansOpen, LockTypeOK, PCs
  <2>3. LocksHaveOwners'
    BY <1>5 DEF ReleaseUnlock, Goto, Close, LocksHaveOwners, OwnersHaveLocks, OpenMeansOpen, LockTypeOK, PCs
  <2>4. OwnersHaveLocks'
    BY <1>5 DEF ReleaseUnlock, Goto, Close, OwnersHaveLocks, LocksHaveOwners, OpenMeansOpen, LockTypeOK, PCs
  <2>5. HoldersAreNamed'
    BY <1>5 DEF ReleaseUnlock, Goto, Close, HoldersAreNamed, OwnersHaveLocks, OpenMeansOpen, LockTypeOK, PCs
  <2>6. OpenIsLinked'
    BY <1>5 DEF ReleaseUnlock, Goto, Close, OpenIsLinked, OpenMeansOpen, LockTypeOK, PCs
  <2> QED BY <2>1, <2>2, <2>3, <2>4, <2>5, <2>6
<1>6. CASE Unlink(p)
  <2>1. LockTypeOK'
    BY <1>6 DEF Unlink, Goto, LockTypeOK, PCs
  <2>2. OpenMeansOpen'
    BY <1>6 DEF Unlink, Goto, OpenMeansOpen, LockTypeOK, PCs
  <2>3. LocksHaveOwners'
    BY <1>6 DEF Unlink, Goto, LocksHaveOwners, OwnersHaveLocks, OpenMeansOpen, LockTypeOK, PCs
  <2>4. OwnersHaveLocks'
    BY <1>6 DEF Unlink, Goto, OwnersHaveLocks, LocksHaveOwners, OpenMeansOpen, LockTypeOK, PCs
  <2>5. HoldersAreNamed'
    BY <1>6 DEF Unlink, Goto, HoldersAreNamed, OwnersHaveLocks, OpenMeansOpen, LockTypeOK, PCs
  <2>6. OpenIsLinked'
    BY <1>6 DEF Unlink, Goto, OpenIsLinked, OpenMeansOpen, LockTypeOK, PCs
  <2> QED BY <2>1, <2>2, <2>3, <2>4, <2>5, <2>6
<1>7. CASE SweepOpen(p)
  <2>1. LockTypeOK'
    BY <1>7 DEF SweepOpen, Goto, LockTypeOK, PCs
  <2>2. OpenMeansOpen'
    BY <1>7 DEF SweepOpen, Goto, OpenMeansOpen, LockTypeOK, PCs
  <2>3. LocksHaveOwners'
    BY <1>7 DEF SweepOpen, Goto, LocksHaveOwners, OwnersHaveLocks, OpenMeansOpen, LockTypeOK, PCs
  <2>4. OwnersHaveLocks'
    BY <1>7 DEF SweepOpen, Goto, OwnersHaveLocks, LocksHaveOwners, OpenMeansOpen, LockTypeOK, PCs
  <2>5. HoldersAreNamed'
    BY <1>7 DEF SweepOpen, Goto, HoldersAreNamed, OwnersHaveLocks, OpenMeansOpen, LockTypeOK, PCs
  <2>6. OpenIsLinked'
    BY <1>7 DEF SweepOpen, Goto, OpenIsLinked, OpenMeansOpen, LockTypeOK, PCs
  <2> QED BY <2>1, <2>2, <2>3, <2>4, <2>5, <2>6
<1>8. CASE SweepLock(p)
  <2>1. LockTypeOK'
    BY <1>8 DEF SweepLock, Goto, Close, Lockable, LockTypeOK, PCs
  <2>2. OpenMeansOpen'
    BY <1>8 DEF SweepLock, Goto, Close, Lockable, OpenMeansOpen, LockTypeOK, PCs
  <2>3. LocksHaveOwners'
    BY <1>8 DEF SweepLock, Goto, Close, Lockable, LocksHaveOwners, OwnersHaveLocks, OpenMeansOpen, LockTypeOK, PCs
  <2>4. OwnersHaveLocks'
    BY <1>8 DEF SweepLock, Goto, Close, Lockable, OwnersHaveLocks, LocksHaveOwners, OpenMeansOpen, LockTypeOK, PCs
  <2>5. HoldersAreNamed'
    BY <1>8 DEF SweepLock, Goto, Close, Lockable, HoldersAreNamed, OwnersHaveLocks, OpenMeansOpen, LockTypeOK, PCs
  <2>6. OpenIsLinked'
    BY <1>8 DEF SweepLock, Goto, Close, Lockable, OpenIsLinked, OpenMeansOpen, LockTypeOK, PCs
  <2> QED BY <2>1, <2>2, <2>3, <2>4, <2>5, <2>6
<1>9. CASE SweepUnlock(p)
  <2>1. LockTypeOK'
    BY <1>9 DEF SweepUnlock, Goto, Close, LockTypeOK, PCs
  <2>2. OpenMeansOpen'
    BY <1>9 DEF SweepUnlock, Goto, Close, OpenMeansOpen, LockTypeOK, PCs
  <2>3. LocksHaveOwners'
    BY <1>9 DEF SweepUnlock, Goto, Close, LocksHaveOwners, OwnersHaveLocks, OpenMeansOpen, LockTypeOK, PCs
  <2>4. OwnersHaveLocks'
    BY <1>9 DEF SweepUnlock, Goto, Close, OwnersHaveLocks, LocksHaveOwners, OpenMeansOpen, LockTypeOK, PCs
  <2>5. HoldersAreNamed'
    BY <1>9 DEF SweepUnlock, Goto, Close, HoldersAreNamed, OwnersHaveLocks, OpenMeansOpen, LockTypeOK, PCs
  <2>6. OpenIsLinked'
    BY <1>9 DEF SweepUnlock, Goto, Close, OpenIsLinked, OpenMeansOpen, LockTypeOK, PCs
  <2> QED BY <2>1, <2>2, <2>3, <2>4, <2>5, <2>6
<1>10. CASE ProbeOpen(p)
  <2>1. LockTypeOK'
    BY <1>10 DEF ProbeOpen, Goto, LockTypeOK, PCs
  <2>2. OpenMeansOpen'
    BY <1>10 DEF ProbeOpen, Goto, OpenMeansOpen, LockTypeOK, PCs
  <2>3. LocksHaveOwners'
    BY <1>10 DEF ProbeOpen, Goto, LocksHaveOwners, OwnersHaveLocks, OpenMeansOpen, LockTypeOK, PCs
  <2>4. OwnersHaveLocks'
    BY <1>10 DEF ProbeOpen, Goto, OwnersHaveLocks, LocksHaveOwners, OpenMeansOpen, LockTypeOK, PCs
  <2>5. HoldersAreNamed'
    BY <1>10 DEF ProbeOpen, Goto, HoldersAreNamed, OwnersHaveLocks, OpenMeansOpen, LockTypeOK, PCs
  <2>6. OpenIsLinked'
    BY <1>10 DEF ProbeOpen, Goto, OpenIsLinked, OpenMeansOpen, LockTypeOK, PCs
  <2> QED BY <2>1, <2>2, <2>3, <2>4, <2>5, <2>6
<1>11. CASE ProbeLock(p)
  <2>1. LockTypeOK'
    BY <1>11 DEF ProbeLock, Goto, Close, Shareable, LockTypeOK, PCs
  <2>2. OpenMeansOpen'
    BY <1>11 DEF ProbeLock, Goto, Close, Shareable, OpenMeansOpen, LockTypeOK, PCs
  <2>3. LocksHaveOwners'
    BY <1>11 DEF ProbeLock, Goto, Close, Shareable, LocksHaveOwners, OwnersHaveLocks, OpenMeansOpen, LockTypeOK, PCs
  <2>4. OwnersHaveLocks'
    BY <1>11 DEF ProbeLock, Goto, Close, Shareable, OwnersHaveLocks, LocksHaveOwners, OpenMeansOpen, LockTypeOK, PCs
  <2>5. HoldersAreNamed'
    BY <1>11 DEF ProbeLock, Goto, Close, Shareable, HoldersAreNamed, OwnersHaveLocks, OpenMeansOpen, LockTypeOK, PCs
  <2>6. OpenIsLinked'
    BY <1>11 DEF ProbeLock, Goto, Close, Shareable, OpenIsLinked, OpenMeansOpen, LockTypeOK, PCs
  <2> QED BY <2>1, <2>2, <2>3, <2>4, <2>5, <2>6
<1>12. CASE ProbeDone(p)
  <2>1. LockTypeOK'
    BY <1>12 DEF ProbeDone, Goto, Close, LockTypeOK, PCs
  <2>2. OpenMeansOpen'
    BY <1>12 DEF ProbeDone, Goto, Close, OpenMeansOpen, LockTypeOK, PCs
  <2>3. LocksHaveOwners'
    BY <1>12 DEF ProbeDone, Goto, Close, LocksHaveOwners, OwnersHaveLocks, OpenMeansOpen, LockTypeOK, PCs
  <2>4. OwnersHaveLocks'
    BY <1>12 DEF ProbeDone, Goto, Close, OwnersHaveLocks, LocksHaveOwners, OpenMeansOpen, LockTypeOK, PCs
  <2>5. HoldersAreNamed'
    BY <1>12 DEF ProbeDone, Goto, Close, HoldersAreNamed, OwnersHaveLocks, OpenMeansOpen, LockTypeOK, PCs
  <2>6. OpenIsLinked'
    BY <1>12 DEF ProbeDone, Goto, Close, OpenIsLinked, OpenMeansOpen, LockTypeOK, PCs
  <2> QED BY <2>1, <2>2, <2>3, <2>4, <2>5, <2>6
<1>13. CASE Die(p)
  <2>1. LockTypeOK'
    BY <1>13 DEF Die, Goto, Close, LockTypeOK, PCs
  <2>2. OpenMeansOpen'
    BY <1>13 DEF Die, Goto, Close, OpenMeansOpen, LockTypeOK, PCs
  <2>3. LocksHaveOwners'
    BY <1>13 DEF Die, Goto, Close, LocksHaveOwners, OwnersHaveLocks, OpenMeansOpen, LockTypeOK, PCs
  <2>4. OwnersHaveLocks'
    BY <1>13 DEF Die, Goto, Close, OwnersHaveLocks, LocksHaveOwners, OpenMeansOpen, LockTypeOK, PCs
  <2>5. HoldersAreNamed'
    BY <1>13 DEF Die, Goto, Close, HoldersAreNamed, OwnersHaveLocks, OpenMeansOpen, LockTypeOK, PCs
  <2>6. OpenIsLinked'
    BY <1>13 DEF Die, Goto, Close, OpenIsLinked, OpenMeansOpen, LockTypeOK, PCs
  <2> QED BY <2>1, <2>2, <2>3, <2>4, <2>5, <2>6
<1> QED BY <1>1, <1>2, <1>3, <1>4, <1>5, <1>6, <1>7, <1>8, <1>9, <1>10, <1>11, <1>12, <1>13 DEF LockStep

-----------------------------------------------------------------------------
LEMMA SpecIInv == LockSpec => []IInv
<1>1. IInv /\ [LockNext]_vars => IInv'
  <2> SUFFICES ASSUME IInv, [LockNext]_vars PROVE IInv'
    OBVIOUS
  <2>1. CASE LockNext
    BY <2>1, StepIInv DEF LockNext
  <2>2. CASE UNCHANGED vars
    BY <2>2 DEF vars, IInv, LockTypeOK, OpenMeansOpen, LocksHaveOwners,
                OwnersHaveLocks, HoldersAreNamed, OpenIsLinked
  <2> QED BY <2>1, <2>2
<1> QED BY InitIInv, <1>1, PTL DEF LockSpec

\* Types, whatever the callers and the number of inodes.
THEOREM LockTypes == LockSpec => []LockTypeOK
<1>1. IInv => LockTypeOK
  BY DEF IInv
<1> QED BY SpecIInv, <1>1, PTL

\* No interleaving of refusals, releases, sweeps, probes and deaths leaves a lock
\* that no caller would drop: internal/lock never has to break a lock.
THEOREM LocksAreOwned == LockSpec => []LocksHaveOwners
<1>1. IInv => LocksHaveOwners
  BY DEF IInv
<1> QED BY SpecIInv, <1>1, PTL

\* The message of a refused Acquire blames whoever has the flock or nobody in
\* particular, but for the moment in which a new holder has not written yet, and
\* for sweeps (lock.go:64-86, 139-153).
THEOREM InfoIsTheHolders == LockSpec => []InfoNamesHolder
<1>1. IInv => InfoNamesHolder
  <2> SUFFICES ASSUME IInv, NEW i \in Inodes, ex[i] # Nobody, pc[ex[i]] \notin {"locked", "sweeping"}
               PROVE  info[i] \in {ex[i], Nobody}
    BY DEF InfoNamesHolder
  <2>1. ex[i] \in Procs /\ fd[ex[i]] = i /\ Holds(ex[i])
    BY DEF IInv, LockTypeOK, LocksHaveOwners, Holds
  <2> QED BY <2>1 DEF IInv, HoldersAreNamed
<1> QED BY SpecIInv, <1>1, PTL

\* As long as no unlink removed a file that another caller had open to lock it,
\* at most one caller holds the lock: the race MutualExclusion fails by is the
\* only one there is, for any number of callers.
THEOREM OnlyTheRaceBreaksExclusion == LockSpec => []ExclusionUnlessRaced
<1>1. IInv => ExclusionUnlessRaced
  <2> SUFFICES ASSUME IInv, ~raced, NEW p \in Procs, NEW q \in Procs,
                      Holds(p), Holds(q)
               PROVE  p = q
    BY DEF ExclusionUnlessRaced
  <2>1. fd[p] = path /\ fd[q] = path
    BY DEF IInv, OpenIsLinked
  <2>2. ex[path] = p /\ ex[path] = q
    BY <2>1 DEF IInv, OwnersHaveLocks
  <2> QED BY <2>2
<1> QED BY SpecIInv, <1>1, PTL
=============================================================================
