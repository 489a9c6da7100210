-------------------------- MODULE DevSession_proofs --------------------------
(* Proofs about browser sessions over their lock file, for any callers and   *)
(* with a doctor that removes lock files: the lock's invariant still holds,  *)
(* who drives a browser holds the lock, and only a removed lock file lets    *)
(* two sessions drive one.                                                   *)
EXTENDS DevSession, FileLock_proofs

SessionInv == IInv /\ SessionTypeOK /\ DriversHoldLock

USE DEF Holds

LEMMA SessionInitInv == SessionInit => SessionInv
<1> SUFFICES ASSUME SessionInit PROVE SessionInv
  OBVIOUS
<1>1. IInv /\ LockTypeOK
  BY InitIInv DEF SessionInit, IInv
<1>2. session \in [Procs -> States]
  BY DEF SessionInit, States
<1> QED BY <1>1, <1>2 DEF SessionInv, SessionTypeOK, DriversHoldLock, SessionInit

\* A step of one caller at the lock moves no other caller.
LEMMA OthersStay ==
    ASSUME LockTypeOK, NEW p \in Procs, LockStep(p)
    PROVE  \A q \in Procs : q # p => pc'[q] = pc[q]
<1>1. \A l : Goto(p, l) => \A q \in Procs : q # p => pc'[q] = pc[q]
  BY DEF Goto, LockTypeOK
<1> QED BY <1>1, Zenon DEF LockStep, AcquireOpen, AcquireLock, AcquireRefused, WriteInfo,
             ReleaseUnlock, Unlink, SweepOpen, SweepLock, SweepUnlock,
             ProbeOpen, ProbeLock, ProbeDone, Die

\* The doctor's removal is one more unlink for the lock file: it takes no lock
\* away, and what it can break is what raced records.
LEMMA DoctorKeepsIInv == IInv /\ DoctorRemovesLocks => IInv'
<1> SUFFICES ASSUME IInv, DoctorRemovesLocks PROVE IInv'
  OBVIOUS
<1> USE DEF DoctorRemovesLocks, IInv
<1>1. LockTypeOK'
  BY DEF LockTypeOK
<1>2. OpenMeansOpen' /\ LocksHaveOwners' /\ OwnersHaveLocks' /\ HoldersAreNamed'
  BY DEF OpenMeansOpen, LocksHaveOwners, OwnersHaveLocks, HoldersAreNamed
<1>3. OpenIsLinked'
  BY DEF OpenIsLinked
<1> QED BY <1>1, <1>2, <1>3

\* Each step of a session is one of the lock's, or leaves the lock alone.
LEMMA SessionStepOnLock ==
    ASSUME NEW p \in Procs, SessionStep(p)
    PROVE  LockStep(p) \/ UNCHANGED vars
BY Zenon DEF SessionStep, New, LaunchAcquires, LaunchTakesLock, LaunchRefused, LaunchLocked,
       LaunchFails, LaunchStarts, Terminate, TerminateUnlinks, SessionDies,
       BrowserExits, Bystander, LockStep

LEMMA SameLockSameIInv == IInv /\ UNCHANGED vars => IInv'
BY DEF vars, IInv, LockTypeOK, OpenMeansOpen, LocksHaveOwners,
       OwnersHaveLocks, HoldersAreNamed, OpenIsLinked

\* What a step does to its own caller's session and place at the lock.
LEMMA SessionStepKeeps ==
    ASSUME SessionInv, NEW p \in Procs, SessionStep(p)
    PROVE  /\ session' \in [Procs -> States]
           /\ driven' \subseteq Procs
           /\ \A q \in Procs : q # p => session'[q] = session[q] /\ (q \in driven' <=> q \in driven)
           /\ p \in driven' => session'[p] = "active"
           /\ session'[p] \in {"launching", "active"} => pc'[p] = "held"
<1> USE DEF SessionInv, SessionTypeOK, LockTypeOK, DriversHoldLock
<1> DEFINE Goal == /\ session' \in [Procs -> States]
                   /\ driven' \subseteq Procs
                   /\ \A q \in Procs : q # p => session'[q] = session[q] /\ (q \in driven' <=> q \in driven)
                   /\ p \in driven' => session'[p] = "active"
                   /\ session'[p] \in {"launching", "active"} => pc'[p] = "held"
<1>1. CASE New(p)
  BY <1>1 DEF New, Enter, States, vars
<1>2. CASE LaunchAcquires(p)
  BY <1>2 DEF LaunchAcquires, AcquireOpen, Goto, svars
<1>3. CASE LaunchTakesLock(p)
  BY <1>3 DEF LaunchTakesLock, AcquireLock, Goto, svars
<1>4. CASE LaunchRefused(p)
  BY <1>4 DEF LaunchRefused, AcquireRefused, Goto, Enter, States
<1>5. CASE LaunchLocked(p)
  BY <1>5 DEF LaunchLocked, WriteInfo, Goto, Enter, States
<1>6. CASE LaunchFails(p)
  BY <1>6 DEF LaunchFails, Enter, States, vars
<1>7. CASE LaunchStarts(p)
  BY <1>7 DEF LaunchStarts, Enter, States, vars
<1>8. CASE Terminate(p)
  BY <1>8 DEF Terminate, Enter, States
<1>9. CASE TerminateUnlinks(p)
  BY <1>9 DEF TerminateUnlinks, Unlink, Goto, svars
<1>10. CASE SessionDies(p)
  BY <1>10 DEF SessionDies, Enter, States
<1>11. CASE BrowserExits(p)
  BY <1>11 DEF BrowserExits, vars
<1>12. CASE Bystander(p)
  <2>1. pc[p] # "held"
    BY <1>12 DEF Bystander, SweepOpen, SweepLock, SweepUnlock, ProbeOpen, ProbeLock, ProbeDone
  <2> QED BY <1>12, <2>1 DEF Bystander, svars
<1> QED BY <1>1, <1>2, <1>3, <1>4, <1>5, <1>6, <1>7, <1>8, <1>9, <1>10, <1>11, <1>12
        DEF SessionStep

LEMMA SessionNextInv == SessionInv /\ [SessionNext]_<<vars, svars>> => SessionInv'
<1> SUFFICES ASSUME SessionInv, [SessionNext]_<<vars, svars>> PROVE SessionInv'
  OBVIOUS
<1>1. CASE DoctorRemovesLocks
  <2>1. IInv' /\ LockTypeOK'
    BY <1>1, DoctorKeepsIInv DEF SessionInv, IInv
  <2> QED BY <1>1, <2>1 DEF SessionInv, SessionTypeOK, DriversHoldLock, DoctorRemovesLocks, svars
<1>2. ASSUME NEW p \in Procs, SessionStep(p) PROVE SessionInv'
  <2>1. IInv' /\ LockTypeOK'
    BY <1>2, SessionStepOnLock, StepIInv, SameLockSameIInv DEF SessionInv, IInv
  <2>2. \A q \in Procs : q # p => pc'[q] = pc[q]
    BY <1>2, SessionStepOnLock, OthersStay DEF SessionInv, IInv, vars
  <2>3. /\ session' \in [Procs -> States]
        /\ driven' \subseteq Procs
        /\ \A q \in Procs : q # p => session'[q] = session[q] /\ (q \in driven' <=> q \in driven)
        /\ p \in driven' => session'[p] = "active"
        /\ session'[p] \in {"launching", "active"} => pc'[p] = "held"
    BY <1>2, SessionStepKeeps
  <2>4. DriversHoldLock'
    BY <2>2, <2>3 DEF SessionInv, DriversHoldLock
  <2> QED BY <2>1, <2>3, <2>4 DEF SessionInv, SessionTypeOK
<1>3. CASE UNCHANGED <<vars, svars>>
  <2>1. IInv' /\ LockTypeOK'
    BY <1>3, SameLockSameIInv DEF SessionInv, IInv
  <2> QED BY <1>3, <2>1 DEF SessionInv, SessionTypeOK, DriversHoldLock, svars, vars
<1> QED BY <1>1, <1>2, <1>3 DEF SessionNext

LEMMA SessionInvHolds == SessionSpec => []SessionInv
BY SessionInitInv, SessionNextInv, PTL DEF SessionSpec

\* With sessions, sweeps and a doctor at one lock file, whatever fails and
\* whoever dies, two sessions drive a browser only after a lock file was removed
\* from under its holder (session.go:139, doctor.go:277).
THEOREM OneBrowser == SessionSpec => []OneBrowserUnlessRaced
<1>1. SessionInv => OneBrowserUnlessRaced
  <2> SUFFICES ASSUME SessionInv, ~raced, NEW p \in driven, NEW q \in driven
               PROVE  p = q
    BY DEF OneBrowserUnlessRaced
  <2>1. p \in Procs /\ q \in Procs /\ Holds(p) /\ Holds(q)
    BY DEF SessionInv, SessionTypeOK, DriversHoldLock
  <2>2. fd[p] = path /\ fd[q] = path
    BY <2>1 DEF SessionInv, IInv, OpenIsLinked
  <2>3. ex[path] = p /\ ex[path] = q
    BY <2>1, <2>2 DEF SessionInv, IInv, OwnersHaveLocks
  <2> QED BY <2>3
<1> QED BY SessionInvHolds, <1>1, PTL

\* The lock's own promise, with the doctor's removal among the steps.
THEOREM ExclusionWithDoctor == SessionSpec => []ExclusionUnlessRaced
<1>1. SessionInv => ExclusionUnlessRaced
  <2> SUFFICES ASSUME SessionInv, ~raced, NEW p \in Procs, NEW q \in Procs,
                      Holds(p), Holds(q)
               PROVE  p = q
    BY DEF ExclusionUnlessRaced
  <2>1. fd[p] = path /\ fd[q] = path
    BY DEF SessionInv, IInv, OpenIsLinked
  <2>2. ex[path] = p /\ ex[path] = q
    BY <2>1 DEF SessionInv, IInv, OwnersHaveLocks
  <2> QED BY <2>2
<1> QED BY SessionInvHolds, <1>1, PTL
==============================================================================
