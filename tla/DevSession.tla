----------------------------- MODULE DevSession -----------------------------
(***************************************************************************)
(* The browser sessions of internal/session over their lock file, and the  *)
(* doctor that clears lock files away.                                     *)
(*                                                                         *)
(* Source: internal/session/session.go, internal/doctor/doctor.go.         *)
(*                                                                         *)
(* Each caller drives one session at a time.  A session's mutex makes its  *)
(* Launch and Terminate exclude each other; sessions of different callers  *)
(* meet at the lock file only, which FileLock follows system call by       *)
(* system call.  A browser outlives its session's process; from then on no *)
(* session drives it, and it is not followed further.                      *)
(* A session that was made without a lock manager launches without a lock; *)
(* internal/cli and internal/mcp, which make the sessions there are, each  *)
(* give it one, so no Launcher is without.                                 *)
(***************************************************************************)
EXTENDS FileLock

CONSTANT Launchers   \* the callers that run sessions

ASSUME SessionAssumption == Launchers \subseteq Procs

VARIABLES
    session,   \* the state of each caller's session; "none" before the first
    driven     \* the sessions whose browser runs

svars == <<session, driven>>

States == {"none", "provisioned", "launching", "active", "terminated", "failed"}

SessionTypeOK ==
    /\ LockTypeOK
    /\ session \in [Procs -> States]
    /\ driven \subseteq Procs

SessionInit ==
    /\ LockInit
    /\ session = [p \in Procs |-> "none"]
    /\ driven = {}

Enter(p, s) == session' = [session EXCEPT ![p] = s]

New(p) ==
    /\ p \in Launchers
    /\ pc[p] = "idle"
    /\ session[p] \in {"none", "failed", "terminated"}
    /\ Enter(p, "provisioned")
    /\ UNCHANGED <<vars, driven>>

\* Launch: the lock first (every Launcher's session has a lock manager) ...
LaunchAcquires(p) ==
    /\ session[p] = "provisioned"
    /\ AcquireOpen(p)
    /\ UNCHANGED svars

LaunchTakesLock(p) == AcquireLock(p) /\ UNCHANGED svars

LaunchRefused(p) ==
    /\ AcquireRefused(p)
    /\ Enter(p, "failed")
    /\ UNCHANGED driven

LaunchLocked(p) ==
    /\ WriteInfo(p)
    /\ Enter(p, "launching")
    /\ UNCHANGED driven

\* ... then no adapter, no browser to be found, or none that starts: the lock is
\* kept, until Terminate ...
LaunchFails(p) ==
    /\ session[p] = "launching"
    /\ Enter(p, "failed")
    /\ UNCHANGED <<vars, driven>>

\* ... or a running browser.
LaunchStarts(p) ==
    /\ session[p] = "launching"
    /\ Enter(p, "active")
    /\ driven' = driven \cup {p}
    /\ UNCHANGED vars

\* Wrong variant: the lock is released before the browser is gone.
TerminateReleasesFirst(p) ==
    /\ session[p] \in {"provisioned", "active", "failed"}
    /\ pc[p] \in {"idle", "held"}
    /\ IF Holds(p) THEN ReleaseUnlock(p) ELSE UNCHANGED vars
    /\ Enter(p, "terminated")
    /\ UNCHANGED driven

\* Terminate, from every state but terminated: the browser is killed and waited
\* for, then the lock is released if Launch took it.
Terminate(p) ==
    /\ session[p] \in {"provisioned", "active", "failed"}
    /\ pc[p] \in {"idle", "held"}
    /\ driven' = driven \ {p}
    /\ IF Holds(p) THEN ReleaseUnlock(p) ELSE UNCHANGED vars
    /\ Enter(p, "terminated")

TerminateUnlinks(p) == Unlink(p) /\ UNCHANGED svars

\* The session's process dies.
SessionDies(p) ==
    /\ Die(p)
    /\ Enter(p, "none")
    /\ driven' = driven \ {p}

BrowserExits(p) ==
    /\ p \in driven
    /\ driven' = driven \ {p}
    /\ UNCHANGED <<vars, session>>

\* The doctor's remove_stale_lock, when some lock file is older than an hour:
\* every lock file goes, whoever holds it.
DoctorRemovesLocks ==
    /\ path # NoInode
    /\ path' = NoInode
    /\ raced' = (raced \/ \E q \in Procs : /\ fd[q] = path
                                           /\ pc[q] \in {"opened", "locked", "held"})
    /\ UNCHANGED <<fd, ex, shared, info, pc, svars>>

Bystander(p) ==
    /\ \/ SweepOpen(p) \/ SweepLock(p) \/ SweepUnlock(p)
       \/ ProbeOpen(p) \/ ProbeLock(p) \/ ProbeDone(p)
    /\ UNCHANGED svars

SessionStep(p) ==
    \/ New(p) \/ LaunchAcquires(p) \/ LaunchTakesLock(p) \/ LaunchRefused(p)
    \/ LaunchLocked(p) \/ LaunchFails(p) \/ LaunchStarts(p)
    \/ Terminate(p) \/ TerminateUnlinks(p)
    \/ SessionDies(p) \/ BrowserExits(p) \/ Bystander(p)

SessionNext == DoctorRemovesLocks \/ \E p \in Procs : SessionStep(p)
SessionSpec == SessionInit /\ [][SessionNext]_<<vars, svars>>

-----------------------------------------------------------------------------
\* Two sessions never drive a browser at the same time, unless a lock file was
\* removed from under its holder: a browser is started under the lock and killed
\* before the lock goes.
OneBrowserUnlessRaced ==
    ~raced => \A p, q \in driven : p = q

\* Why: who drives a browser holds the lock.
DriversHoldLock ==
    \A p \in Procs :
        /\ p \in driven => session[p] = "active"
        /\ session[p] \in {"launching", "active"} => Holds(p)
=============================================================================
