----------------------------- MODULE PlanApply ------------------------------
(***************************************************************************)
(* `panex plan` and `panex apply` (also as MCP tools): several processes   *)
(* of one project that compute a plan, write it to the plan file, and      *)
(* carry plans out under the project lock, with undo and a run record.     *)
(*                                                                         *)
(* Source: internal/plan/plan.go, actions.go, internal/ledger/ledger.go,   *)
(* internal/core/orchestrator.go, CmdPlan and CmdApply of internal/cli;    *)
(* over FileLock, which is the project lock.                               *)
(*                                                                         *)
(* The project's graph is a version number, which stands for its hash too. *)
(* A plan is the version it was computed from: it has one action for each  *)
(* target of that version, in the order of the targets' names, and the     *)
(* action of target t writes the manifest of t.  Which targets a version   *)
(* has is the developer's choice: the next one may have more, fewer or     *)
(* none.  One write to a file with its rename is one step; that two        *)
(* writers of a plan share a temporary file is not modelled.  A run's id   *)
(* is unique and carries nothing here.  Apply takes no lock when it is     *)
(* given no lock manager; its one caller, internal/core, gives it one.     *)
(***************************************************************************)
EXTENDS Naturals

CONSTANTS
    Procs, Inodes, Nobody, NoInode,   \* of FileLock
    Last,         \* number of targets there are adapters for
    Forces,       \* the values --force may have
    MaxEdits,     \* bound: versions of the project
    MaxRuns       \* bound: applies

Targets == 1..Last
Versions == 1..MaxEdits
NoVersion == 0     \* no plan, no manifest

ASSUME PlanAssumption ==
    /\ Nobody \notin Procs
    /\ NoInode \notin Inodes
    /\ Last \in Nat \ {0}
    /\ Forces \subseteq BOOLEAN
    /\ MaxEdits \in Nat \ {0}
    /\ MaxRuns \in Nat

VARIABLES
    path, fd, ex, shared, info, lockPc, raced,   \* of FileLock
    outputs,     \* the targets of each version, chosen at the start
    source,      \* the version of the project
    planFile,    \* the plan on disk, or NoVersion
    manifests,   \* the plan that wrote the manifest of each target, or NoVersion
    records,     \* the run records on disk
    work,        \* the command each process is running
    runs,        \* applies so far, for MaxRuns
    half,        \* the targets whose manifest a run left that had not succeeded
    lost         \* a run ended without its record

lockVars == <<path, fd, ex, shared, info, lockPc, raced>>
diskVars == <<planFile, manifests, records>>
vars == <<lockVars, outputs, source, diskVars, work, runs, half, lost>>

Lock == INSTANCE FileLock WITH pc <- lockPc, Sweepers <- {}, Probers <- {}

-----------------------------------------------------------------------------
(* The ledger.                                                              *)

Statuses == {"created", "planned", "running", "paused", "awaiting-policy",
             "rolling-back", "succeeded", "failed", "canceled", "expired"}
Terminal == {"succeeded", "failed", "canceled", "expired"}

\* Wrong variant: a run that has rolled back cannot fail any more.
AllowedBefore(s) ==
    CASE s = "created"      -> {"planned", "running", "failed", "canceled"}
      [] s = "planned"      -> {"running", "failed", "canceled"}
      [] s = "running"      -> {"succeeded", "failed", "paused", "awaiting-policy",
                                "rolling-back", "expired"}
      [] s \in {"paused", "awaiting-policy"} -> {"running", "failed", "canceled", "expired"}
      [] OTHER              -> {}

Allowed(s) ==
    CASE s = "created"      -> {"planned", "running", "failed", "canceled"}
      [] s = "planned"      -> {"running", "failed", "canceled"}
      [] s = "running"      -> {"succeeded", "failed", "paused", "awaiting-policy",
                                "rolling-back", "expired"}
      [] s \in {"paused", "awaiting-policy"} -> {"running", "failed", "canceled", "expired"}
      [] s = "rolling-back" -> {"failed", "succeeded"}
      [] OTHER              -> {}

\* Transition: a transition that is not allowed changes nothing.
Transition(s, to) == IF to \in Allowed(s) THEN to ELSE s

\* What a run's record says: the plan, the status, and the targets whose apply
\* step succeeded and was not rolled back.
Record == [plan : Versions, status : Statuses, kept : SUBSET Targets]

-----------------------------------------------------------------------------
(* A command: where it is, the graph it loaded, the plan it read, the       *)
(* targets whose action was executed, those still to be undone, its run.    *)

Resting == [pc |-> "idle", force |-> FALSE, graph |-> NoVersion, edited |-> FALSE,
            plan |-> NoVersion, done |-> {}, undo |-> {}, status |-> "created", kept |-> {}]

Work == [pc : {"idle", "plan", "apply", "acquire", "execute", "rollback", "record",
               "release"},
         force : BOOLEAN, graph : Versions \cup {NoVersion}, edited : BOOLEAN,
         plan : Versions \cup {NoVersion}, done : SUBSET Targets, undo : SUBSET Targets,
         status : Statuses, kept : SUBSET Targets]

PlanTypeOK ==
    /\ Lock!LockTypeOK
    /\ outputs \in [Versions -> SUBSET Targets]
    /\ source \in Versions
    /\ planFile \in Versions \cup {NoVersion}
    /\ manifests \in [Targets -> Versions \cup {NoVersion}]
    /\ records \subseteq Record
    /\ work \in [Procs -> Work]
    /\ runs \in Nat
    /\ half \subseteq Targets
    /\ lost \in BOOLEAN

PlanInit ==
    /\ Lock!LockInit
    /\ outputs \in [Versions -> SUBSET Targets]
    /\ source = 1
    /\ planFile = NoVersion
    /\ manifests = [t \in Targets |-> NoVersion]
    /\ records = {}
    /\ work = [p \in Procs |-> Resting]
    /\ runs = 0
    /\ half = {}
    /\ lost = FALSE

At(p, pc) == work[p].pc = pc
Become(p, w) == work' = [work EXCEPT ![p] = w]

-----------------------------------------------------------------------------
(* The developer, and `panex plan`.                                         *)

\* edited is bookkeeping: the project was changed after the apply loaded it.
Edit ==
    /\ source < MaxEdits
    /\ source' = source + 1
    /\ work' = [p \in Procs |-> [work[p] EXCEPT
                    !.edited = @ \/ work[p].pc \in {"apply", "acquire", "execute"}]]
    /\ UNCHANGED <<lockVars, outputs, diskVars, runs, half, lost>>

LoadForPlan(p) ==
    /\ At(p, "idle") /\ lockPc[p] = "idle"
    /\ Become(p, [Resting EXCEPT !.pc = "plan", !.graph = source])
    /\ UNCHANGED <<lockVars, outputs, source, diskVars, runs, half, lost>>

WritePlan(p) ==
    /\ At(p, "plan")
    /\ planFile' = work[p].graph
    /\ Become(p, Resting)
    /\ UNCHANGED <<lockVars, outputs, source, manifests, records, runs, half, lost>>

-----------------------------------------------------------------------------
(* `panex apply`.                                                           *)

LoadForApply(p) ==
    /\ At(p, "idle") /\ lockPc[p] = "idle"
    /\ runs < MaxRuns
    /\ runs' = runs + 1
    /\ \E force \in Forces :
          Become(p, [Resting EXCEPT !.pc = "apply", !.force = force, !.graph = source])
    /\ UNCHANGED <<lockVars, outputs, source, diskVars, half, lost>>

\* What an apply still looks at once it has a plan.
Accept(p) == Become(p, [work[p] EXCEPT !.pc = "acquire", !.plan = planFile,
                                          !.graph = NoVersion])

\* Wrong variant: no drift check.
ReadAnyPlan(p) ==
    /\ At(p, "apply")
    /\ IF planFile # NoVersion THEN Accept(p) ELSE Become(p, Resting)
    /\ UNCHANGED <<lockVars, outputs, source, diskVars, runs, half, lost>>

\* No plan ends the command, and so does drift: the plan's hash is not that of
\* the graph loaded before.
ReadPlan(p) ==
    /\ At(p, "apply")
    /\ \/ /\ planFile # NoVersion
          /\ work[p].force \/ planFile = work[p].graph
          /\ Accept(p)
       \/ /\ planFile = NoVersion \/ (~work[p].force /\ planFile # work[p].graph)
          /\ Become(p, Resting)
    /\ UNCHANGED <<lockVars, outputs, source, diskVars, runs, half, lost>>

\* Acquire fails: nothing was done.
Refused(p) ==
    /\ At(p, "acquire")
    /\ Lock!AcquireRefused(p)
    /\ Become(p, Resting)
    /\ UNCHANGED <<outputs, source, diskVars, runs, half, lost>>

\* Wrong variant: an apply goes on without the lock.
StartAnyway(p) ==
    /\ At(p, "acquire")
    /\ \/ Lock!AcquireOpen(p) /\ UNCHANGED work
       \/ Lock!AcquireLock(p) /\ UNCHANGED work
       \/ /\ Lock!WriteInfo(p) \/ Lock!AcquireRefused(p)
          /\ Become(p, [work[p] EXCEPT !.pc = "execute",
                                       !.status = Transition(@, "running")])
    /\ UNCHANGED <<outputs, source, diskVars, runs, half, lost>>

\* Acquire, and the run is created and running.
Start(p) ==
    /\ At(p, "acquire")
    /\ \/ Lock!AcquireOpen(p) /\ UNCHANGED work
       \/ Lock!AcquireLock(p) /\ UNCHANGED work
       \/ /\ Lock!WriteInfo(p)
          /\ Become(p, [work[p] EXCEPT !.pc = "execute",
                                       !.status = Transition(@, "running")])
    /\ UNCHANGED <<outputs, source, diskVars, runs, half, lost>>

\* The plan's actions that have not been executed.
Left(w) == outputs[w.plan] \ w.done

\* The next action, in the order of the plan, writes its manifest.
Execute(p) ==
    \E t \in Targets :
        /\ At(p, "execute")
        /\ t \in Left(work[p])
        /\ \A u \in Left(work[p]) : t <= u
        /\ manifests' = [manifests EXCEPT ![t] = work[p].plan]
        /\ Become(p, [work[p] EXCEPT !.done = @ \cup {t}, !.kept = @ \cup {t}])
        /\ half' = half \ {t}
        /\ UNCHANGED <<lockVars, outputs, source, planFile, records, runs, lost>>

\* After the last action, or without any, the run has succeeded.
Succeed(p) ==
    /\ At(p, "execute")
    /\ Left(work[p]) = {}
    /\ Become(p, [work[p] EXCEPT !.pc = "record", !.status = Transition(@, "succeeded")])
    /\ UNCHANGED <<lockVars, outputs, source, diskVars, runs, half, lost>>

\* The next action fails: what was executed is rolled back, if there is any.
ExecuteFails(p) ==
    /\ At(p, "execute")
    /\ Left(work[p]) # {}
    /\ Become(p, IF work[p].done = {}
                 THEN [work[p] EXCEPT !.pc = "record", !.status = Transition(@, "failed")]
                 ELSE [work[p] EXCEPT !.pc = "rollback", !.undo = work[p].done,
                                      !.status = Transition(@, "rolling-back")])
    /\ UNCHANGED <<lockVars, outputs, source, diskVars, runs, half, lost>>

\* Rolling back goes from the last executed action to the first.
Undoes(p, t) ==
    /\ At(p, "rollback")
    /\ t \in work[p].undo
    /\ \A u \in work[p].undo : u <= t

\* One action less to undo; after the first one the run has failed.
Undone(w, t) == [w EXCEPT !.undo = @ \ {t},
                          !.pc = IF w.undo = {t} THEN "record" ELSE @,
                          !.status = IF w.undo = {t} THEN Transition(@, "failed") ELSE @]

\* Wrong variant: the first action is left as it is.
RollbackButFirst(p) ==
    \E t \in Targets :
        /\ Undoes(p, t)
        /\ manifests' = IF work[p].undo = {t} THEN manifests
                        ELSE [manifests EXCEPT ![t] = NoVersion]
        /\ Become(p, Undone([work[p] EXCEPT !.kept = @ \ {t}], t))
        /\ half' = half \ {t}
        /\ UNCHANGED <<lockVars, outputs, source, planFile, records, runs, lost>>

\* Rollback removes the manifest, whatever was there before.
Rollback(p) ==
    \E t \in Targets :
        /\ Undoes(p, t)
        /\ manifests' = [manifests EXCEPT ![t] = NoVersion]
        /\ Become(p, Undone([work[p] EXCEPT !.kept = @ \ {t}], t))
        /\ half' = half \ {t}
        /\ UNCHANGED <<lockVars, outputs, source, planFile, records, runs, lost>>

\* Wrong variant: the error is not recorded.
RollbackFailsSilently(p) ==
    \E t \in Targets :
        /\ Undoes(p, t)
        /\ Become(p, Undone([work[p] EXCEPT !.kept = @ \ {t}], t))
        /\ half' = half \cup {t}
        /\ UNCHANGED <<lockVars, outputs, source, diskVars, runs, lost>>

\* The removal fails; the rollback goes on with the action before.
RollbackFails(p) ==
    \E t \in Targets :
        /\ Undoes(p, t)
        /\ Become(p, Undone(work[p], t))
        /\ half' = half \cup {t}
        /\ UNCHANGED <<lockVars, outputs, source, diskVars, runs, lost>>

\* writeRun drops the error of a write that fails.
WriteRun(p) ==
    /\ At(p, "record")
    /\ \/ /\ records' = records \cup {[plan |-> work[p].plan, status |-> work[p].status,
                                       kept |-> work[p].kept]}
          /\ UNCHANGED lost
       \/ lost' = TRUE /\ UNCHANGED records
    /\ Become(p, [Resting EXCEPT !.pc = "release", !.plan = work[p].plan,
                                 !.kept = work[p].kept])
    /\ UNCHANGED <<lockVars, outputs, source, planFile, manifests, runs, half>>

\* The deferred Release.
Finish(p) ==
    /\ At(p, "release")
    /\ \/ Lock!ReleaseUnlock(p) /\ UNCHANGED work
       \/ Lock!Unlink(p) /\ Become(p, Resting)
    /\ UNCHANGED <<outputs, source, diskVars, runs, half, lost>>

\* The targets whose manifest is that of a run which is not over.
Begun(p) == IF work[p].pc \in {"execute", "rollback"} THEN work[p].kept ELSE {}

\* The process is killed, at any point: the lock goes, the files stay.
Die(p) ==
    /\ ~At(p, "idle")
    /\ \/ Lock!Die(p)
       \/ lockPc[p] = "idle" /\ UNCHANGED lockVars
    /\ Become(p, Resting)
    /\ half' = half \cup Begun(p)
    /\ lost' = (lost \/ work[p].pc \in {"execute", "rollback", "record"})
    /\ UNCHANGED <<outputs, source, diskVars, runs>>

-----------------------------------------------------------------------------
PlanStep(p) ==
    \/ LoadForPlan(p) \/ WritePlan(p)
    \/ LoadForApply(p) \/ ReadPlan(p) \/ Start(p) \/ Refused(p)
    \/ Execute(p) \/ Succeed(p) \/ ExecuteFails(p) \/ Rollback(p) \/ RollbackFails(p)
    \/ WriteRun(p) \/ Finish(p)
    \/ Die(p)

PlanNext == Edit \/ \E p \in Procs : PlanStep(p)
PlanSpec == PlanInit /\ [][PlanNext]_vars

Changing(p) == work[p].pc \in {"execute", "rollback", "record"}

-----------------------------------------------------------------------------
\* What a run does to several targets is all or nothing, in what is on disk
\* between applies: of two targets whose plans both have both targets, the
\* manifests come from one plan.  (A target that a later version dropped keeps
\* its manifest.)  Left out are the manifests of runs that died or could not
\* undo their actions.  It rests on the exclusion of applies, which holds as
\* long as the lock file's unlink does not race.
ManifestsAgree ==
    (~raced /\ \A p \in Procs : ~Changing(p)) =>
        \A s, t \in Targets \ half :
            (/\ manifests[s] # NoVersion /\ t \in outputs[manifests[s]]
             /\ manifests[t] # NoVersion /\ s \in outputs[manifests[t]])
            => manifests[s] = manifests[t]

\* Nobody changes what a run has done before the run is over: up to the release
\* of the lock, what the run's steps say is what is on disk.
RunOwnsManifests ==
    ~raced => \A p \in Procs : Changing(p) \/ (At(p, "release") /\ Lock!Holds(p)) =>
                  \A t \in work[p].kept : manifests[t] = work[p].plan

\* Every manifest is accounted for: a run that is under way or a record says
\* that it was written, unless a run ended without a record (it died, or the
\* error of writing the record was dropped).
ManifestsAreRecorded ==
    \A t \in Targets : manifests[t] # NoVersion =>
        \/ lost
        \/ \E r \in records : r.plan = manifests[t] /\ t \in r.kept
        \/ \E p \in Procs : /\ Changing(p)
                            /\ work[p].plan = manifests[t]
                            /\ t \in work[p].kept

\* The ledger accepts every transition apply makes, whose refusal would be
\* ignored: a record on disk is in a final status, and says "succeeded" of the
\* runs that kept every target of their plan and of no others.
RecordsAreFinal ==
    \A r \in records : /\ r.status \in Terminal
                       /\ r.status = "succeeded" <=> r.kept = outputs[r.plan]

\* "Apply executes with project lock, step recording, and drift rejection"
\* (internal/plan/plan.go:2-3).  Drift is looked for before the lock is taken,
\* and yet an apply without --force replaces a manifest by an older one only if
\* the project was edited while that apply was running.
OnlyAnEditHidesDrift ==
    [][\A p \in Procs :
          (work'[p] # work[p] /\ At(p, "execute") /\ ~work[p].force /\ ~work[p].edited) =>
              \A t \in Targets : manifests'[t] >= manifests[t]]_vars
=============================================================================
