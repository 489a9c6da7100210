-------------------------- MODULE PlanApply_proofs --------------------------
(* Applies, for any number of processes and targets.                        *)
EXTENDS PlanApply, TLAPS

LP == INSTANCE FileLock_proofs WITH pc <- lockPc, Sweepers <- {}, Probers <- {}

USE PlanAssumption

-----------------------------------------------------------------------------
(* The project lock is FileLock's lock, so what is proved of it holds here. *)

LEMMA SameLock ==
    ASSUME NEW p \in Procs
    PROVE  /\ Lock!AcquireOpen(p) => LP!LockStep(p)
           /\ Lock!AcquireLock(p) => LP!LockStep(p)
           /\ Lock!AcquireRefused(p) => LP!LockStep(p)
           /\ Lock!WriteInfo(p) => LP!LockStep(p)
           /\ Lock!ReleaseUnlock(p) => LP!LockStep(p)
           /\ Lock!Unlink(p) => LP!LockStep(p)
           /\ Lock!Die(p) => LP!LockStep(p)
<1>1. Lock!AcquireOpen(p) => LP!AcquireOpen(p)
  BY DEF Lock!AcquireOpen, LP!AcquireOpen, Lock!Free, LP!Free, Lock!Goto, LP!Goto
<1>2. Lock!AcquireLock(p) => LP!AcquireLock(p)
  BY DEF Lock!AcquireLock, LP!AcquireLock, Lock!Lockable, LP!Lockable, Lock!Goto, LP!Goto
<1>3. Lock!AcquireRefused(p) => LP!AcquireRefused(p)
  BY DEF Lock!AcquireRefused, LP!AcquireRefused, Lock!Lockable, LP!Lockable,
         Lock!Close, LP!Close, Lock!Goto, LP!Goto
<1>4. Lock!WriteInfo(p) => LP!WriteInfo(p)
  BY DEF Lock!WriteInfo, LP!WriteInfo, Lock!Goto, LP!Goto
<1>5. Lock!ReleaseUnlock(p) => LP!ReleaseUnlock(p)
  BY DEF Lock!ReleaseUnlock, LP!ReleaseUnlock, Lock!Close, LP!Close, Lock!Goto, LP!Goto
<1>6. Lock!Unlink(p) => LP!Unlink(p)
  BY DEF Lock!Unlink, LP!Unlink, Lock!Goto, LP!Goto
<1>7. Lock!Die(p) => LP!Die(p)
  BY DEF Lock!Die, LP!Die, Lock!Close, LP!Close, Lock!Goto, LP!Goto
<1> QED BY <1>1, <1>2, <1>3, <1>4, <1>5, <1>6, <1>7 DEF LP!LockStep

\* What a process does to the lock file is a step of FileLock or nothing.
LockPart(p) == LP!LockStep(p) \/ UNCHANGED lockVars

LEMMA StepsUseTheLock == ASSUME NEW p \in Procs, PlanStep(p) PROVE LockPart(p)
<1> USE SameLock DEF LockPart
<1>1. CASE Start(p)
  BY <1>1 DEF Start
<1>2. CASE Refused(p)
  BY <1>2 DEF Refused
<1>3. CASE Finish(p)
  BY <1>3 DEF Finish
<1>4. CASE Die(p)
  BY <1>4 DEF Die
<1>5. CASE LoadForPlan(p) \/ WritePlan(p) \/ LoadForApply(p) \/ ReadPlan(p)
  BY <1>5 DEF LoadForPlan, WritePlan, LoadForApply, ReadPlan
<1>6. CASE \/ Execute(p) \/ Succeed(p) \/ ExecuteFails(p) \/ Rollback(p) \/ RollbackFails(p)
           \/ WriteRun(p)
  BY <1>6 DEF Execute, Succeed, ExecuteFails, Undoes, Rollback, RollbackFails, WriteRun
<1> QED BY <1>1, <1>2, <1>3, <1>4, <1>5, <1>6 DEF PlanStep

LEMMA LockInvariantStep ==
    ASSUME LP!IInv, [PlanNext]_vars PROVE LP!IInv'
<1>1. ASSUME UNCHANGED lockVars PROVE LP!IInv'
  BY <1>1 DEF lockVars, LP!IInv, LP!LockTypeOK, LP!OpenMeansOpen, LP!LocksHaveOwners,
              LP!OwnersHaveLocks, LP!HoldersAreNamed, LP!OpenIsLinked, LP!Holds
<1>2. ASSUME NEW p \in Procs, PlanStep(p) PROVE LP!IInv'
  <2>1. CASE LP!LockStep(p)
    BY <2>1, LP!StepIInv
  <2> QED BY <1>1, <1>2, <2>1, StepsUseTheLock DEF LockPart
<1> QED BY <1>1, <1>2 DEF PlanNext, Edit, vars, lockVars

\* The processes of a project use the lock file in no other way than FileLock
\* has it, so what is proved of any of its callers holds of them.
THEOREM ApplyUsesTheLock == PlanSpec => LP!LockSpec
<1>1. PlanInit => LP!LockInit
  BY DEF PlanInit, Lock!LockInit, LP!LockInit
<1>2. [PlanNext]_vars => [LP!LockNext]_LP!vars
  <2>1. UNCHANGED lockVars => UNCHANGED LP!vars
    BY DEF lockVars, LP!vars
  <2>2. ASSUME NEW p \in Procs, PlanStep(p) PROVE [LP!LockNext]_LP!vars
    BY <2>1, <2>2, StepsUseTheLock DEF LockPart, LP!LockNext
  <2>3. Edit \/ UNCHANGED vars => UNCHANGED lockVars
    BY DEF Edit, vars, lockVars
  <2> QED BY <2>1, <2>2, <2>3 DEF PlanNext
<1> QED BY <1>1, <1>2, PTL DEF PlanSpec, LP!LockSpec

-----------------------------------------------------------------------------
(* The inductive invariant.                                                 *)

\* Where a command is, and where its use of the lock is.
Fits(w, l) ==
    /\ w.pc \in {"idle", "plan", "apply"} => l = "idle"
    /\ w.pc = "acquire" => l \in {"idle", "opened", "locked"}
    /\ w.pc \in {"execute", "rollback", "record"} => l = "held"
    /\ w.pc = "release" => l \in {"held", "unlink"}

\* What a run has executed, undone and recorded of it, in each of its phases.
Shaped(w) ==
    /\ w.pc \in {"apply", "acquire"} => w.status = "created" /\ w.done = {} /\ w.kept = {}
    /\ w.pc \in {"acquire", "execute", "rollback", "record"} => w.plan \in Versions
    /\ w.pc = "execute" => /\ w.status = "running"
                           /\ w.done \subseteq outputs[w.plan]
                           /\ w.kept = w.done
    /\ w.pc = "rollback" => /\ w.status = "rolling-back"
                            /\ w.undo # {}
                            /\ w.undo \subseteq w.kept
                            /\ w.kept \subseteq outputs[w.plan]
                            /\ w.kept # outputs[w.plan]
    /\ w.pc = "record" => \/ w.status = "succeeded" /\ w.kept = outputs[w.plan]
                          \/ /\ w.status = "failed"
                             /\ w.kept \subseteq outputs[w.plan]
                             /\ w.kept # outputs[w.plan]

Whole(w, l) == w \in Work /\ Fits(w, l) /\ Shaped(w)

WorkOK == \A p \in Procs : Whole(work[p], lockPc[p])

Plain == PlanTypeOK /\ WorkOK

LEMMA TransitionType == ASSUME NEW s \in Statuses, NEW u \in Statuses
                        PROVE  Transition(s, u) \in Statuses
  BY DEF Transition

LEMMA LockTypeStep == ASSUME LP!IInv' PROVE Lock!LockTypeOK'
  BY DEF LP!IInv, LP!LockTypeOK, LP!PCs, Lock!LockTypeOK, Lock!PCs

LEMMA RestingType == Resting \in Work
  BY DEF Resting, Work, Statuses, Targets

-----------------------------------------------------------------------------
(* A step of a process keeps the shape of its own command, and that of the  *)
(* others.                                                                  *)

LEMMA OthersStay ==
    ASSUME PlanTypeOK, NEW p \in Procs, PlanStep(p), NEW q \in Procs, q # p
    PROVE  work'[q] = work[q] /\ lockPc'[q] = lockPc[q]
<1> USE DEF PlanTypeOK, Lock!LockTypeOK, Become, lockVars
<1>1. CASE Start(p)
  BY <1>1 DEF Start, Lock!AcquireOpen, Lock!AcquireLock, Lock!WriteInfo, Lock!Goto
<1>2. CASE Refused(p)
  BY <1>2 DEF Refused, Lock!AcquireRefused, Lock!Goto
<1>3. CASE Finish(p)
  BY <1>3 DEF Finish, Lock!ReleaseUnlock, Lock!Unlink, Lock!Goto
<1>4. CASE Die(p)
  BY <1>4 DEF Die, Lock!Die, Lock!Goto
<1>5. CASE LoadForPlan(p) \/ WritePlan(p) \/ LoadForApply(p) \/ ReadPlan(p)
  BY <1>5 DEF LoadForPlan, WritePlan, LoadForApply, ReadPlan, Accept
<1>6. CASE \/ Execute(p) \/ Succeed(p) \/ ExecuteFails(p) \/ Rollback(p) \/ RollbackFails(p)
           \/ WriteRun(p)
  BY <1>6 DEF Execute, Succeed, ExecuteFails, Undoes, Rollback, RollbackFails, WriteRun
<1> QED BY <1>1, <1>2, <1>3, <1>4, <1>5, <1>6 DEF PlanStep

-----------------------------------------------------------------------------
(* What each step makes of the command.                                     *)

LEMMA RestingIsWhole == Whole(Resting, "idle")
  BY RestingType DEF Whole, Fits, Shaped, Resting

LEMMA LoadedIsWhole ==
    ASSUME NEW g \in Versions
    PROVE  /\ Whole([Resting EXCEPT !.pc = "plan", !.graph = g], "idle")
           /\ \A f \in BOOLEAN :
                 Whole([Resting EXCEPT !.pc = "apply", !.force = f, !.graph = g], "idle")
<1>1. ASSUME NEW w \in Work, w.status = "created", w.done = {}, w.kept = {},
             NEW f \in BOOLEAN
      PROVE  /\ Whole([w EXCEPT !.pc = "plan", !.graph = g], "idle")
             /\ Whole([w EXCEPT !.pc = "apply", !.force = f, !.graph = g], "idle")
  BY <1>1 DEF Whole, Fits, Shaped, Work
<1>2. Resting.status = "created" /\ Resting.done = {} /\ Resting.kept = {}
  BY DEF Resting
<1> QED BY <1>1, <1>2, RestingType

LEMMA AcceptedIsWhole ==
    ASSUME NEW w, NEW l, Whole(w, l), w.pc = "apply", NEW f \in Versions
    PROVE  Whole([w EXCEPT !.pc = "acquire", !.plan = f, !.graph = NoVersion], l)
  BY DEF Whole, Fits, Shaped, Work

LEMMA StartedIsWhole ==
    ASSUME NEW w, NEW l, Whole(w, l), w.pc = "acquire"
    PROVE  Whole([w EXCEPT !.pc = "execute", !.status = Transition(@, "running")], "held")
<1>1. Transition(w.status, "running") = "running"
  BY DEF Whole, Shaped, Transition, Allowed
<1> DEFINE v == [w EXCEPT !.pc = "execute", !.status = "running"]
<1>2. v \in Work
  BY DEF Whole, Work, Statuses
<1>3. v.pc = "execute" /\ v.status = "running" /\ v.done = {} /\ v.kept = {} /\ v.plan \in Versions
  BY DEF Whole, Work, Shaped
<1>4. Shaped(v) /\ Fits(v, "held")
  <2> HIDE DEF v
  <2> QED BY <1>3 DEF Shaped, Fits
<1> QED BY <1>1, <1>2, <1>4 DEF Whole

LEMMA ExecutedIsWhole ==
    ASSUME NEW w, NEW l, Whole(w, l), w.pc = "execute", NEW t \in Targets, t \in Left(w)
    PROVE  l = "held" /\ Whole([w EXCEPT !.done = @ \cup {t}, !.kept = @ \cup {t}], l)
<1> DEFINE v == [w EXCEPT !.done = w.done \cup {t}, !.kept = w.kept \cup {t}]
<1>1. /\ w \in Work /\ l = "held" /\ w.status = "running" /\ w.kept = w.done
      /\ w.done \subseteq outputs[w.plan] /\ w.plan \in Versions /\ t \in outputs[w.plan]
  BY DEF Whole, Fits, Shaped, Left
<1>2. v \in Work
  BY <1>1 DEF Work
<1>3. /\ v.pc = "execute" /\ v.status = "running" /\ v.plan = w.plan
      /\ v.done = w.done \cup {t} /\ v.kept = v.done
  BY <1>1 DEF Work
<1>4. Shaped(v) /\ Fits(v, l)
  <2> HIDE DEF v
  <2> QED BY <1>1, <1>3 DEF Shaped, Fits
<1> QED BY <1>1, <1>2, <1>4 DEF Whole

LEMMA SucceededIsWhole ==
    ASSUME NEW w, NEW l, Whole(w, l), w.pc = "execute", Left(w) = {}
    PROVE  Whole([w EXCEPT !.pc = "record", !.status = Transition(@, "succeeded")], l)
<1> DEFINE v == [w EXCEPT !.pc = "record", !.status = "succeeded"]
<1>1. /\ w \in Work /\ l = "held" /\ w.status = "running" /\ w.kept = outputs[w.plan]
      /\ w.plan \in Versions
  BY DEF Whole, Fits, Shaped, Left
<1>2. Transition(w.status, "succeeded") = "succeeded"
  BY <1>1 DEF Transition, Allowed
<1>3. v \in Work
  BY <1>1 DEF Work, Statuses
<1>4. v.pc = "record" /\ v.status = "succeeded" /\ v.plan = w.plan /\ v.kept = w.kept
  BY <1>1 DEF Work
<1>5. Shaped(v) /\ Fits(v, l)
  <2> HIDE DEF v
  <2> QED BY <1>1, <1>4 DEF Shaped, Fits
<1> QED BY <1>2, <1>3, <1>5 DEF Whole

LEMMA FailedIsWhole ==
    ASSUME NEW w, NEW l, Whole(w, l), w.pc = "execute", Left(w) # {}, w.done = {}
    PROVE  Whole([w EXCEPT !.pc = "record", !.status = Transition(@, "failed")], l)
<1> DEFINE v == [w EXCEPT !.pc = "record", !.status = "failed"]
<1>1. /\ w \in Work /\ l = "held" /\ w.status = "running" /\ w.kept = {}
      /\ outputs[w.plan] # {} /\ w.plan \in Versions
  BY DEF Whole, Fits, Shaped, Left
<1>2. Transition(w.status, "failed") = "failed"
  BY <1>1 DEF Transition, Allowed
<1>3. v \in Work
  BY <1>1 DEF Work, Statuses
<1>4. v.pc = "record" /\ v.status = "failed" /\ v.plan = w.plan /\ v.kept = {}
  BY <1>1 DEF Work
<1>5. Shaped(v) /\ Fits(v, l)
  <2> HIDE DEF v
  <2> QED BY <1>1, <1>4 DEF Shaped, Fits
<1> QED BY <1>2, <1>3, <1>5 DEF Whole

LEMMA RollingBackIsWhole ==
    ASSUME NEW w, NEW l, Whole(w, l), w.pc = "execute", Left(w) # {}, w.done # {}
    PROVE  Whole([w EXCEPT !.pc = "rollback", !.undo = w.done,
                           !.status = Transition(@, "rolling-back")], l)
<1> DEFINE v == [w EXCEPT !.pc = "rollback", !.undo = w.done, !.status = "rolling-back"]
<1>1. /\ w \in Work /\ l = "held" /\ w.status = "running" /\ w.kept = w.done
      /\ w.done \subseteq outputs[w.plan] /\ w.done # outputs[w.plan] /\ w.plan \in Versions
  BY DEF Whole, Fits, Shaped, Left
<1>2. Transition(w.status, "rolling-back") = "rolling-back"
  BY <1>1 DEF Transition, Allowed
<1>3. v \in Work
  BY <1>1 DEF Work, Statuses
<1>4. /\ v.pc = "rollback" /\ v.status = "rolling-back" /\ v.plan = w.plan
      /\ v.kept = w.done /\ v.undo = w.done
  BY <1>1 DEF Work
<1>5. Shaped(v) /\ Fits(v, l)
  <2> HIDE DEF v
  <2> QED BY <1>1, <1>4 DEF Shaped, Fits
<1> QED BY <1>2, <1>3, <1>5 DEF Whole

LEMMA UndoneIsWhole ==
    ASSUME NEW w, NEW l, Whole(w, l), w.pc = "rollback", NEW t, t \in w.undo,
           NEW K \in SUBSET w.kept, w.undo \ {t} \subseteq K
    PROVE  Whole(Undone([w EXCEPT !.kept = K], t), l)
<1>1. /\ w \in Work /\ l = "held" /\ w.status = "rolling-back" /\ w.undo \subseteq w.kept
      /\ w.kept \subseteq outputs[w.plan] /\ w.kept # outputs[w.plan] /\ w.plan \in Versions
  BY DEF Whole, Fits, Shaped, Work
<1>2. Transition(w.status, "failed") = "failed"
  BY <1>1 DEF Transition, Allowed
<1> DEFINE v == [w EXCEPT !.kept = K, !.undo = w.undo \ {t},
                          !.pc = IF w.undo = {t} THEN "record" ELSE "rollback",
                          !.status = IF w.undo = {t} THEN "failed" ELSE "rolling-back"]
<1>3. v = Undone([w EXCEPT !.kept = K], t)
  BY <1>1, <1>2 DEF Undone, Work
<1>4. K \in SUBSET Targets /\ K \subseteq outputs[w.plan] /\ K # outputs[w.plan]
  BY <1>1 DEF Work
<1>5. v \in Work
  BY <1>1, <1>4 DEF Work, Statuses
<1>6. v.kept = K /\ v.undo = w.undo \ {t} /\ v.plan = w.plan
  BY <1>1 DEF Work
<1>7. CASE w.undo = {t}
  <2>1. v.pc = "record" /\ v.status = "failed"
    BY <1>1, <1>7 DEF Work
  <2> HIDE DEF v
  <2> QED BY <1>1, <1>3, <1>4, <1>5, <1>6, <2>1 DEF Shaped, Fits, Whole
<1>8. CASE w.undo # {t}
  <2>1. v.pc = "rollback" /\ v.status = "rolling-back"
    BY <1>1, <1>8 DEF Work
  <2>2. v.undo # {}
    BY <1>6, <1>8
  <2> HIDE DEF v
  <2> QED BY <1>1, <1>3, <1>4, <1>5, <1>6, <2>1, <2>2 DEF Shaped, Fits, Whole
<1> QED BY <1>7, <1>8

LEMMA RecordedIsWhole ==
    ASSUME NEW w, NEW l, Whole(w, l), w.pc = "record"
    PROVE  Whole([Resting EXCEPT !.pc = "release", !.plan = w.plan, !.kept = w.kept], l)
<1> DEFINE v == [Resting EXCEPT !.pc = "release", !.plan = w.plan, !.kept = w.kept]
<1>1. w.plan \in Versions /\ w.kept \in SUBSET Targets /\ l = "held"
  BY DEF Whole, Fits, Shaped, Work
<1>2. v \in Work
  BY <1>1, RestingType DEF Work
<1>3. v.pc = "release"
  BY DEF Resting
<1> HIDE DEF v
<1>4. Shaped(v) /\ Fits(v, l)
  BY <1>1, <1>3 DEF Shaped, Fits
<1> QED BY <1>2, <1>4 DEF Whole, v

LEMMA EditedIsWhole ==
    ASSUME NEW w, NEW l, Whole(w, l), NEW e \in BOOLEAN
    PROVE  Whole([w EXCEPT !.edited = e], l)
  BY DEF Whole, Fits, Shaped, Work

LEMMA CommandStep ==
    ASSUME Plain, NEW p \in Procs, PlanStep(p)
    PROVE  Whole(work'[p], lockPc'[p])
<1> USE DEF Become, At
<1>0. /\ work \in [Procs -> Work] /\ lockPc \in [Procs -> Lock!PCs]
      /\ Whole(work[p], lockPc[p])
      /\ source \in Versions /\ planFile \in Versions \cup {NoVersion}
  BY DEF Plain, PlanTypeOK, WorkOK, Lock!LockTypeOK
<1>1. CASE LoadForPlan(p)
  BY <1>0, <1>1, LoadedIsWhole DEF LoadForPlan, lockVars
<1>2. CASE WritePlan(p)
  BY <1>0, <1>2, RestingIsWhole DEF WritePlan, Whole, Fits, lockVars
<1>3. CASE LoadForApply(p)
  <2>1. PICK f \in Forces : Become(p, [Resting EXCEPT !.pc = "apply", !.force = f,
                                                      !.graph = source])
    BY <1>3 DEF LoadForApply
  <2>2. f \in BOOLEAN
    BY PlanAssumption DEF PlanAssumption
  <2> QED BY <1>0, <1>3, <2>1, <2>2, LoadedIsWhole DEF LoadForApply, lockVars
<1>4. CASE ReadPlan(p)
  <2>1. CASE Accept(p) /\ planFile # NoVersion
    BY <1>0, <1>4, <2>1, AcceptedIsWhole DEF ReadPlan, Accept, lockVars
  <2>2. CASE Become(p, Resting)
    BY <1>0, <1>4, <2>2, RestingIsWhole DEF ReadPlan, Whole, Fits, lockVars
  <2> QED BY <1>4, <2>1, <2>2 DEF ReadPlan
<1>5. CASE Start(p)
  <2>1. CASE (Lock!AcquireOpen(p) \/ Lock!AcquireLock(p)) /\ UNCHANGED work
    <3>1. lockPc'[p] \in {"opened", "locked"}
      <4>1. CASE Lock!AcquireOpen(p)
        BY <1>0, <4>1 DEF Lock!AcquireOpen, Lock!Goto
      <4>2. CASE Lock!AcquireLock(p)
        BY <1>0, <4>2 DEF Lock!AcquireLock, Lock!Goto
      <4> QED BY <2>1, <4>1, <4>2
    <3> QED BY <1>0, <1>5, <2>1, <3>1 DEF Start, Whole, Fits
  <2>2. CASE Lock!WriteInfo(p) /\ ~UNCHANGED work
    <3>1. lockPc'[p] = "held"
      BY <1>0, <2>2 DEF Lock!WriteInfo, Lock!Goto
    <3>2. Become(p, [work[p] EXCEPT !.pc = "execute", !.status = Transition(@, "running")])
      BY <1>5, <2>2 DEF Start
    <3>3. work[p].pc = "acquire"
      BY <1>5 DEF Start
    <3> QED BY <1>0, <3>1, <3>2, <3>3, StartedIsWhole
  <2>3. CASE Lock!WriteInfo(p) /\ UNCHANGED work
    <3>1. Become(p, [work[p] EXCEPT !.pc = "execute", !.status = Transition(@, "running")])
      BY <1>0, <1>5, <2>3 DEF Start, Lock!WriteInfo, Lock!AcquireOpen, Lock!AcquireLock
    <3>2. work'[p].pc = "execute"
      BY <1>0, <3>1 DEF Work
    <3> QED BY <1>5, <2>3, <3>2 DEF Start
  <2> QED BY <1>5, <2>1, <2>2, <2>3 DEF Start
<1>6. CASE Refused(p)
  <2>1. lockPc'[p] = "idle"
    BY <1>0, <1>6 DEF Refused, Lock!AcquireRefused, Lock!Goto
  <2> QED BY <1>0, <1>6, <2>1, RestingIsWhole DEF Refused
<1>7. CASE Execute(p)
  <2>1. PICK t \in Targets :
            /\ work[p].pc = "execute" /\ t \in Left(work[p])
            /\ work'[p] = [work[p] EXCEPT !.done = @ \cup {t}, !.kept = @ \cup {t}]
    BY <1>0, <1>7 DEF Execute
  <2>2. Whole([work[p] EXCEPT !.done = @ \cup {t}, !.kept = @ \cup {t}], lockPc[p])
    BY <1>0, <2>1, ExecutedIsWhole
  <2>3. lockPc' = lockPc
    BY <1>7 DEF Execute, lockVars
  <2> QED BY <2>1, <2>2, <2>3
<1>s. CASE Succeed(p)
  BY <1>0, <1>s, SucceededIsWhole DEF Succeed, lockVars
<1>8. CASE ExecuteFails(p)
  <2>1. CASE work[p].done = {}
    BY <1>0, <1>8, <2>1, FailedIsWhole DEF ExecuteFails, lockVars
  <2>2. CASE work[p].done # {}
    BY <1>0, <1>8, <2>2, RollingBackIsWhole DEF ExecuteFails, lockVars
  <2> QED BY <2>1, <2>2
<1>9. CASE Rollback(p)
  <2>1. PICK t \in Targets :
            /\ work[p].pc = "rollback" /\ t \in work[p].undo
            /\ work'[p] = Undone([work[p] EXCEPT !.kept = @ \ {t}], t)
    BY <1>0, <1>9 DEF Rollback, Undoes
  <2> DEFINE K == work[p].kept \ {t}
  <2>2. K \in SUBSET work[p].kept /\ work[p].undo \ {t} \subseteq K
    BY <1>0, <2>1 DEF Whole, Shaped
  <2>3. work'[p] = Undone([work[p] EXCEPT !.kept = K], t)
    BY <2>1
  <2> HIDE DEF K
  <2> QED BY <1>0, <1>9, <2>1, <2>2, <2>3, UndoneIsWhole DEF Rollback, lockVars
<1>10. CASE RollbackFails(p)
  <2>1. PICK t \in Targets :
            /\ work[p].pc = "rollback" /\ t \in work[p].undo
            /\ work'[p] = Undone(work[p], t)
    BY <1>0, <1>10 DEF RollbackFails, Undoes
  <2>2. work[p].undo \ {t} \subseteq work[p].kept
    BY <1>0, <2>1 DEF Whole, Shaped
  <2>3. [work[p] EXCEPT !.kept = work[p].kept] = work[p]
    BY <1>0 DEF Work
  <2> QED BY <1>0, <1>10, <2>1, <2>2, <2>3, UndoneIsWhole DEF RollbackFails, lockVars
<1>11. CASE WriteRun(p)
  BY <1>0, <1>11, RecordedIsWhole DEF WriteRun, lockVars
<1>12. CASE Finish(p)
  <2>1. CASE Lock!ReleaseUnlock(p) /\ UNCHANGED work
    <3>1. lockPc'[p] = "unlink"
      BY <1>0, <2>1 DEF Lock!ReleaseUnlock, Lock!Goto
    <3> QED BY <1>0, <1>12, <2>1, <3>1 DEF Finish, Whole, Fits
  <2>2. CASE Lock!Unlink(p) /\ Become(p, Resting)
    <3>1. lockPc'[p] = "idle"
      BY <1>0, <2>2 DEF Lock!Unlink, Lock!Goto
    <3> QED BY <1>0, <2>2, <3>1, RestingIsWhole
  <2> QED BY <1>12, <2>1, <2>2 DEF Finish
<1>13. CASE Die(p)
  <2>1. lockPc'[p] = "idle"
    BY <1>0, <1>13 DEF Die, Lock!Die, Lock!Goto, lockVars
  <2> QED BY <1>0, <1>13, <2>1, RestingIsWhole DEF Die
<1> QED BY <1>1, <1>2, <1>3, <1>4, <1>5, <1>6, <1>7, <1>s, <1>8, <1>9, <1>10, <1>11, <1>12,
           <1>13 DEF PlanStep

-----------------------------------------------------------------------------
(* The types.                                                               *)

LEMMA WorkStays ==
    ASSUME outputs' = outputs, \A p \in Procs : Whole(work'[p], lockPc'[p])
    PROVE  WorkOK'
  BY DEF WorkOK, Whole, Fits, Shaped

LEMMA EditStep ==
    ASSUME Plain, Edit
    PROVE  \A p \in Procs : /\ Whole(work'[p], lockPc'[p])
                            /\ \E e \in BOOLEAN : work'[p] = [work[p] EXCEPT !.edited = e]
<1> SUFFICES ASSUME NEW p \in Procs
             PROVE  /\ Whole(work'[p], lockPc'[p])
                    /\ \E e \in BOOLEAN : work'[p] = [work[p] EXCEPT !.edited = e]
  OBVIOUS
<1> DEFINE e == work[p].edited \/ work[p].pc \in {"apply", "acquire", "execute"}
<1>1. e \in BOOLEAN
  BY DEF Plain, PlanTypeOK, Work
<1>2. work'[p] = [work[p] EXCEPT !.edited = e]
  BY DEF Edit
<1>3. Whole(work[p], lockPc[p]) /\ lockPc' = lockPc
  BY DEF Plain, WorkOK, Edit, lockVars
<1> HIDE DEF e
<1> QED BY <1>1, <1>2, <1>3, EditedIsWhole

\* What a step may do to the disk.
LEMMA DiskStep ==
    ASSUME NEW p \in Procs, PlanStep(p)
    PROVE  /\ source' = source /\ outputs' = outputs
           /\ planFile' = planFile \/ (WritePlan(p) /\ planFile' = work[p].graph)
           /\ runs' \in {runs, runs + 1}
           /\ \/ manifests' = manifests
              \/ \E t \in Targets :
                    /\ At(p, "execute")
                    /\ manifests' = [manifests EXCEPT ![t] = work[p].plan]
              \/ \E t \in Targets :
                    /\ At(p, "rollback")
                    /\ manifests' = [manifests EXCEPT ![t] = NoVersion]
           /\ WriteRun(p) \/ records' = records
           /\ records \subseteq records'
<1>1. CASE LoadForPlan(p) \/ LoadForApply(p) \/ ReadPlan(p)
  BY <1>1 DEF LoadForPlan, LoadForApply, ReadPlan, diskVars
<1>2. CASE WritePlan(p)
  BY <1>2 DEF WritePlan
<1>3. CASE Start(p) \/ Refused(p) \/ Finish(p) \/ Die(p)
  BY <1>3 DEF Start, Refused, Finish, Die, diskVars
<1>4. CASE Execute(p)
  BY <1>4 DEF Execute
<1>5. CASE Rollback(p)
  BY <1>5 DEF Rollback, Undoes
<1>6. CASE Succeed(p) \/ ExecuteFails(p) \/ RollbackFails(p) \/ WriteRun(p)
  BY <1>6 DEF Succeed, ExecuteFails, RollbackFails, WriteRun, diskVars
<1> QED BY <1>1, <1>2, <1>3, <1>4, <1>5, <1>6 DEF PlanStep

LEMMA LostStays == ASSUME NEW p \in Procs, PlanStep(p), lost PROVE lost'
<1>1. CASE Die(p)
  BY <1>1, Zenon DEF Die
<1>2. CASE WriteRun(p)
  BY <1>2, Zenon DEF WriteRun
<1>3. CASE ~Die(p) /\ ~WriteRun(p)
  <2>1. lost' = lost
    BY <1>3 DEF PlanStep, LoadForPlan, WritePlan, LoadForApply, ReadPlan, Start, Refused,
                Execute, Succeed, ExecuteFails, Rollback, RollbackFails, Finish
  <2> QED BY <2>1
<1> QED BY <1>1, <1>2, <1>3

LEMMA PlainStep ==
    ASSUME LP!IInv, Plain, [PlanNext]_vars
    PROVE  Plain'
<1> USE DEF Plain, PlanTypeOK
<1>1. Lock!LockTypeOK'
  BY LockInvariantStep, LockTypeStep
<1>2. CASE UNCHANGED vars
  <2>1. WorkOK'
    BY <1>2, WorkStays DEF vars, lockVars, WorkOK
  <2> QED BY <1>1, <1>2, <2>1 DEF vars, diskVars
<1>3. CASE Edit
  <2>1. WorkOK'
    BY <1>3, EditStep, WorkStays DEF Edit
  <2>2. work' \in [Procs -> Work]
    BY <1>3, EditStep DEF Edit, Whole
  <2>3. source' \in Versions
    BY <1>3 DEF Edit, Versions
  <2> QED BY <1>1, <1>3, <2>1, <2>2, <2>3 DEF Edit, diskVars
<1>4. ASSUME NEW p \in Procs, PlanStep(p) PROVE Plain'
  <2>1. work' \in [Procs -> Work] /\ WorkOK'
    <3>1. \A q \in Procs : Whole(work'[q], lockPc'[q])
      BY <1>4, CommandStep, OthersStay DEF WorkOK
    <3>r. WorkOK'
      BY <1>4, <3>1, DiskStep, WorkStays
    <3>2. \/ UNCHANGED work
          \/ \E w : work' = [work EXCEPT ![p] = w]
      BY <1>4 DEF PlanStep, LoadForPlan, WritePlan, LoadForApply, ReadPlan, Accept, Start,
                  Refused, Execute, Succeed, ExecuteFails, Rollback, RollbackFails, WriteRun, Finish,
                  Die, Become
    <3>3. work' = [q \in Procs |-> work'[q]]
      BY <3>2
    <3> QED BY <3>1, <3>r, <3>3 DEF Whole
  <2>2. /\ work[p] \in Work
        /\ work[p].graph \in Versions \cup {NoVersion}
        /\ work[p].plan \in Versions \cup {NoVersion}
        /\ work[p].status \in Statuses /\ work[p].kept \subseteq Targets
        /\ NoVersion \in Versions \cup {NoVersion}
    BY DEF Work
  <2>3. /\ source' \in Versions /\ planFile' \in Versions \cup {NoVersion} /\ runs' \in Nat
        /\ outputs' \in [Versions -> SUBSET Targets]
    BY <1>4, <2>2, DiskStep
  <2>4. manifests' \in [Targets -> Versions \cup {NoVersion}]
    BY <1>4, <2>2, DiskStep
  <2>5. records' \subseteq Record
    <3> DEFINE r == [plan |-> work[p].plan, status |-> work[p].status, kept |-> work[p].kept]
    <3>1. WriteRun(p) => r \in Record
      BY <2>2 DEF Record, WriteRun, At, WorkOK, Whole, Shaped
    <3>2. WriteRun(p) => records' \in {records, records \cup {r}}
      BY DEF WriteRun
    <3> HIDE DEF r
    <3> QED BY <1>4, <3>1, <3>2, DiskStep
  <2>6. half' \subseteq Targets /\ lost' \in BOOLEAN
    <3>1. CASE Execute(p) \/ Rollback(p)
      BY <3>1 DEF Execute, Rollback
    <3>2. CASE RollbackFails(p)
      BY <3>2 DEF RollbackFails
    <3>3. CASE Die(p)
      BY <2>2, <3>3 DEF Die, Begun
    <3>4. CASE ~Execute(p) /\ ~Rollback(p) /\ ~RollbackFails(p) /\ ~Die(p)
      BY <1>4, <3>4 DEF PlanStep, LoadForPlan, WritePlan, LoadForApply, ReadPlan, Start,
                  Refused, Succeed, ExecuteFails, WriteRun, Finish
    <3> QED BY <3>1, <3>2, <3>3, <3>4
  <2> QED BY <1>1, <2>1, <2>3, <2>4, <2>5, <2>6
<1> QED BY <1>2, <1>3, <1>4 DEF PlanNext

-----------------------------------------------------------------------------
(* Records.                                                                 *)

LEMMA RecordsAreFinalStep ==
    ASSUME Plain, RecordsAreFinal, [PlanNext]_vars
    PROVE  RecordsAreFinal'
<1>1. CASE records' = records /\ outputs' = outputs
  BY <1>1 DEF RecordsAreFinal
<1>2. ASSUME NEW p \in Procs, WriteRun(p) PROVE RecordsAreFinal'
  <2> DEFINE r == [plan |-> work[p].plan, status |-> work[p].status, kept |-> work[p].kept]
  <2>1. Whole(work[p], lockPc[p]) /\ work[p].pc = "record"
    BY <1>2 DEF WriteRun, Plain, WorkOK, At
  <2>3. r.status \in Terminal /\ (r.status = "succeeded" <=> r.kept = outputs[r.plan])
    BY <2>1 DEF Whole, Shaped, Terminal
  <2> HIDE DEF r
  <2>4. records' \in {records, records \cup {r}}
    BY <1>2 DEF WriteRun, r
  <2>5. outputs' = outputs
    BY <1>2 DEF WriteRun
  <2> QED BY <2>3, <2>4, <2>5 DEF RecordsAreFinal
<1>3. CASE Edit
  BY <1>1, <1>3 DEF Edit, diskVars
<1>4. CASE UNCHANGED vars
  BY <1>1, <1>4 DEF vars, diskVars
<1> QED BY <1>1, <1>2, <1>3, <1>4, DiskStep DEF PlanNext

-----------------------------------------------------------------------------
(* A run under way.                                                         *)

LEMMA RunStep ==
    ASSUME Plain, NEW p \in Procs, PlanStep(p), Changing(p)
    PROVE  \/ Die(p)
           \/ WriteRun(p)
           \/ /\ Changing(p)' /\ work'[p].plan = work[p].plan
              /\ UNCHANGED lockVars
              /\ \/ \E t \in Targets : /\ work'[p].kept = work[p].kept \cup {t}
                                      /\ manifests' = [manifests EXCEPT ![t] = work[p].plan]
                 \/ \E t \in Targets : /\ work'[p].kept = work[p].kept \ {t}
                                      /\ manifests' = [manifests EXCEPT ![t] = NoVersion]
                 \/ work'[p].kept = work[p].kept /\ manifests' = manifests
<1> USE DEF Become, At, Changing
<1>0. work \in [Procs -> Work] /\ work[p] \in Work
  BY DEF Plain, PlanTypeOK
<1>1. CASE Execute(p)
  <2>1. PICK t \in Targets :
            /\ work' = [work EXCEPT ![p] = [work[p] EXCEPT !.done = @ \cup {t},
                                                          !.kept = @ \cup {t}]]
            /\ manifests' = [manifests EXCEPT ![t] = work[p].plan]
    BY <1>1 DEF Execute
  <2>2. /\ work'[p].pc = work[p].pc /\ work'[p].plan = work[p].plan
        /\ work'[p].kept = work[p].kept \cup {t}
    BY <1>0, <2>1 DEF Work
  <2> QED BY <1>1, <2>1, <2>2 DEF Execute
<1>2. CASE Succeed(p)
  BY <1>0, <1>2 DEF Succeed, Work, diskVars
<1>f. CASE ExecuteFails(p)
  <2>1. /\ work'[p].pc \in {"rollback", "record"} /\ work'[p].plan = work[p].plan
        /\ work'[p].kept = work[p].kept
    BY <1>0, <1>f DEF ExecuteFails, Work
  <2> QED BY <1>f, <2>1 DEF ExecuteFails, diskVars
<1>3. CASE Rollback(p)
  <2>1. PICK t \in Targets :
            /\ work' = [work EXCEPT ![p] = Undone([work[p] EXCEPT !.kept = @ \ {t}], t)]
            /\ manifests' = [manifests EXCEPT ![t] = NoVersion]
            /\ work[p].pc = "rollback"
    BY <1>3 DEF Rollback, Undoes
  <2>2. /\ work'[p].pc \in {"rollback", "record"} /\ work'[p].plan = work[p].plan
        /\ work'[p].kept = work[p].kept \ {t}
    BY <1>0, <2>1 DEF Undone, Work
  <2> QED BY <1>3, <2>1, <2>2 DEF Rollback
<1>4. CASE RollbackFails(p)
  <2>1. PICK t \in Targets : /\ work' = [work EXCEPT ![p] = Undone(work[p], t)]
                             /\ work[p].pc = "rollback"
    BY <1>4 DEF RollbackFails, Undoes
  <2>2. /\ work'[p].pc \in {"rollback", "record"} /\ work'[p].plan = work[p].plan
        /\ work'[p].kept = work[p].kept
    BY <1>0, <2>1 DEF Undone, Work
  <2> QED BY <1>4, <2>2 DEF RollbackFails, diskVars
<1>5. CASE LoadForPlan(p) \/ WritePlan(p) \/ LoadForApply(p) \/ ReadPlan(p)
  BY <1>5 DEF LoadForPlan, WritePlan, LoadForApply, ReadPlan
<1>6. CASE Start(p) \/ Refused(p) \/ Finish(p)
  BY <1>6 DEF Start, Refused, Finish
<1> QED BY <1>1, <1>2, <1>f, <1>3, <1>4, <1>5, <1>6 DEF PlanStep

\* A step that leaves a manifest alone, and does not forget who wrote it.
LEMMA StillRecorded ==
    ASSUME ManifestsAreRecorded, NEW t \in Targets, manifests'[t] = manifests[t],
           records \subseteq records', lost => lost',
           \A q \in Procs : Changing(q) /\ t \in work[q].kept =>
               \/ lost'
               \/ \E r \in records' : r.plan = work[q].plan /\ t \in r.kept
               \/ Changing(q)' /\ work'[q].plan = work[q].plan /\ t \in work'[q].kept
    PROVE  manifests'[t] # NoVersion =>
               \/ lost'
               \/ \E r \in records' : r.plan = manifests'[t] /\ t \in r.kept
               \/ \E q \in Procs : /\ Changing(q)'
                                   /\ work'[q].plan = manifests'[t]
                                   /\ t \in work'[q].kept
  BY DEF ManifestsAreRecorded

LEMMA ManifestsAreRecordedStep ==
    ASSUME Plain, ManifestsAreRecorded, [PlanNext]_vars
    PROVE  ManifestsAreRecorded'
<1> SUFFICES ASSUME NEW t \in Targets
             PROVE  manifests'[t] # NoVersion =>
                        \/ lost'
                        \/ \E r \in records' : r.plan = manifests'[t] /\ t \in r.kept
                        \/ \E q \in Procs : /\ Changing(q)'
                                            /\ work'[q].plan = manifests'[t]
                                            /\ t \in work'[q].kept
  BY DEF ManifestsAreRecorded
<1>1. CASE UNCHANGED vars
  BY <1>1, StillRecorded DEF vars, diskVars, Changing
<1>2. CASE Edit
  <2>1. \A q \in Procs : /\ work'[q].pc = work[q].pc
                         /\ work'[q].plan = work[q].plan
                         /\ work'[q].kept = work[q].kept
    <3> SUFFICES ASSUME NEW q \in Procs
                 PROVE  /\ work'[q].pc = work[q].pc
                        /\ work'[q].plan = work[q].plan
                        /\ work'[q].kept = work[q].kept
      OBVIOUS
    <3>1. PICK e \in BOOLEAN : work'[q] = [work[q] EXCEPT !.edited = e]
      BY <1>2, EditStep
    <3>2. work[q] \in Work
      BY DEF Plain, PlanTypeOK
    <3> QED BY <3>1, <3>2 DEF Work
  <2>2. UNCHANGED <<manifests, records, lost>>
    BY <1>2 DEF Edit, diskVars
  <2>3. \A q \in Procs : Changing(q)' <=> Changing(q)
    BY <2>1 DEF Changing
  <2> QED BY <2>1, <2>2, <2>3, StillRecorded
<1>3. ASSUME NEW p \in Procs, PlanStep(p)
      PROVE  manifests'[t] # NoVersion =>
                 \/ lost'
                 \/ \E r \in records' : r.plan = manifests'[t] /\ t \in r.kept
                 \/ \E q \in Procs : /\ Changing(q)'
                                     /\ work'[q].plan = manifests'[t]
                                     /\ t \in work'[q].kept
  <2>1. \A q \in Procs \ {p} : work'[q] = work[q]
    BY <1>3, OthersStay DEF Plain
  <2>2. records \subseteq records' /\ (lost => lost')
    BY <1>3, DiskStep, LostStays
  <2>3. manifests \in [Targets -> Versions \cup {NoVersion}]
    BY DEF Plain, PlanTypeOK
  <2>4. ASSUME manifests'[t] = manifests[t],
               Changing(p) /\ t \in work[p].kept =>
                   \/ lost'
                   \/ \E r \in records' : r.plan = work[p].plan /\ t \in r.kept
                   \/ Changing(p)' /\ work'[p].plan = work[p].plan /\ t \in work'[p].kept
        PROVE  manifests'[t] # NoVersion =>
                   \/ lost'
                   \/ \E r \in records' : r.plan = manifests'[t] /\ t \in r.kept
                   \/ \E q \in Procs : /\ Changing(q)'
                                       /\ work'[q].plan = manifests'[t]
                                       /\ t \in work'[q].kept
    <3>1. \A q \in Procs : Changing(q) /\ t \in work[q].kept =>
              \/ lost'
              \/ \E r \in records' : r.plan = work[q].plan /\ t \in r.kept
              \/ Changing(q)' /\ work'[q].plan = work[q].plan /\ t \in work'[q].kept
      BY <2>1, <2>4 DEF Changing
    <3> QED BY <2>2, <2>4, <3>1, StillRecorded
  <2>5. CASE ~Changing(p)
    <3>1. manifests' = manifests
      BY <1>3, <2>5, DiskStep DEF Changing, At
    <3> QED BY <2>4, <2>5, <3>1
  <2>6. CASE Changing(p) /\ Die(p)
    BY <2>4, <2>6 DEF Die, Changing, diskVars
  <2>7. CASE Changing(p) /\ WriteRun(p)
    <3> DEFINE r == [plan |-> work[p].plan, status |-> work[p].status, kept |-> work[p].kept]
    <3>1. CASE lost' = TRUE
      BY <3>1
    <3>2. CASE records' = records \cup {r}
      <4>1. r \in records' /\ r.plan = work[p].plan /\ r.kept = work[p].kept
        BY <3>2
      <4> HIDE DEF r
      <4> QED BY <2>4, <2>7, <4>1 DEF WriteRun
    <3> QED BY <2>7, <3>1, <3>2 DEF WriteRun
  <2>8. CASE Changing(p) /\ ~Die(p) /\ ~WriteRun(p)
    <3>1. Changing(p)' /\ work'[p].plan = work[p].plan
      BY <1>3, <2>8, RunStep
    <3>2. CASE \E u \in Targets : /\ work'[p].kept = work[p].kept \cup {u}
                                 /\ manifests' = [manifests EXCEPT ![u] = work[p].plan]
      <4>1. PICK u \in Targets : /\ work'[p].kept = work[p].kept \cup {u}
                                 /\ manifests' = [manifests EXCEPT ![u] = work[p].plan]
        BY <3>2
      <4>2. CASE t = u
        <5>1. manifests'[t] = work'[p].plan /\ t \in work'[p].kept
          BY <2>3, <3>1, <4>1, <4>2
        <5> QED BY <3>1, <5>1
      <4>3. CASE t # u
        BY <2>3, <2>4, <3>1, <4>1, <4>3
      <4> QED BY <4>2, <4>3
    <3>3. CASE \E u \in Targets : /\ work'[p].kept = work[p].kept \ {u}
                                 /\ manifests' = [manifests EXCEPT ![u] = NoVersion]
      <4>1. PICK u \in Targets : /\ work'[p].kept = work[p].kept \ {u}
                                 /\ manifests' = [manifests EXCEPT ![u] = NoVersion]
        BY <3>3
      <4>2. CASE t = u
        BY <2>3, <4>1, <4>2
      <4>3. CASE t # u
        BY <2>3, <2>4, <3>1, <4>1, <4>3
      <4> QED BY <4>2, <4>3
    <3>4. CASE work'[p].kept = work[p].kept /\ manifests' = manifests
      BY <2>4, <3>1, <3>4
    <3> QED BY <1>3, <2>8, <3>2, <3>3, <3>4, RunStep
  <2> QED BY <2>5, <2>6, <2>7, <2>8
<1> QED BY <1>1, <1>2, <1>3 DEF PlanNext

-----------------------------------------------------------------------------
(* Exclusion: what a run has done is not disturbed.                         *)

\* Without the race, no two processes hold the lock.
Exclusive ==
    ~raced => \A p, q \in Procs : lockPc[p] = "held" /\ lockPc[q] = "held" => p = q

\* Up to the release of the lock, a run's manifests are those it wrote.
Owned ==
    ~raced => \A p \in Procs : lockPc[p] = "held" =>
                  \A t \in work[p].kept : manifests[t] = work[p].plan

LEMMA ExclusiveStep == ASSUME LP!IInv, [PlanNext]_vars PROVE Exclusive'
<1>1. LP!IInv'
  BY LockInvariantStep
<1> SUFFICES ASSUME ~raced', NEW p \in Procs, NEW q \in Procs,
                    lockPc'[p] = "held", lockPc'[q] = "held"
             PROVE  p = q
  BY DEF Exclusive
<1>2. fd'[p] = path' /\ fd'[q] = path'
  BY <1>1 DEF LP!IInv, LP!OpenIsLinked
<1>3. ex'[path'] = p /\ ex'[path'] = q
  BY <1>1, <1>2 DEF LP!IInv, LP!OwnersHaveLocks
<1> QED BY <1>3

\* The race is never undone.
LEMMA RaceStays == ASSUME NEW p \in Procs, PlanStep(p), raced PROVE raced'
<1>1. CASE UNCHANGED lockVars
  BY <1>1 DEF lockVars
<1>2. CASE Start(p)
  BY <1>2 DEF Start, Lock!AcquireOpen, Lock!AcquireLock, Lock!WriteInfo
<1>3. CASE Refused(p)
  BY <1>3 DEF Refused, Lock!AcquireRefused
<1>4. CASE Finish(p) /\ Lock!ReleaseUnlock(p)
  BY <1>4 DEF Lock!ReleaseUnlock
<1>5. CASE Finish(p) /\ Lock!Unlink(p)
  BY <1>5, Zenon DEF Lock!Unlink
<1>6. CASE Die(p)
  BY <1>6 DEF Die, Lock!Die, lockVars
<1> QED BY <1>1, <1>2, <1>3, <1>4, <1>5, <1>6
        DEF PlanStep, LoadForPlan, WritePlan, LoadForApply, ReadPlan, Execute, Succeed, ExecuteFails,
            Rollback, RollbackFails, WriteRun, Finish

\* How a process that changes nothing comes to hold the lock: it starts its run.
LEMMA StartStep ==
    ASSUME Plain, NEW p \in Procs, PlanStep(p), ~Changing(p), lockPc'[p] = "held"
    PROVE  /\ work'[p].pc = "execute" /\ work'[p].kept = {}
           /\ manifests' = manifests /\ half' = half
<1>0. /\ work \in [Procs -> Work] /\ work[p] \in Work /\ lockPc \in [Procs -> Lock!PCs]
      /\ Whole(work[p], lockPc[p])
  BY DEF Plain, PlanTypeOK, WorkOK, Lock!LockTypeOK
<1>1. CASE Start(p)
  <2>1. ~Lock!AcquireOpen(p) /\ ~Lock!AcquireLock(p)
    BY <1>0 DEF Lock!AcquireOpen, Lock!AcquireLock, Lock!Goto
  <2>2. work'[p] = [work[p] EXCEPT !.pc = "execute", !.status = Transition(@, "running")]
    BY <1>0, <1>1, <2>1 DEF Start, Become
  <2>3. work[p].kept = {}
    BY <1>0, <1>1 DEF Start, At, Whole, Shaped
  <2> QED BY <1>0, <1>1, <2>2, <2>3 DEF Start, diskVars, Work
<1>2. CASE LoadForPlan(p) \/ WritePlan(p) \/ LoadForApply(p) \/ ReadPlan(p)
  BY <1>0, <1>2 DEF LoadForPlan, WritePlan, LoadForApply, ReadPlan, At, lockVars, Whole, Fits
<1>3. CASE Refused(p)
  BY <1>0, <1>3 DEF Refused, Lock!AcquireRefused, Lock!Goto
<1>4. CASE Finish(p)
  BY <1>0, <1>4 DEF Finish, Lock!ReleaseUnlock, Lock!Unlink, Lock!Goto
<1>5. CASE Die(p)
  BY <1>0, <1>5 DEF Die, Lock!Die, Lock!Goto, lockVars
<1>6. CASE \/ Execute(p) \/ Succeed(p) \/ ExecuteFails(p) \/ Rollback(p) \/ RollbackFails(p)
           \/ WriteRun(p)
  BY <1>6 DEF Execute, Succeed, ExecuteFails, Undoes, Rollback, RollbackFails, WriteRun, At, Changing
<1> QED BY <1>1, <1>2, <1>3, <1>4, <1>5, <1>6 DEF PlanStep

LEMMA ChangingHolds ==
    ASSUME Plain, NEW p \in Procs, Changing(p) PROVE lockPc[p] = "held"
  BY DEF Plain, WorkOK, Whole, Fits, Changing

LEMMA OwnedStep ==
    ASSUME Plain, Exclusive, Owned, NEW p \in Procs, PlanStep(p)
    PROVE  Owned'
<1> SUFFICES ASSUME ~raced', NEW q \in Procs, lockPc'[q] = "held",
                    NEW t \in work'[q].kept
             PROVE  manifests'[t] = work'[q].plan
  BY DEF Owned
<1>1. ~raced
  BY RaceStays
<1>2. /\ manifests \in [Targets -> Versions \cup {NoVersion}] /\ work[p] \in Work /\ work \in [Procs -> Work]
      /\ lockPc \in [Procs -> Lock!PCs]
  BY DEF Plain, PlanTypeOK, Lock!LockTypeOK
<1>3. CASE q # p
  <2>1. work'[q] = work[q] /\ lockPc[q] = "held"
    BY <1>3, OthersStay DEF Plain
  <2>2. manifests' = manifests
    <3>1. ~Changing(p)
      BY <1>1, <1>3, <2>1, ChangingHolds DEF Exclusive
    <3> QED BY <3>1, DiskStep DEF Changing, At
  <2> QED BY <1>1, <2>1, <2>2 DEF Owned
<1>4. CASE q = p /\ ~Changing(p)
  BY <1>4, StartStep
<1>5. CASE q = p /\ Changing(p)
  <2>1. \A u \in work[p].kept : manifests[u] = work[p].plan
    BY <1>1, <1>5, ChangingHolds DEF Owned
  <2>2. ~Die(p)
    BY <1>2, <1>5 DEF Die, Lock!Die, Lock!Goto, lockVars, Changing, At
  <2>3. CASE WriteRun(p)
    BY <1>2, <1>5, <2>1, <2>3 DEF WriteRun, Become, Work
  <2>4. CASE ~WriteRun(p)
    <3>1. work'[p].plan = work[p].plan
      BY <1>5, <2>2, <2>4, RunStep
    <3>2. CASE \E u \in Targets : /\ work'[p].kept = work[p].kept \cup {u}
                                 /\ manifests' = [manifests EXCEPT ![u] = work[p].plan]
      <4>1. work[p].kept \subseteq Targets
        BY <1>2 DEF Work
      <4> QED BY <1>2, <1>5, <2>1, <3>1, <3>2, <4>1
    <3>3. CASE \E u \in Targets : /\ work'[p].kept = work[p].kept \ {u}
                                 /\ manifests' = [manifests EXCEPT ![u] = NoVersion]
      BY <1>2, <1>5, <2>1, <3>1, <3>3
    <3>4. CASE work'[p].kept = work[p].kept /\ manifests' = manifests
      BY <1>5, <2>1, <3>1, <3>4
    <3> QED BY <1>5, <2>2, <2>4, <3>2, <3>3, <3>4, RunStep
  <2> QED BY <2>3, <2>4
<1> QED BY <1>3, <1>4, <1>5

-----------------------------------------------------------------------------
(* Manifests agree.                                                         *)

\* What a rollback has passed by is what it could not remove.
LeftBehind(p) == At(p, "rollback") => work[p].kept \ work[p].undo \subseteq half

\* No run that has not succeeded wrote the manifest of s.
Clean(s) == s \notin half /\ \A p \in Procs : s \notin Begun(p)

Agree(m, s, t) ==
    (/\ m[s] # NoVersion /\ t \in outputs[m[s]]
     /\ m[t] # NoVersion /\ s \in outputs[m[t]])
    => m[s] = m[t]

Apart ==
    ~raced => /\ \A p \in Procs : LeftBehind(p)
              /\ \A s, t \in Targets : Clean(s) /\ Clean(t) => Agree(manifests, s, t)

\* A process without a run under way leaves the manifests and half alone.
LEMMA IdleStep ==
    ASSUME Plain, NEW p \in Procs, PlanStep(p), ~Changing(p)
    PROVE  half' = half /\ manifests' = manifests /\ ~Succeed(p)
<1>1. manifests' = manifests
  BY DiskStep DEF Changing, At
<1>2. ~Execute(p) /\ ~Succeed(p) /\ ~Rollback(p) /\ ~RollbackFails(p)
  BY DEF Execute, Succeed, Rollback, RollbackFails, Undoes, Changing, At
<1>3. CASE Die(p)
  BY <1>1, <1>2, <1>3 DEF Die, Begun, Changing
<1>4. CASE ~Die(p)
  <2>1. half' = half
    BY <1>2, <1>4 DEF PlanStep, LoadForPlan, WritePlan, LoadForApply, ReadPlan, Start, Refused,
                      ExecuteFails, WriteRun, Finish
  <2> QED BY <1>1, <1>2, <2>1
<1> QED BY <1>3, <1>4

LEMMA LeftBehindStep ==
    ASSUME Plain, Exclusive, ~raced, NEW p \in Procs, PlanStep(p),
           NEW q \in Procs, LeftBehind(q)
    PROVE  LeftBehind(q)'
<1>0. work[p] \in Work /\ work \in [Procs -> Work] /\ Whole(work[p], lockPc[p])
  BY DEF Plain, PlanTypeOK, WorkOK
<1> SUFFICES ASSUME work'[q].pc = "rollback"
             PROVE  work'[q].kept \ work'[q].undo \subseteq half'
  BY DEF LeftBehind, At
<1>1. CASE q # p
  <2>1. work'[q] = work[q]
    BY <1>1, OthersStay DEF Plain
  <2>2. ~Changing(p)
    BY <1>1, <2>1, ChangingHolds DEF Exclusive, Changing
  <2> QED BY <2>1, <2>2, IdleStep DEF LeftBehind, At
<1>2. CASE q = p
  <2>1. CASE ExecuteFails(p)
    <3>1. work[p].kept = work[p].done
      BY <1>0, <2>1 DEF ExecuteFails, At, Whole, Shaped
    <3>2. work'[p].kept = work[p].kept /\ work'[p].undo = work[p].done
      BY <1>0, <1>2, <2>1 DEF ExecuteFails, Become, Work
    <3> QED BY <1>2, <3>1, <3>2
  <2>2. CASE Rollback(p)
    <3>1. PICK t \in Targets :
              /\ At(p, "rollback")
              /\ work' = [work EXCEPT ![p] = Undone([work[p] EXCEPT !.kept = @ \ {t}], t)]
              /\ half' = half \ {t}
      BY <2>2 DEF Rollback, Undoes, Become
    <3>2. work'[p].kept = work[p].kept \ {t} /\ work'[p].undo = work[p].undo \ {t}
      BY <1>0, <3>1 DEF Undone, Work
    <3> QED BY <1>2, <3>1, <3>2 DEF LeftBehind
  <2>3. CASE RollbackFails(p)
    <3>1. PICK t \in Targets : /\ At(p, "rollback")
                               /\ work' = [work EXCEPT ![p] = Undone(work[p], t)]
                               /\ half' = half \cup {t}
      BY <2>3 DEF RollbackFails, Undoes, Become
    <3>2. work'[p].kept = work[p].kept /\ work'[p].undo = work[p].undo \ {t}
      BY <1>0, <3>1 DEF Undone, Work
    <3> QED BY <1>2, <3>1, <3>2 DEF LeftBehind
  <2>4. CASE Execute(p) \/ Succeed(p) \/ WriteRun(p)
    <3>1. work'[p].pc # "rollback"
      <4>1. CASE Execute(p)
        BY <1>0, <4>1 DEF Execute, At, Become, Work
      <4>2. CASE Succeed(p)
        BY <1>0, <4>2 DEF Succeed, Become, Work
      <4>3. CASE WriteRun(p)
        BY <1>0, <4>3 DEF WriteRun, Become, Resting
      <4> QED BY <2>4, <4>1, <4>2, <4>3
    <3> QED BY <1>2, <3>1
  <2>5. CASE LoadForPlan(p) \/ LoadForApply(p) \/ ReadPlan(p)
    <3>1. work'[p].pc # "rollback"
      <4>1. CASE LoadForPlan(p)
        BY <1>0, <4>1 DEF LoadForPlan, Become, Resting
      <4>2. CASE LoadForApply(p)
        BY <1>0, <4>2 DEF LoadForApply, Become, Resting
      <4>3. CASE ReadPlan(p)
        <5>1. Accept(p) \/ Become(p, Resting)
          BY <4>3 DEF ReadPlan
        <5>2. Resting.pc = "idle"
          BY DEF Resting
        <5>3. CASE Accept(p)
          <6>1. work'[p] = [work[p] EXCEPT !.pc = "acquire", !.plan = planFile,
                                           !.graph = NoVersion]
            BY <1>0, <5>3 DEF Accept, Become
          <6> QED BY <1>0, <6>1 DEF Work
        <5>4. CASE Become(p, Resting)
          BY <1>0, <5>2, <5>4 DEF Become
        <5> QED BY <5>1, <5>3, <5>4
      <4> QED BY <2>5, <4>1, <4>2, <4>3
    <3> QED BY <1>2, <3>1
  <2>6. CASE WritePlan(p) \/ Refused(p) \/ Die(p)
    <3>1. work'[p] = Resting
      BY <1>0, <2>6 DEF WritePlan, Refused, Die, Become
    <3> QED BY <1>2, <3>1 DEF Resting
  <2>7. CASE Start(p) \/ Finish(p)
    <3>1. work'[p].pc # "rollback"
      <4>1. CASE Start(p)
        <5>1. CASE UNCHANGED work
          BY <4>1, <5>1 DEF Start, At
        <5>2. CASE ~UNCHANGED work
          <6>1. work'[p] = [work[p] EXCEPT !.pc = "execute", !.status = Transition(@, "running")]
            BY <1>0, <4>1, <5>2 DEF Start, Become
          <6> QED BY <1>0, <6>1 DEF Work
        <5> QED BY <5>1, <5>2
      <4>2. CASE Finish(p)
        BY <1>0, <4>2 DEF Finish, At, Become, Resting
      <4> QED BY <2>7, <4>1, <4>2
    <3> QED BY <1>2, <3>1
  <2> QED BY <2>1, <2>2, <2>3, <2>4, <2>5, <2>6, <2>7 DEF PlanStep
<1> QED BY <1>1, <1>2

\* Other than by a run's success, a target becomes clean only by losing its
\* manifest.
LEMMA CleanStep ==
    ASSUME NEW p \in Procs, Plain, Plain', LeftBehind(p), PlanStep(p), ~Succeed(p),
           NEW s \in Targets, Clean(s)'
    PROVE  manifests'[s] = NoVersion \/ (manifests'[s] = manifests[s] /\ Clean(s))
<1>0. /\ manifests \in [Targets -> Versions \cup {NoVersion}]
      /\ work[p] \in Work /\ work \in [Procs -> Work] /\ Whole(work[p], lockPc[p])
  BY DEF Plain, PlanTypeOK, WorkOK
<1>1. s \notin half' /\ s \notin Begun(p)'
  BY DEF Clean
<1>2. \A q \in Procs \ {p} : s \notin Begun(q)
  BY OthersStay DEF Clean, Plain, Begun
<1> SUFFICES manifests'[s] = NoVersion \/ (/\ manifests'[s] = manifests[s]
                                           /\ s \notin half /\ s \notin Begun(p))
  BY <1>2 DEF Clean
<1>3. CASE ~Changing(p)
  BY <1>1, <1>3, IdleStep DEF Begun, Changing
<1>4. CASE Execute(p)
  <2>1. PICK t \in Targets :
            /\ work[p].pc = "execute"
            /\ work' = [work EXCEPT ![p] = [work[p] EXCEPT !.done = @ \cup {t},
                                                          !.kept = @ \cup {t}]]
            /\ manifests' = [manifests EXCEPT ![t] = work[p].plan]
            /\ half' = half \ {t}
    BY <1>4 DEF Execute, At, Become
  <2>2. work'[p].pc = "execute" /\ work'[p].kept = work[p].kept \cup {t}
    BY <1>0, <2>1 DEF Work
  <2>3. s # t /\ s \notin work[p].kept
    BY <1>1, <2>2 DEF Begun
  <2> QED BY <1>0, <1>1, <2>1, <2>3 DEF Begun
<1>5. CASE ExecuteFails(p)
  <2>1. /\ work[p].kept = work[p].done /\ work[p].pc = "execute"
        /\ half' = half /\ manifests' = manifests
    BY <1>0, <1>5 DEF ExecuteFails, At, Whole, Shaped, diskVars
  <2>2. work[p].done # {} => work'[p].pc = "rollback" /\ work'[p].kept = work[p].kept
    BY <1>0, <1>5 DEF ExecuteFails, Become, Work
  <2> QED BY <1>1, <2>1, <2>2 DEF Begun
<1>6. CASE Rollback(p) \/ RollbackFails(p)
  <2>0. work[p].kept \in SUBSET Targets
    BY <1>0 DEF Work
  <2>1. PICK t \in Targets, K \in SUBSET Targets :
            /\ K = work[p].kept \/ K = work[p].kept \ {t}
            /\ work[p].pc = "rollback"
            /\ work'[p] = Undone([work[p] EXCEPT !.kept = K], t)
            /\ \/ half' = half \ {t} /\ manifests' = [manifests EXCEPT ![t] = NoVersion]
               \/ half' = half \cup {t} /\ manifests' = manifests
    <3>1. CASE Rollback(p)
      <4>1. PICK t \in Targets :
                /\ work[p].pc = "rollback"
                /\ work'[p] = Undone([work[p] EXCEPT !.kept = work[p].kept \ {t}], t)
                /\ half' = half \ {t} /\ manifests' = [manifests EXCEPT ![t] = NoVersion]
        BY <1>0, <3>1 DEF Rollback, Undoes, At, Become
      <4> QED BY <2>0, <4>1
    <3>2. CASE RollbackFails(p)
      <4>1. [work[p] EXCEPT !.kept = work[p].kept] = work[p]
        BY <1>0 DEF Work
      <4>2. PICK t \in Targets :
                /\ work[p].pc = "rollback"
                /\ work'[p] = Undone(work[p], t)
                /\ half' = half \cup {t} /\ manifests' = manifests
        BY <1>0, <3>2 DEF RollbackFails, Undoes, At, Become, diskVars
      <4> QED BY <2>0, <4>1, <4>2
    <3> QED BY <1>6, <3>1, <3>2
  <2>2. /\ work'[p].kept = K
        /\ work'[p].pc = IF work[p].undo = {t} THEN "record" ELSE "rollback"
    BY <1>0, <2>1 DEF Undone, Work
  <2>3. CASE s = t
    BY <1>0, <1>1, <2>1, <2>3
  <2>4. CASE s # t
    <3>1. manifests'[s] = manifests[s] /\ s \notin half
      BY <1>0, <1>1, <2>1, <2>4
    <3>2. CASE work[p].undo = {t}
      <4>1. work[p].kept \ {t} \subseteq half
        BY <2>1, <3>2 DEF LeftBehind, At
      <4> QED BY <2>4, <3>1, <4>1 DEF Begun
    <3>3. CASE work[p].undo # {t}
      <4>1. s \notin K
        BY <1>1, <2>2, <3>3 DEF Begun
      <4> QED BY <2>1, <2>4, <3>1, <4>1 DEF Begun
    <3> QED BY <3>2, <3>3
  <2> QED BY <2>3, <2>4
<1>7. CASE WriteRun(p)
  BY <1>1, <1>7 DEF WriteRun, At, Begun
<1>8. CASE Die(p)
  BY <1>1, <1>8 DEF Die, diskVars
<1>9. CASE \/ LoadForPlan(p) \/ WritePlan(p) \/ LoadForApply(p) \/ ReadPlan(p)
           \/ Start(p) \/ Refused(p) \/ Finish(p)
  <2>1. ~Changing(p)
    BY <1>9 DEF LoadForPlan, WritePlan, LoadForApply, ReadPlan, Start, Refused, Finish, At,
                Changing
  <2> QED BY <1>3, <2>1
<1> QED BY <1>4, <1>5, <1>6, <1>7, <1>8, <1>9 DEF PlanStep

\* When a run succeeds, the targets of its plan all have that plan's manifest.
LEMMA SuccessAgrees ==
    ASSUME Plain, Owned, Apart, ~raced, NEW p \in Procs, Succeed(p),
           NEW s \in Targets, NEW t \in Targets, Clean(s)', Clean(t)'
    PROVE  Agree(manifests, s, t)
<1>0. work[p] \in Work /\ work \in [Procs -> Work] /\ Whole(work[p], lockPc[p])
  BY DEF Plain, PlanTypeOK, WorkOK
<1>1. /\ work[p].kept = outputs[work[p].plan]
      /\ \A u \in work[p].kept : manifests[u] = work[p].plan
  <2>1. work[p].kept = outputs[work[p].plan] /\ lockPc[p] = "held"
    BY <1>0 DEF Succeed, At, Left, Whole, Shaped, Fits
  <2> QED BY <2>1 DEF Owned
<1>2. CASE s \in work[p].kept \/ t \in work[p].kept
  BY <1>1, <1>2 DEF Agree
<1>3. CASE s \notin work[p].kept /\ t \notin work[p].kept
  <2>1. half' = half /\ \A q \in Procs \ {p} : work'[q] = work[q]
    BY <1>0 DEF Succeed, Become
  <2>2. ASSUME NEW u \in Targets, u \notin work[p].kept, Clean(u)' PROVE Clean(u)
    <3>1. u \notin half
      BY <2>1, <2>2 DEF Clean
    <3>2. \A q \in Procs \ {p} : u \notin Begun(q)
      BY <2>1, <2>2 DEF Clean, Begun
    <3> QED BY <2>2, <3>1, <3>2 DEF Clean, Begun
  <2> QED BY <1>3, <2>2 DEF Apart
<1> QED BY <1>2, <1>3

LEMMA ApartStep ==
    ASSUME Plain, Plain', Exclusive, Owned, Apart, NEW p \in Procs, PlanStep(p)
    PROVE  Apart'
<1> SUFFICES ASSUME ~raced'
             PROVE  /\ \A q \in Procs : LeftBehind(q)'
                    /\ \A s, t \in Targets : Clean(s)' /\ Clean(t)' => Agree(manifests, s, t)'
  BY DEF Apart
<1>1. ~raced
  BY RaceStays
<1>2. \A q \in Procs : LeftBehind(q)'
  BY <1>1, LeftBehindStep DEF Apart
<1>3. ASSUME NEW s \in Targets, NEW t \in Targets, Clean(s)', Clean(t)'
      PROVE  Agree(manifests, s, t)'
  <2>0. outputs' = outputs
    BY DiskStep
  <2>1. CASE Succeed(p)
    <3>1. manifests' = manifests
      BY <2>1 DEF Succeed, diskVars
    <3>2. Agree(manifests, s, t)
      BY <1>1, <1>3, <2>1, SuccessAgrees
    <3> QED BY <2>0, <3>1, <3>2 DEF Agree
  <2>2. CASE ~Succeed(p)
    <3>1. /\ manifests'[s] = NoVersion \/ (manifests'[s] = manifests[s] /\ Clean(s))
          /\ manifests'[t] = NoVersion \/ (manifests'[t] = manifests[t] /\ Clean(t))
      BY <1>1, <1>3, <2>2, CleanStep DEF Apart
    <3>2. Clean(s) /\ Clean(t) => Agree(manifests, s, t)
      BY <1>1 DEF Apart
    <3> QED BY <2>0, <3>1, <3>2 DEF Agree
  <2> QED BY <2>1, <2>2
<1> QED BY <1>2, <1>3

-----------------------------------------------------------------------------
(* Drift.                                                                   *)

\* What a command read of the project is not from its future, and it is the
\* present where drift was looked for and no edit came in between.
Dated(w, s) ==
    /\ w.graph <= s /\ w.plan <= s
    /\ w.pc = "apply" /\ ~w.edited => w.graph = s
    /\ w.pc \in {"acquire", "execute"} /\ ~w.force /\ ~w.edited => w.plan = s

NothingFromTheFuture ==
    /\ planFile <= source
    /\ \A t \in Targets : manifests[t] <= source
    /\ \A p \in Procs : Dated(work[p], source)

LEMMA RestingIsDated == ASSUME NEW s \in Versions PROVE Dated(Resting, s)
  BY DEF Dated, Resting, Versions, NoVersion

LEMMA CommandIsDated ==
    ASSUME Plain, NothingFromTheFuture, NEW p \in Procs, PlanStep(p)
    PROVE  Dated(work'[p], source)
<1> USE DEF Become, At
<1>0. /\ work \in [Procs -> Work] /\ work[p] \in Work /\ Dated(work[p], source)
      /\ source \in Versions /\ planFile <= source
      /\ source \in Nat /\ NoVersion <= source
  BY DEF Plain, PlanTypeOK, NothingFromTheFuture, Versions, NoVersion
<1>r. Dated(Resting, source)
  BY <1>0, RestingIsDated
<1>1. CASE LoadForPlan(p)
  <2> DEFINE v == [Resting EXCEPT !.pc = "plan", !.graph = source]
  <2>1. v.pc = "plan" /\ v.graph = source /\ v.plan = NoVersion
    BY DEF Resting
  <2>2. work'[p] = v
    BY <1>0, <1>1 DEF LoadForPlan
  <2> HIDE DEF v
  <2> QED BY <1>0, <2>1, <2>2 DEF Dated
<1>2. CASE LoadForApply(p)
  <2>1. PICK f \in Forces : work'[p] = [Resting EXCEPT !.pc = "apply", !.force = f,
                                                       !.graph = source]
    BY <1>0, <1>2 DEF LoadForApply
  <2>2. work'[p].pc = "apply" /\ work'[p].graph = source /\ work'[p].plan = NoVersion
    BY <2>1 DEF Resting
  <2> QED BY <1>0, <2>2 DEF Dated
<1>3. CASE ReadPlan(p)
  <2>1. CASE Accept(p) /\ (work[p].force \/ planFile = work[p].graph)
    <3> DEFINE v == [work[p] EXCEPT !.pc = "acquire", !.plan = planFile, !.graph = NoVersion]
    <3>1. /\ v.pc = "acquire" /\ v.plan = planFile /\ v.graph = NoVersion
          /\ v.force = work[p].force /\ v.edited = work[p].edited
      BY <1>0 DEF Work
    <3>2. work'[p] = v /\ work[p].pc = "apply"
      BY <1>0, <1>3, <2>1 DEF Accept, ReadPlan
    <3> HIDE DEF v
    <3> QED BY <1>0, <2>1, <3>1, <3>2 DEF Dated
  <2>2. CASE Become(p, Resting)
    BY <1>0, <1>r, <2>2
  <2> QED BY <1>3, <2>1, <2>2 DEF ReadPlan
<1>4. CASE Start(p)
  <2>1. CASE UNCHANGED work
    BY <1>0, <2>1
  <2>2. CASE Become(p, [work[p] EXCEPT !.pc = "execute", !.status = Transition(@, "running")])
    <3>1. /\ work'[p].pc = "execute" /\ work[p].pc = "acquire"
          /\ work'[p].plan = work[p].plan /\ work'[p].graph = work[p].graph
          /\ work'[p].force = work[p].force /\ work'[p].edited = work[p].edited
      BY <1>0, <1>4, <2>2 DEF Start, Work
    <3> QED BY <1>0, <3>1 DEF Dated
  <2> QED BY <1>4, <2>1, <2>2 DEF Start
<1>5. CASE WritePlan(p) \/ Refused(p) \/ Die(p)
  BY <1>0, <1>r, <1>5 DEF WritePlan, Refused, Die
<1>6. CASE Finish(p)
  BY <1>0, <1>r, <1>6 DEF Finish
<1>7. CASE \/ Execute(p) \/ Succeed(p) \/ ExecuteFails(p) \/ Rollback(p) \/ RollbackFails(p)
           \/ WriteRun(p)
  <2>1. CASE WriteRun(p)
    <3>1. work'[p] = [Resting EXCEPT !.pc = "release", !.plan = work[p].plan,
                                     !.kept = work[p].kept]
      BY <1>0, <2>1 DEF WriteRun
    <3>2. work'[p].pc = "release" /\ work'[p].plan = work[p].plan /\ work'[p].graph = NoVersion
      BY <3>1 DEF Resting
    <3> QED BY <1>0, <3>2 DEF Dated
  <2>2. CASE ~WriteRun(p)
    <3>1. /\ work'[p].plan = work[p].plan /\ work'[p].graph = work[p].graph
          /\ work'[p].force = work[p].force /\ work'[p].edited = work[p].edited
          /\ work'[p].pc \in {"record", "rollback"} \/ work'[p].pc = work[p].pc
      <4>1. CASE Execute(p)
        <5>1. PICK u \in Targets :
                  work'[p] = [work[p] EXCEPT !.done = @ \cup {u}, !.kept = @ \cup {u}]
          BY <1>0, <4>1 DEF Execute
        <5> QED BY <1>0, <5>1 DEF Work
      <4>2. CASE Succeed(p) \/ ExecuteFails(p)
        <5>1. CASE Succeed(p)
          BY <1>0, <5>1 DEF Succeed, Work
        <5>2. CASE ExecuteFails(p)
          BY <1>0, <5>2 DEF ExecuteFails, Work
        <5> QED BY <4>2, <5>1, <5>2
      <4>3. CASE Rollback(p) \/ RollbackFails(p)
        <5>1. ASSUME NEW w \in Work, NEW u
              PROVE  /\ Undone(w, u).plan = w.plan /\ Undone(w, u).graph = w.graph
                     /\ Undone(w, u).force = w.force /\ Undone(w, u).edited = w.edited
                     /\ Undone(w, u).pc \in {"record", w.pc}
          BY DEF Undone, Work
        <5>2. PICK u \in Targets, w \in Work :
                  /\ w = work[p] \/ w = [work[p] EXCEPT !.kept = work[p].kept \ {u}]
                  /\ work'[p] = Undone(w, u)
          <6>1. CASE Rollback(p)
            <7>1. PICK u \in Targets :
                      work'[p] = Undone([work[p] EXCEPT !.kept = work[p].kept \ {u}], u)
              BY <1>0, <6>1 DEF Rollback
            <7>2. [work[p] EXCEPT !.kept = work[p].kept \ {u}] \in Work
              BY <1>0 DEF Work
            <7> QED BY <7>1, <7>2
          <6>2. CASE RollbackFails(p)
            BY <1>0, <6>2 DEF RollbackFails
          <6> QED BY <4>3, <6>1, <6>2
        <5>3. /\ w.plan = work[p].plan /\ w.graph = work[p].graph
              /\ w.force = work[p].force /\ w.edited = work[p].edited /\ w.pc = work[p].pc
          BY <1>0, <5>2 DEF Work
        <5> QED BY <5>1, <5>2, <5>3
      <4> QED BY <1>7, <2>2, <4>1, <4>2, <4>3
    <3> QED BY <1>0, <3>1 DEF Dated
  <2> QED BY <2>1, <2>2
<1> QED BY <1>1, <1>2, <1>3, <1>4, <1>5, <1>6, <1>7 DEF PlanStep

LEMMA NothingFromTheFutureStep ==
    ASSUME Plain, NothingFromTheFuture, [PlanNext]_vars
    PROVE  NothingFromTheFuture'
<1>0. /\ source \in Nat /\ planFile \in Nat /\ manifests \in [Targets -> Nat]
      /\ work \in [Procs -> Work]
  BY DEF Plain, PlanTypeOK, Versions, NoVersion
<1>1. CASE UNCHANGED vars
  BY <1>1 DEF vars, diskVars, NothingFromTheFuture
<1>2. CASE Edit
  <2>1. source' = source + 1 /\ planFile' = planFile /\ manifests' = manifests
    BY <1>2 DEF Edit, diskVars
  <2>2. ASSUME NEW p \in Procs PROVE Dated(work'[p], source + 1)
    <3>1. /\ work'[p].plan = work[p].plan /\ work'[p].graph = work[p].graph
          /\ work'[p].pc = work[p].pc
          /\ work[p].pc \in {"apply", "acquire", "execute"} => work'[p].edited
      <4> DEFINE e == work[p].edited \/ work[p].pc \in {"apply", "acquire", "execute"}
      <4>1. work'[p] = [work[p] EXCEPT !.edited = e]
        BY <1>2 DEF Edit
      <4>2. work[p] \in Work
        BY <1>0
      <4> HIDE DEF e
      <4>3. /\ work'[p].plan = work[p].plan /\ work'[p].graph = work[p].graph
            /\ work'[p].pc = work[p].pc /\ work'[p].edited = e
        BY <4>1, <4>2 DEF Work
      <4> QED BY <4>3 DEF e
    <3>2. work[p].graph \in Nat /\ work[p].plan \in Nat
      BY <1>0 DEF Work, Versions, NoVersion
    <3> QED BY <1>0, <3>1, <3>2 DEF NothingFromTheFuture, Dated
  <2> QED BY <1>0, <2>1, <2>2 DEF NothingFromTheFuture
<1>3. ASSUME NEW p \in Procs, PlanStep(p) PROVE NothingFromTheFuture'
  <2>1. source' = source /\ (planFile' = planFile \/ planFile' = work[p].graph)
    BY <1>3, DiskStep
  <2>2. work[p].graph <= source /\ work[p].plan <= source
    BY DEF NothingFromTheFuture, Dated
  <2>3. \A t \in Targets : manifests'[t] \in {manifests[t], work[p].plan, NoVersion}
    BY <1>0, <1>3, DiskStep
  <2>5. NoVersion <= source
    BY <1>0 DEF NoVersion
  <2>4. \A q \in Procs : Dated(work'[q], source)
    BY <1>3, CommandIsDated, OthersStay DEF Plain, NothingFromTheFuture
  <2> QED BY <1>0, <2>1, <2>2, <2>3, <2>4, <2>5 DEF NothingFromTheFuture
<1> QED BY <1>1, <1>2, <1>3 DEF PlanNext

\* A run that was not forced, and during which nobody edited the project, writes
\* the plan of the present, and there is nothing newer on disk.
LEMMA OnlyForward ==
    ASSUME Plain, NothingFromTheFuture, PlanNext, NEW p \in Procs, work'[p] # work[p],
           At(p, "execute"), ~work[p].force, ~work[p].edited, NEW t \in Targets
    PROVE  manifests'[t] >= manifests[t]
<1>0. /\ manifests \in [Targets -> Nat] /\ manifests[t] \in Nat /\ manifests[t] <= source
      /\ work[p].plan = source /\ source \in Nat
  BY DEF Plain, PlanTypeOK, NothingFromTheFuture, Dated, At, Versions, NoVersion
<1>1. CASE Edit
  BY <1>0, <1>1 DEF Edit, diskVars
<1>2. CASE PlanStep(p)
  <2>1. ~At(p, "rollback")
    BY DEF At
  <2> QED BY <1>0, <1>2, <2>1, DiskStep
<1>3. ASSUME NEW q \in Procs, PlanStep(q) PROVE q = p
  BY <1>3, OthersStay DEF Plain
<1> QED BY <1>1, <1>2, <1>3 DEF PlanNext

-----------------------------------------------------------------------------
(* The invariant, and what follows from it.                                 *)

ApplyInv == /\ LP!IInv
            /\ Plain
            /\ Exclusive
            /\ Owned
            /\ Apart
            /\ RecordsAreFinal
            /\ ManifestsAreRecorded
            /\ NothingFromTheFuture

LEMMA InitApplyInv == PlanInit => ApplyInv
<1> SUFFICES ASSUME PlanInit PROVE ApplyInv
  OBVIOUS
<1>1. LP!IInv /\ Lock!LockTypeOK
  BY DEF PlanInit, Lock!LockInit, Lock!LockTypeOK, Lock!PCs, LP!IInv, LP!LockTypeOK, LP!PCs,
         LP!OpenMeansOpen, LP!LocksHaveOwners, LP!OwnersHaveLocks, LP!HoldersAreNamed,
         LP!OpenIsLinked, LP!Holds
<1>2. \A p \in Procs : work[p] = Resting /\ lockPc[p] = "idle"
  BY DEF PlanInit, Lock!LockInit
<1>v. 1 \in Versions /\ NoVersion <= 1
  BY DEF Versions, NoVersion
<1>3. PlanTypeOK
  BY <1>1, <1>v, RestingType DEF PlanInit, PlanTypeOK
<1>4. Plain /\ Exclusive /\ Owned
  BY <1>2, <1>3, RestingIsWhole DEF Plain, WorkOK, Exclusive, Owned
<1>5. Apart /\ RecordsAreFinal /\ ManifestsAreRecorded
  BY <1>2 DEF PlanInit, Apart, LeftBehind, Agree, At, Resting, RecordsAreFinal,
              ManifestsAreRecorded
<1>6. NothingFromTheFuture
  BY <1>2, <1>v, RestingIsDated DEF PlanInit, NothingFromTheFuture
<1> QED BY <1>1, <1>4, <1>5, <1>6 DEF ApplyInv

LEMMA StepApplyInv == ApplyInv /\ [PlanNext]_vars => ApplyInv'
<1> SUFFICES ASSUME ApplyInv, [PlanNext]_vars PROVE ApplyInv'
  OBVIOUS
<1> USE DEF ApplyInv
<1>1. LP!IInv' /\ Plain' /\ Exclusive'
  BY LockInvariantStep, PlainStep, ExclusiveStep
<1>2. RecordsAreFinal' /\ ManifestsAreRecorded'
  BY RecordsAreFinalStep, ManifestsAreRecordedStep
<1>3. Owned' /\ Apart'
  <2>1. CASE UNCHANGED vars
    BY <2>1 DEF vars, lockVars, diskVars, Owned, Apart, LeftBehind, Clean, Begun, Agree, At
  <2>2. CASE Edit
    <3>1. \A q \in Procs : /\ work'[q].pc = work[q].pc
                           /\ work'[q].plan = work[q].plan
                           /\ work'[q].undo = work[q].undo
                           /\ work'[q].kept = work[q].kept
      <4> SUFFICES ASSUME NEW q \in Procs
                   PROVE  /\ work'[q].pc = work[q].pc
                          /\ work'[q].plan = work[q].plan
                          /\ work'[q].undo = work[q].undo
                          /\ work'[q].kept = work[q].kept
        OBVIOUS
      <4>1. PICK e \in BOOLEAN : work'[q] = [work[q] EXCEPT !.edited = e]
        BY <2>2, EditStep
      <4>2. work[q] \in Work
        BY DEF Plain, PlanTypeOK
      <4> QED BY <4>1, <4>2 DEF Work
    <3>2. /\ lockPc' = lockPc /\ raced' = raced /\ manifests' = manifests /\ half' = half
          /\ outputs' = outputs
      BY <2>2 DEF Edit, lockVars, diskVars
    <3> QED BY <3>1, <3>2 DEF Owned, Apart, LeftBehind, Clean, Begun, Agree, At
  <2>3. ASSUME NEW p \in Procs, PlanStep(p) PROVE Owned' /\ Apart'
    BY <1>1, <2>3, OwnedStep, ApartStep
  <2> QED BY <2>1, <2>2, <2>3 DEF PlanNext
<1>4. NothingFromTheFuture'
  BY NothingFromTheFutureStep
<1> QED BY <1>1, <1>2, <1>3, <1>4

LEMMA AlwaysApplyInv == PlanSpec => []ApplyInv
  BY InitApplyInv, StepApplyInv, PTL DEF PlanSpec

\* Type correctness of the commands, the disk and the lock.
THEOREM PlanTypes == PlanSpec => []PlanTypeOK
<1>1. ApplyInv => PlanTypeOK
  BY DEF ApplyInv, Plain
<1> QED BY AlwaysApplyInv, <1>1, PTL

\* Applies of any number of processes over any number of targets, interleaved in
\* any way, dying anywhere and failing to undo, with the targets changing from
\* plan to plan, never leave two targets with manifests of two plans that both
\* have both: what remains of the hazard is the race of the lock file's unlink,
\* and the manifests of runs that stopped half-way.
THEOREM AppliesDoNotMix == PlanSpec => []ManifestsAgree
<1>1. ApplyInv => ManifestsAgree
  <2> SUFFICES ASSUME ApplyInv, ~raced, \A p \in Procs : ~Changing(p),
                      NEW s \in Targets \ half, NEW t \in Targets \ half
               PROVE  Agree(manifests, s, t)
    BY DEF ManifestsAgree, Agree
  <2>1. Clean(s) /\ Clean(t)
    BY DEF Clean, Begun, Changing
  <2> QED BY <2>1 DEF ApplyInv, Apart
<1> QED BY AlwaysApplyInv, <1>1, PTL

\* Until it releases the lock, a run finds on disk what its steps say it wrote.
THEOREM RunsAreIsolated == PlanSpec => []RunOwnsManifests
<1>1. ApplyInv => RunOwnsManifests
  BY ChangingHolds DEF ApplyInv, Owned, RunOwnsManifests, Lock!Holds
<1> QED BY AlwaysApplyInv, <1>1, PTL

\* A manifest that no run and no record speaks of means that a run died or could
\* not write its record: rollbacks that fail, refusals and drift do not make one.
THEOREM NothingIsUnaccounted == PlanSpec => []ManifestsAreRecorded
<1>1. ApplyInv => ManifestsAreRecorded
  BY DEF ApplyInv
<1> QED BY AlwaysApplyInv, <1>1, PTL

\* The transitions apply makes are all in the ledger's table, so that a record
\* never says "running" of a run that is over, whatever the number of actions.
THEOREM RecordsAreTerminal == PlanSpec => []RecordsAreFinal
<1>1. ApplyInv => RecordsAreFinal
  BY DEF ApplyInv
<1> QED BY AlwaysApplyInv, <1>1, PTL

\* The drift check before the lock is enough: an apply without --force replaces a
\* manifest by an older one only if the project was edited while it was running,
\* whatever other applies and plans ran in between.
THEOREM DriftNeedsAnEdit == PlanSpec => OnlyAnEditHidesDrift
<1> DEFINE A == \A p \in Procs :
                  (work'[p] # work[p] /\ At(p, "execute") /\ ~work[p].force /\ ~work[p].edited)
                  => \A t \in Targets : manifests'[t] >= manifests[t]
<1>1. ASSUME ApplyInv, PlanNext PROVE A
  BY <1>1, OnlyForward DEF ApplyInv
<1>2. ApplyInv /\ [PlanNext]_vars => [A]_vars
  BY <1>1
<1> QED BY AlwaysApplyInv, <1>2, PTL DEF PlanSpec, OnlyAnEditHidesDrift
=============================================================================
