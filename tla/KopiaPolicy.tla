---------------------------- MODULE KopiaPolicy ----------------------------
(***************************************************************************)
(* The reconciler that gives a Kopia vault the policy its jobs ask for     *)
(* (kopiapolicy/reconciler.go) on the row of kopia_policy_state that says  *)
(* whether backups may run (database/kopia_policy.go), with the fences by  *)
(* which a native process that outlives its call is recognised, the timers *)
(* that retry an error, and the jobs, backups, maintenance and deletions   *)
(* around it.                                                              *)
(*                                                                         *)
(* One vault. A digest stands for the policy derived from the jobs, which  *)
(* the row names in the transaction that changes a job; applied_digest is  *)
(* left out, being the desired one exactly when the state is "ready". One  *)
(* action is one database statement, one stretch under the manager's mutex *)
(* or one native command. The vault's lock has one owner: VaultLock.       *)
(* Closing a fence does not fail, nor does the reading of the row after a  *)
(* pass of maintenance; if they did, the fence would be left to the next   *)
(* pass, and nothing would be done about the retry.                        *)
(***************************************************************************)
EXTENDS Integers, FiniteSets

CONSTANTS
    Digests, Fences, Timers, None,
    Mixed,      \* a native policy that no set of jobs asks for
    Users,      \* who uses the vault beside the worker
    Outlive,    \* after what a native process may live on: a crash, its call's return
    Hazards,    \* which of Causes happen
    Budget      \* bound: how often, all together

ASSUME SentinelsAssumption ==
    /\ None \notin Digests \cup Fences \cup Timers
    /\ None \notin {"worker", "maintenance", "backup", "cleanup"}
    /\ Mixed \notin Digests
ASSUME UsersAssumption == Users \subseteq {"maintenance", "backup", "cleanup"}
ASSUME OutliveAssumption == Outlive \subseteq {"crash", "return"}

\* An edit or a deletion of a job; a native command or the storage fails; the file
\* of a fence cannot be used; a database statement fails; somebody else changes the
\* policy; the application stops or crashes.
Causes == {"edit", "fault", "fence", "db", "drift", "stop"}
ASSUME HazardsAssumption == Hazards \subseteq Causes /\ Budget \in Nat

VARIABLES
    row,        \* kopia_policy_state: desired_digest, state, active_fence_path
    native,     \* the policy in the vault
    unseen,     \* somebody else changed it and no inspection has looked since
    child,      \* the process that holds a fence after its call: what it does, or None
    holder,     \* who has the vault's lock
    pass,       \* the call of reconcileRepositoryUnderLock, made by the holder
    worker,     \* the goroutine of Manager.run, while manager.queued has the vault
    retry,      \* manager.retries: the timer armed last and whether it is pending
    due,        \* how far the goroutine of each timer is in retryDue
    owed,       \* job edits that have committed and not yet called QueueDirty
    cleaning,   \* the deletion of a job or the saving of vault care, under the lock
    admitted,   \* the digest under which the running backup was admitted, or None
    life,       \* "up", "stopping" or "down"
    left        \* what the bound leaves

local == <<worker, retry, due, owed>>
uses == <<cleaning, admitted>>
vars == <<row, native, unseen, child, holder, pass, worker, retry, due, owed,
          cleaning, admitted, life, left>>

NoPass == [pc |-> "none"]
NewPass == [pc |-> "derive", digest |-> None, keep |-> FALSE, fence |-> None,
            drift |-> FALSE, err |-> FALSE, failed |-> FALSE]
IdleWorker == [pc |-> "idle", again |-> FALSE, desired |-> None, fence |-> None, err |-> FALSE]

Init ==
    /\ \E d \in Digests : row = [desired |-> d, state |-> "dirty", fence |-> None]
    /\ native = Mixed /\ unseen = FALSE
    /\ child = [f \in Fences |-> None]
    /\ holder = None /\ pass = NoPass
    /\ worker = IdleWorker /\ retry = None
    /\ due = [t \in Timers |-> "idle"]
    /\ owed = 0 /\ cleaning = "no" /\ admitted = None
    /\ life = "down" /\ left = Budget

Spend(cause) == cause \in Hazards /\ left > 0 /\ left' = left - 1

-----------------------------------------------------------------------------
(* What the statements of database/kopia_policy.go do to the row.           *)

\* A row whose fence is recorded waits for that process; any other may start.
Open(r) == [r EXCEPT !.state = IF r.fence # None THEN "applying" ELSE "dirty"]

\* Mutant of Refreshed: an edit forgets the fence of the process that applies.
RefreshedForgetful(r, d) == [desired |-> d, state |-> "dirty", fence |-> None]

\* RefreshKopiaPolicyStatesTx, for jobs that ask for another digest.
Refreshed(r, d) == Open([r EXCEPT !.desired = d])

\* MarkAllKopiaPoliciesVerificationRequired.
Reverified(r) == Open(r)

\* MarkKopiaPolicyVerificationRequired, AdoptRepositoryVaultCare.
CanClose(r) == r.state # "applying" /\ r.fence = None
Closed(r) == [r EXCEPT !.state = "dirty"]

\* BeginKopiaPolicyApplication.
CanBegin(r, d) == r.desired = d /\ r.state # "applying"
Begun(r, f) == [r EXCEPT !.state = "applying", !.fence = f]

\* Mutant of Reset: the row keeps the fence that was found inactive.
ResetKeepingFence(r) == [r EXCEPT !.state = "dirty"]

\* ResetInterruptedKopiaPolicyApplication.
CanReset(r, d, f) == r.desired = d /\ r.fence = f /\ r.state # "ready"
Reset(r) == [r EXCEPT !.state = "dirty", !.fence = None]

\* MarkKopiaPolicyErrorKeepingFence.
CanPark(r, d, f) == r.desired = d /\ r.fence = f /\ f # None /\ r.state # "ready"
Parked(r) == [r EXCEPT !.state = "error"]

\* MarkKopiaPolicyFenceCleanupError.
CanMarkFence(r, d) == r.desired = d /\ r.state # "applying"
FenceMarked(r, f) == [r EXCEPT !.state = "error", !.fence = f]

\* MarkKopiaPolicyReconciliationError.
CanBlame(r, d) == r.desired = d /\ r.state = "dirty"
Blamed(r) == [r EXCEPT !.state = "error", !.fence = None]

\* Mutant of Outcome: a readiness that maintenance found stands whatever it saw.
OutcomeBlind(p) == IF ~p.failed \/ p.keep THEN "ready" ELSE "error"

\* FinishKopiaPolicyApplication: maintenance that failed to read leaves a vault
\* that was ready as it was, unless it saw a difference. Every change follows a
\* difference seen.
Outcome(p) == IF ~p.failed \/ (p.keep /\ ~p.drift) THEN "ready" ELSE "error"
Finished(r, p) == [r EXCEPT !.state = Outcome(p), !.fence = None]

-----------------------------------------------------------------------------
(* The queue of the manager and its retries.                                *)

\* Queue.
Queued(w) ==
    IF life # "up" THEN w
    ELSE IF w.pc = "idle" THEN [w EXCEPT !.pc = "look"] ELSE [w EXCEPT !.again = TRUE]

Pending == retry # None /\ retry.pending

\* armLocked: a new timer; one that has fired already can no longer be stopped.
Arm ==
    \E t \in Timers :
        /\ due'[t] = "idle"
        /\ retry' = [timer |-> t, pending |-> TRUE]

\* retryAfterFailure.
RetryAfterFailure == IF life = "up" THEN Arm ELSE UNCHANGED retry

\* retryLater.
RetryLater == IF life = "up" /\ ~Pending THEN Arm ELSE UNCHANGED retry

\* retrySucceeded.
RetrySucceeded == retry' = None

-----------------------------------------------------------------------------
(* One pass over the policy, under the vault's lock: by the worker, or by    *)
(* maintenance.                                                              *)

\* The command of a pass fails: of itself, or because the manager stops.
Fails ==
    \/ Spend("fault")
    \/ holder = "worker" /\ life = "stopping" /\ UNCHANGED left

At(pc) == pass.pc = pc /\ UNCHANGED <<holder, worker, owed, uses, life, due>>
Goto(pc) == pass' = [pass EXCEPT !.pc = pc]
Over(err) == pass' = [NewPass EXCEPT !.pc = "over", !.err = err]
Return == Over(TRUE)

\* DeriveKopiaPolicyDesired.
Derive ==
    /\ At("derive")
    /\ pass' = [pass EXCEPT !.pc = "read", !.digest = row.desired]
    /\ UNCHANGED <<row, native, unseen, child, retry, left>>

\* GetKopiaPolicyState, and what it says of an earlier process.
Read ==
    /\ At("read")
    /\ IF row.desired # pass.digest THEN Return
       ELSE pass' = [pass EXCEPT !.pc = IF row.fence # None THEN "prove" ELSE "begin",
                                 !.fence = row.fence,
                                 !.keep = holder = "maintenance" /\ row.state = "ready"]
    /\ UNCHANGED <<row, native, unseen, child, retry, left>>

\* NativeProcessFenceInactiveAfterClose.
Inactive(f) == child[f] = None

Prove ==
    /\ At("prove")
    /\ \/ Inactive(pass.fence) /\ Goto("reset") /\ UNCHANGED left
       \/ ~Inactive(pass.fence) /\ Goto("hold") /\ UNCHANGED left
       \/ Spend("fence") /\ Goto("hold")
    /\ UNCHANGED <<row, native, unseen, child, retry>>

\* The fence is held: the row is parked as an error that keeps it.
Hold ==
    /\ At("hold") /\ Return
    /\ \/ CanPark(row, pass.digest, pass.fence) /\ row' = Parked(row) /\ UNCHANGED left
       \/ ~CanPark(row, pass.digest, pass.fence) /\ UNCHANGED <<row, left>>
       \/ Spend("db") /\ UNCHANGED row
    /\ UNCHANGED <<native, unseen, child, retry>>

Recover ==
    /\ At("reset")
    /\ \/ /\ CanReset(row, pass.digest, pass.fence)
          /\ row' = Reset(row) /\ Goto("sweepOld") /\ UNCHANGED left
       \/ ~CanReset(row, pass.digest, pass.fence) /\ Return /\ UNCHANGED <<row, left>>
       \/ Spend("db") /\ Return /\ UNCHANGED row
    /\ UNCHANGED <<native, unseen, child, retry>>

\* cleanupFencePath, of a fence that was recovered or of the pass's own.
Sweep ==
    /\ At(pass.pc) /\ pass.pc \in {"sweepOld", "sweep"}
    /\ \/ /\ Inactive(pass.fence)
          /\ IF pass.pc = "sweepOld" THEN Goto("begin") ELSE Over(pass.failed)
          /\ UNCHANGED left
       \/ ~Inactive(pass.fence) /\ Goto("mark") /\ UNCHANGED left
       \/ Spend("fence") /\ Goto("mark")
    /\ UNCHANGED <<row, native, unseen, child, retry>>

\* The fence could not be removed, which is recorded with the fence.
MarkFence ==
    /\ At("mark") /\ Return
    /\ \/ CanMarkFence(row, pass.digest) /\ row' = FenceMarked(row, pass.fence) /\ UNCHANGED left
       \/ ~CanMarkFence(row, pass.digest) /\ UNCHANGED <<row, left>>
       \/ Spend("db") /\ UNCHANGED row
    /\ UNCHANGED <<native, unseen, child, retry>>

\* A fence of its own, which the row names before the first command. A path is
\* new each time.
Begin ==
    /\ At("begin")
    /\ \/ \E f \in Fences :
             /\ CanBegin(row, pass.digest) /\ child[f] = None /\ f \notin {row.fence, worker.fence}
             /\ row' = Begun(row, f)
             /\ pass' = [pass EXCEPT !.pc = "inspect", !.fence = f]
             /\ UNCHANGED left
       \/ ~CanBegin(row, pass.digest) /\ Return /\ UNCHANGED <<row, left>>
       \/ (Spend("fence") \/ Spend("db")) /\ Return /\ UNCHANGED row
    /\ UNCHANGED <<native, unseen, child, retry>>

\* A command ends with an error; of its process something may live on.
Fail(kind) ==
    /\ Fails
    /\ pass' = [pass EXCEPT !.pc = "finish", !.failed = TRUE]
    /\ child' \in {child} \cup (IF "return" \in Outlive
                                THEN {[child EXCEPT ![pass.fence] = kind]} ELSE {})

\* inspectManagedPolicies; or the protected root of an enrolled vault cannot be
\* read first, after which no readiness is kept.
Inspect ==
    /\ At("inspect")
    /\ \/ /\ pass' = [pass EXCEPT !.pc = IF native = pass.digest THEN "care" ELSE "write",
                                  !.drift = native # pass.digest]
          /\ unseen' = FALSE
          /\ UNCHANGED <<child, left>>
       \/ Fail("reads") /\ UNCHANGED unseen
       \/ /\ Spend("fault")
          /\ pass' = [pass EXCEPT !.pc = "finish", !.failed = TRUE, !.keep = FALSE]
          /\ UNCHANGED <<child, unseen>>
    /\ UNCHANGED <<row, native, retry>>

\* The commands that set the policy, between which it is neither.
Write ==
    /\ \/ At("write") /\ native' = Mixed /\ Goto("writing") /\ UNCHANGED <<child, left>>
       \/ At("writing") /\ native' = pass.digest /\ Goto("readback") /\ UNCHANGED <<child, left>>
       \/ /\ At(pass.pc) /\ pass.pc \in {"write", "writing"}
          /\ Fail(pass.digest) /\ UNCHANGED native
    /\ UNCHANGED <<row, unseen, retry>>

\* verifyManagedPolicySnapshot.
Readback ==
    /\ At("readback")
    /\ \/ /\ pass' = [pass EXCEPT !.pc = IF native = pass.digest THEN "care" ELSE "finish",
                                  !.failed = native # pass.digest]
          /\ unseen' = FALSE
          /\ UNCHANGED <<child, left>>
       \/ Fail("reads") /\ UNCHANGED unseen
    /\ UNCHANGED <<row, native, retry>>

\* The effective policies and, once more, the protected root of an enrolled vault.
Care ==
    /\ At("care")
    /\ \/ Goto("finish") /\ UNCHANGED <<child, left>>
       \/ Fail("reads")
       \/ /\ Spend("fault")
          /\ pass' = [pass EXCEPT !.pc = "finish", !.failed = TRUE, !.keep = FALSE]
          /\ UNCHANGED child
    /\ UNCHANGED <<row, native, unseen, retry>>

\* finishKopiaPolicyApplication and fence.Close.
Finish ==
    /\ At("finish")
    /\ \/ /\ row.desired = pass.digest
          /\ row' = Finished(row, pass)
          /\ Goto("sweep")
          /\ UNCHANGED left
       \/ row.desired # pass.digest /\ Return /\ UNCHANGED <<row, left>>
       \/ Spend("db") /\ Return /\ UNCHANGED row
    /\ UNCHANGED <<native, unseen, child, retry>>

PassStep ==
    \/ Derive \/ Read \/ Prove \/ Hold \/ Recover \/ Sweep \/ MarkFence \/ Begin
    \/ Inspect \/ Write \/ Readback \/ Care \/ Finish

-----------------------------------------------------------------------------
(* The worker: Manager.run and reconcile.                                    *)

WorkerAt(pc) == worker.pc = pc /\ UNCHANGED <<native, unseen, child, holder, pass, due, owed, uses, life>>
WorkerTo(pc) == worker' = [IdleWorker EXCEPT !.pc = pc, !.again = worker.again]

\* The row as it is before the pass.
Look ==
    /\ WorkerAt("look")
    /\ \/ life = "stopping" /\ WorkerTo("next") /\ UNCHANGED left
       \/ /\ life = "up" /\ row.state \in {"ready", "error"}
          /\ WorkerTo(IF row.state = "error" THEN "later" ELSE "next")
          /\ UNCHANGED left
       \/ /\ life = "up" /\ row.state \notin {"ready", "error"}
          /\ worker' = [worker EXCEPT !.pc = "lock", !.desired = row.desired, !.fence = row.fence]
          /\ UNCHANGED left
       \/ Spend("db") /\ WorkerTo("next")
    /\ UNCHANGED <<row, retry>>

Later == WorkerAt("later") /\ RetryLater /\ WorkerTo("next") /\ UNCHANGED <<row, left>>

\* The wait for the lock ends with the manager.
GiveUp ==
    /\ WorkerAt("lock") /\ life = "stopping"
    /\ WorkerTo("next")
    /\ UNCHANGED <<row, retry, left>>

\* ReconcileRepository: the lock, and the admission of the vault.
Take ==
    /\ worker.pc = "lock" /\ life = "up" /\ holder = None
    /\ \/ /\ holder' = "worker" /\ pass' = NewPass
          /\ WorkerTo("pass") /\ UNCHANGED left
       \/ /\ Spend("fault")
          /\ worker' = [worker EXCEPT !.pc = "judge", !.err = TRUE]
          /\ UNCHANGED <<holder, pass>>
    /\ UNCHANGED <<row, native, unseen, child, retry, due, owed, uses, life>>

Leave ==
    /\ holder = "worker" /\ pass.pc = "over"
    /\ holder' = None /\ pass' = NoPass
    /\ worker' = [worker EXCEPT !.pc = "judge", !.err = pass.err]
    /\ UNCHANGED <<row, native, unseen, child, retry, due, owed, uses, life, left>>

\* Mutant of Verdict: a row found applying is left to whoever applies it.
VerdictHasty(r, w) ==
    CASE r.state = "ready" -> "succeeded"
      [] r.state = "error" -> "failed"
      [] r.state = "applying" -> "next"
      [] OTHER -> IF r.desired # w.desired THEN "look" ELSE IF w.err THEN "blame" ELSE "next"

\* What the row says after the pass.
Verdict(r, w) ==
    CASE r.state = "ready" -> "succeeded"
      [] r.state = "error" -> "failed"
      [] r.state = "applying" -> IF r.desired # w.desired \/ r.fence # w.fence THEN "look" ELSE "park"
      [] OTHER -> IF r.desired # w.desired THEN "look" ELSE IF w.err THEN "blame" ELSE "next"

Judge ==
    /\ WorkerAt("judge")
    /\ \/ /\ LET verdict == IF life = "stopping" THEN "next" ELSE Verdict(row, worker)
             IN  IF verdict \in {"park", "blame"}
                 THEN worker' = [worker EXCEPT !.pc = verdict]
                 ELSE WorkerTo(verdict)
          /\ UNCHANGED left
       \/ Spend("db") /\ WorkerTo("next")
    /\ UNCHANGED <<row, retry>>

\* What follows, in a step of its own: the row may have moved on.
Succeeded == WorkerAt("succeeded") /\ RetrySucceeded /\ WorkerTo("next") /\ UNCHANGED <<row, left>>
Failed == WorkerAt("failed") /\ RetryAfterFailure /\ WorkerTo("next") /\ UNCHANGED <<row, left>>

Park ==
    /\ WorkerAt("park")
    /\ \/ /\ CanPark(row, worker.desired, worker.fence)
          /\ row' = Parked(row) /\ WorkerTo("failed") /\ UNCHANGED left
       \/ /\ ~CanPark(row, worker.desired, worker.fence)
          /\ WorkerTo("next") /\ UNCHANGED <<row, left>>
       \/ Spend("db") /\ WorkerTo("next") /\ UNCHANGED row
    /\ UNCHANGED retry

Blame ==
    /\ WorkerAt("blame")
    /\ \/ /\ CanBlame(row, worker.desired)
          /\ row' = Blamed(row) /\ WorkerTo("failed") /\ UNCHANGED left
       \/ ~CanBlame(row, worker.desired) /\ WorkerTo("next") /\ UNCHANGED <<row, left>>
       \/ Spend("db") /\ WorkerTo("next") /\ UNCHANGED row
    /\ UNCHANGED retry

\* Again, when a signal came meanwhile.
Continue ==
    /\ WorkerAt("next")
    /\ worker' = IF worker.again /\ life = "up" THEN [IdleWorker EXCEPT !.pc = "look"] ELSE IdleWorker
    /\ UNCHANGED <<row, retry, left>>

WorkerStep ==
    \/ Look \/ Later \/ GiveUp \/ Leave \/ Judge \/ Succeeded \/ Failed \/ Park \/ Blame \/ Continue

-----------------------------------------------------------------------------
(* The timers and retryDue.                                                  *)

DueAt(t, pc) == due[t] = pc /\ UNCHANGED <<native, unseen, child, holder, pass, owed, uses, life>>
DueTo(t, pc) == due' = [due EXCEPT ![t] = pc]

Fire(t) ==
    /\ DueAt(t, "idle") /\ Pending /\ retry.timer = t
    /\ DueTo(t, "fired")
    /\ UNCHANGED <<row, worker, retry, left>>

\* Only the timer that is still pending goes on.
Wake(t) ==
    /\ DueAt(t, "fired")
    /\ IF life = "up" /\ retry = [timer |-> t, pending |-> TRUE]
       THEN DueTo(t, "reopen") /\ retry' = [retry EXCEPT !.pending = FALSE]
       ELSE DueTo(t, "idle") /\ UNCHANGED retry
    /\ UNCHANGED <<row, worker, left>>

\* RetryKopiaPolicyForRepository.
Reopen(t) ==
    /\ DueAt(t, "reopen")
    /\ \/ row.state = "error" /\ row' = Open(row) /\ DueTo(t, "queue") /\ UNCHANGED left
       \/ row.state # "error" /\ DueTo(t, "peek") /\ UNCHANGED <<row, left>>
       \/ Spend("db") /\ DueTo(t, "again") /\ UNCHANGED row
    /\ UNCHANGED <<worker, retry>>

QueueRetry(t) ==
    /\ DueAt(t, "queue") /\ DueTo(t, "idle")
    /\ worker' = Queued(worker)
    /\ UNCHANGED <<row, retry, left>>

\* Somebody else moved the row on, perhaps to where the retry has no use.
Peek(t) ==
    /\ DueAt(t, "peek")
    /\ \/ DueTo(t, IF row.state = "ready" THEN "forget" ELSE "idle") /\ UNCHANGED left
       \/ Spend("db") /\ DueTo(t, "idle")
    /\ UNCHANGED <<row, worker, retry>>

\* The retry that fired has not been armed again.
StillFired(t) == retry = [timer |-> t, pending |-> FALSE]

Forget(t) ==
    /\ DueAt(t, "forget") /\ DueTo(t, "idle")
    /\ retry' = IF StillFired(t) THEN None ELSE retry
    /\ UNCHANGED <<row, worker, left>>

RetryAgain(t) ==
    /\ DueAt(t, "again") /\ DueTo(t, "idle")
    /\ RetryLater
    /\ UNCHANGED <<row, worker, left>>

TimerStep(t) ==
    \/ Fire(t) \/ Wake(t) \/ Reopen(t) \/ QueueRetry(t) \/ Peek(t) \/ Forget(t) \/ RetryAgain(t)

-----------------------------------------------------------------------------
(* Who else changes the row or uses the vault.                               *)

\* A job is saved, and later QueueDirty is called.
Edit(d) ==
    /\ life = "up" /\ d # row.desired /\ Spend("edit")
    /\ row' = Refreshed(row, d)
    /\ owed' = owed + 1
    /\ UNCHANGED <<native, unseen, child, holder, pass, worker, retry, due, uses, life>>

\* QueueDirty.
WorthQueueing(r) == r.state \in {"dirty", "applying"}

Signal ==
    /\ owed > 0 /\ owed' = owed - 1
    /\ \/ worker' = (IF WorthQueueing(row) THEN Queued(worker) ELSE worker) /\ UNCHANGED left
       \/ Spend("db") /\ UNCHANGED worker
    /\ UNCHANGED <<row, native, unseen, child, holder, pass, retry, due, uses, life>>

\* A backup: RequireKopiaPolicyReady under the lock, then the native command.
Backup ==
    /\ "backup" \in Users /\ life = "up" /\ holder = None /\ row.state = "ready"
    /\ holder' = "backup" /\ admitted' = row.desired
    /\ UNCHANGED <<row, native, unseen, child, pass, local, cleaning, life, left>>

BackupEnds ==
    /\ holder = "backup" /\ holder' = None /\ admitted' = None
    /\ UNCHANGED <<row, native, unseen, child, pass, local, cleaning, life, left>>

\* ReassureRepositoryUnderLock, in a run of maintenance.
Maintain ==
    /\ "maintenance" \in Users /\ life = "up" /\ holder = None
    /\ holder' = "maintenance" /\ pass' = NewPass
    /\ UNCHANGED <<row, native, unseen, child, local, uses, life, left>>

\* The row after it.
Reassured ==
    /\ At("over") /\ holder = "maintenance"
    /\ Goto(CASE row.state = "ready" -> "reassured"
              [] row.state = "error" /\ pass.err -> "retry"
              [] OTHER -> "end")
    /\ UNCHANGED <<row, native, unseen, child, retry, left>>

Settle ==
    /\ At(pass.pc) /\ Goto("end")
    /\ \/ pass.pc = "reassured" /\ RetrySucceeded
       \/ pass.pc = "retry" /\ RetryLater
    /\ UNCHANGED <<row, native, unseen, child, left>>

MaintenanceEnds ==
    /\ holder = "maintenance" /\ pass.pc = "end"
    /\ holder' = None /\ pass' = NoPass
    /\ UNCHANGED <<row, native, unseen, child, local, uses, life, left>>

\* The deletion of a job, or the saving of vault care: readiness is closed ...
Clean ==
    /\ "cleanup" \in Users /\ life = "up" /\ holder = None /\ CanClose(row)
    /\ Spend("edit")
    /\ holder' = "cleanup" /\ cleaning' = "closed" /\ row' = Closed(row)
    /\ UNCHANGED <<native, unseen, child, pass, local, admitted, life>>

\* ... the job's native policy is deleted, as far as the command gets ...
CleanNative ==
    /\ cleaning = "closed" /\ cleaning' = "touched"
    /\ native' \in {native, Mixed}
    /\ UNCHANGED <<row, unseen, child, holder, pass, local, admitted, life, left>>

\* ... and then the job's row, unless something failed; the vault is queued, and
\* the lock given back.
CleanEnds ==
    /\ cleaning = "touched" /\ cleaning' = "no" /\ holder' = None
    /\ \/ \E d \in Digests \ {row.desired} : row' = Refreshed(row, d)
       \/ UNCHANGED row
    /\ worker' = Queued(worker)
    /\ UNCHANGED <<native, unseen, child, pass, retry, due, owed, admitted, life, left>>

\* Somebody else with access to the vault changes the policy.
Drift ==
    /\ Spend("drift")
    /\ native' = Mixed /\ unseen' = TRUE
    /\ UNCHANGED <<row, child, holder, pass, local, uses, life>>

\* What a process that lived on still does.
ChildWrites(f) ==
    /\ child[f] \in Digests
    /\ native' \in {Mixed, child[f]} \ {native}
    /\ UNCHANGED <<row, unseen, child, holder, pass, local, uses, life, left>>

ChildEnds(f) ==
    /\ child[f] # None
    /\ child' = [child EXCEPT ![f] = None]
    /\ UNCHANGED <<row, native, unseen, holder, pass, local, uses, life, left>>

-----------------------------------------------------------------------------
(* The application.                                                          *)

\* Manager.Stop.
Stop ==
    /\ life = "up" /\ Spend("stop")
    /\ life' = "stopping" /\ retry' = None
    /\ UNCHANGED <<row, native, unseen, child, holder, pass, worker, due, owed, uses>>

\* The goroutines that Stop waits for.
Drained == worker.pc = "idle" /\ \A t \in Timers : due[t] \in {"idle", "fired"}

\* Of the process everything ends but what holds a fence.
Gone ==
    /\ holder' = None /\ pass' = NoPass /\ worker' = IdleWorker /\ retry' = None
    /\ due' = [t \in Timers |-> "idle"]
    /\ owed' = 0 /\ cleaning' = "no" /\ admitted' = None
    /\ life' = "down"
    /\ UNCHANGED <<row, native, unseen>>

Exit ==
    /\ life = "stopping" /\ Drained /\ holder = None
    /\ Gone /\ UNCHANGED <<child, left>>

Doing == IF pass.pc \in {"write", "writing"} THEN pass.digest ELSE "reads"

Crash ==
    /\ life # "down" /\ Spend("stop")
    /\ Gone
    /\ child' \in {child} \cup
                  (IF "crash" \in Outlive /\ pass.pc \in {"inspect", "write", "writing", "readback", "care"}
                   THEN {[child EXCEPT ![pass.fence] = Doing]} ELSE {})

\* main.go: StartContext and QueueAll.
Restart ==
    /\ life = "down" /\ life' = "up"
    /\ row' = Reverified(row)
    /\ worker' = [worker EXCEPT !.pc = "look"]
    /\ UNCHANGED <<native, unseen, child, holder, pass, retry, due, owed, uses, left>>

UserStep == Reassured \/ Settle \/ MaintenanceEnds \/ CleanNative \/ CleanEnds

Next ==
    \/ PassStep \/ WorkerStep \/ Take
    \/ \E t \in Timers : TimerStep(t)
    \/ \E d \in Digests : Edit(d)
    \/ Signal \/ Backup \/ BackupEnds \/ Maintain \/ Clean \/ UserStep \/ Drift
    \/ \E f \in Fences : ChildWrites(f) \/ ChildEnds(f)
    \/ Stop \/ Exit \/ Crash \/ Restart

\* Goroutines run on, timers fire and commands end; the lock is given in turn
\* (VaultLock), so a waiter gets it though others keep taking it. No user need
\* come, and neither a backup nor a process that outlived its call need end.
Fairness ==
    /\ WF_vars(PassStep) /\ WF_vars(WorkerStep) /\ SF_vars(Take)
    /\ \A t \in Timers : WF_vars(TimerStep(t))
    /\ WF_vars(Signal) /\ WF_vars(UserStep)

Spec == Init /\ [][Next]_vars /\ Fairness

-----------------------------------------------------------------------------
(* Properties.                                                               *)

\* Every variable holds a value of its kind; pass and cleaning belong to the
\* holder of the lock.
TypeOK ==
    /\ row \in [desired : Digests, state : {"dirty", "applying", "ready", "error"},
                fence : Fences \cup {None}]
    /\ row.state \in {"dirty", "ready"} => row.fence = None
    /\ row.state = "applying" => row.fence # None
    /\ native \in Digests \cup {Mixed} /\ unseen \in BOOLEAN
    /\ child \in [Fences -> Digests \cup {"reads", None}]
    /\ holder \in {"worker", None} \cup Users
    /\ pass.pc # "none" <=> holder \in {"worker", "maintenance"}
    /\ worker.pc = "pass" <=> holder = "worker"
    /\ retry \in [timer : Timers, pending : BOOLEAN] \cup {None}
    /\ due \in [Timers -> {"idle", "fired", "reopen", "queue", "peek", "forget", "again"}]
    /\ owed \in 0 .. Budget
    /\ cleaning # "no" <=> holder = "cleanup"
    /\ admitted # None <=> holder = "backup"
    /\ life \in {"up", "stopping", "down"}

\* A vault that is ready has the policy its jobs ask for, and so has one that a
\* backup runs against, unless somebody else changed it since the application
\* last looked (RequireKopiaPolicyReady, FinishKopiaPolicyApplication). A native
\* process of an application that crashed is what could change it unnoticed.
PolicyHolds ==
    unseen \/ /\ row.state = "ready" => native = row.desired
              /\ admitted # None => native = admitted

\* No pass runs policy commands while the process of an earlier pass still holds
\* its fence (ErrKopiaPolicyFenceHeld, database/kopia_policy.go:21).
OneWriter ==
    pass.pc \in {"inspect", "write", "writing", "readback", "care"} =>
        \A f \in Fences : child[f] = None

\* While the application runs, a policy becomes ready again, whatever failed a
\* few times and whoever edits, unless a backup or a process of an earlier pass
\* never ends.
ReadyInTheEnd ==
    []<>(row.state = "ready" \/ life # "up" \/ holder = "backup"
         \/ \E f \in Fences : child[f] # None)

=============================================================================
