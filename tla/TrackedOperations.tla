-------------------------- MODULE TrackedOperations --------------------------
(***************************************************************************)
(* Work that is recorded as an operation and that outlives the request     *)
(* that started it: api/tracked_operation.go with its workers              *)
(* (tracked_workers.go, vault_removal.go, vault_admin_operations.go), the  *)
(* scheduler's repository tasks, the admission of backups as far as it     *)
(* meets them, the background lifetime of operationruntime/manager.go and  *)
(* the order of shutdown in main.go.                                       *)
(*                                                                         *)
(* All of these meet in four places: the operation rows, which hold back   *)
(* each other's admission; the vault locks; the definition gate of a job,  *)
(* a read-write mutex its deletion takes; and the cancel gate of an entry. *)
(* One action is one database transaction, one lock or gate call, or one   *)
(* stretch of native work under the lock, with the private steps around    *)
(* it. How a vault lock is granted is VaultLock, how a queued backup is    *)
(* dispatched is BackupCoordinator.                                        *)
(***************************************************************************)
EXTENDS Integers, FiniteSets

CONSTANTS
    Ops,         \* operations that may be asked for, each once
    Kind,        \* Kind[o]: one of Kinds
    VaultOf,     \* VaultOf[o]: the vault of the record; NoVault for a job deletion
    JobOf,       \* JobOf[o]: the job of the record; NoJob if it has none
    NoVault, NoJob,
    Vaults,
    Rank,        \* Rank[v]: the place of a vault in the order of the IDs
    Kopia,       \* the vaults whose engine is Kopia; the others are Restic vaults
    Jobs,
    TargetsOf,   \* TargetsOf[j]: the vaults of a job
    Requests,    \* foreground requests that take the vault lock themselves
    RequestVault,
    Free,        \* no holder of a lock
    MaxUnsaved,  \* bound: how many last writes may fail
    Cancellable, \* bound: the operations a user may cancel
    MayStop      \* bound: whether the application is quit

Tasks == {"restore", "check"}           \* their native command can be cancelled
Alterations == {"delete", "settings"}   \* not once they have started
Deletions == {"delete_job", "delete_repository"}
Tracked == Tasks \cup Alterations \cup Deletions
Kinds == Tracked \cup {"backup", "scheduled"}

ASSUME KindsAssumption == Kind \in [Ops -> Kinds]
ASSUME RecordsAssumption ==
    \A o \in Ops : /\ Kind[o] # "delete_job" => VaultOf[o] \in Vaults
                   /\ Kind[o] \in {"delete_job", "backup"} <=> JobOf[o] \in Jobs
ASSUME VaultsAssumption == /\ Kopia \subseteq Vaults /\ Rank \in [Vaults -> Nat]
                           /\ \A v, w \in Vaults : Rank[v] = Rank[w] => v = w
                           /\ TargetsOf \in [Jobs -> SUBSET Vaults]
                           /\ RequestVault \in [Requests -> Vaults]
ASSUME NamesAssumption == Free \notin Ops \cup Requests /\ Ops \cap Requests = {}
ASSUME BoundsAssumption == MaxUnsaved \in Nat /\ MayStop \in BOOLEAN

VARIABLES
    vaults, jobs, targets,  \* rows of repositories, backup_jobs, backup_job_targets
    row,      \* row[o]: operations.status, or "none"
    pc,       \* pc[o]: where the request, then the worker, of an operation is
    want,     \* want[o]: the vaults it has still to lock
    result,   \* result[o]: the status its worker means to save
    lock,     \* lock[v]: who holds the exclusive lock of a vault
    writer,   \* writer[j]: the deletion that holds or waits for the definition gate
    readers,  \* readers[j]: the admissions that hold the gate
    entry,    \* entry[o]: the cancel gate of its runtime entry, "none" if it has no entry
    ended,    \* operations whose own context was cancelled
    accepted, \* operations whose cancel request was answered "accepted"
    unsaved,  \* operations whose worker ended without saving a last status
    request,  \* request[q]: where a foreground request is
    stage     \* how far the shutdown of the application is

data == <<vaults, jobs, targets>>
gates == <<lock, writer, readers>>
runtime == <<entry, ended, accepted>>
vars == <<data, row, pc, want, result, gates, runtime, unsaved, request, stage>>

Active(o) == row[o] \in {"queued", "running"}
RequestSide == {"idle", "checked", "admitted", "refused"}
Over == {"idle", "refused", "ended"}
Worker(o) == pc[o] \notin RequestSide \cup {"ended"}

\* The context of a tracked operation ends with its cancel or at BeginStop; that of a
\* backup or a scheduled task when the producers stop.
Ended(o) ==
    \/ o \in ended
    \/ stage # "running" /\ Kind[o] \in Tracked
    \/ stage \in {"joining", "expired"}

GateHeld(j) == writer[j] \in Ops /\ readers[j] = {}

\* vaultRemovalPending.
RemovalPending(v) == \E r \in Ops : Kind[r] = "delete_repository" /\ VaultOf[r] = v /\ Active(r)

\* requireNoVaultChange.
VaultChangeActive(v) ==
    \E r \in Ops : Kind[r] \in {"settings", "delete_repository"} /\ VaultOf[r] = v /\ Active(r)

\* The count of active records of the same kind, vault and job.
SameActive(o) ==
    \E r \in Ops : /\ Active(r) /\ VaultOf[r] = VaultOf[o] /\ JobOf[r] = JobOf[o]
                   /\ Kind[r] = Kind[o] \/ {Kind[r], Kind[o]} = {"check", "scheduled"}

\* JobHasOtherActiveWork.
JobActive(j) == \E r \in Ops : JobOf[r] = j /\ Kind[r] # "delete_job" /\ Active(r)

\* RepositoryHasOtherActiveWork, which deleteRepository asks again in its transaction.
VaultActive(v) ==
    \E r \in Ops : /\ Active(r)
                   /\ \/ VaultOf[r] = v /\ Kind[r] # "delete_repository"
                      \/ Kind[r] = "delete_job" /\ v \in targets[JobOf[r]]

Init ==
    /\ vaults = Vaults /\ jobs = Jobs /\ targets = TargetsOf
    /\ row = [o \in Ops |-> "none"]
    /\ pc = [o \in Ops |-> "idle"]
    /\ want = [o \in Ops |-> {}]
    /\ result = [o \in Ops |-> "none"]
    /\ lock = [v \in Vaults |-> Free]
    /\ writer = [j \in Jobs |-> Free]
    /\ readers = [j \in Jobs |-> {}]
    /\ entry = [o \in Ops |-> "none"]
    /\ ended = {} /\ accepted = {} /\ unsaved = {}
    /\ request = [q \in Requests |-> "new"]
    /\ stage = "running"

Goto(o, l) == pc' = [pc EXCEPT ![o] = l]

\* The worker goes on to save the status r.
Conclude(o, r) == Goto(o, "save") /\ result' = [result EXCEPT ![o] = r]

\* TerminalStatus, for an error that is the context's own if that has ended.
StatusOfCancel(o) == IF Ended(o) THEN "interrupted" ELSE "failed"

-----------------------------------------------------------------------------
(* Mutants: plausible bugs, each written like the definition it stands for.  *)

\* The vaults of one job are locked against the order of the others.
MutLocksUnsorted(o) ==
    IF JobOf[o] = CHOOSE j \in Jobs : TRUE
    THEN {v \in want[o] : \A w \in want[o] : Rank[w] <= Rank[v]}
    ELSE {v \in want[o] : \A w \in want[o] : Rank[v] <= Rank[w]}

\* An admission does not see a deletion that holds the gate.
MutGateIgnored(o) ==
    /\ pc[o] = "idle" /\ Kind[o] = "backup"
    /\ stage \in {"running", "stopping", "draining"}
    /\ readers' = [readers EXCEPT ![JobOf[o]] = @ \cup {o}]
    /\ Goto(o, "using")
    /\ UNCHANGED <<data, row, want, result, lock, writer, runtime, unsaved, request, stage>>

\* The removal trusts the poll it made before it had the lock.
MutDeleteUnchecked(o) ==
    /\ pc[o] = "delete" /\ Kind[o] = "delete_repository"
    /\ vaults' = vaults \ {VaultOf[o]}
    /\ targets' = [j \in Jobs |-> targets[j] \ {VaultOf[o]}]
    /\ Conclude(o, "success") /\ UNCHANGED jobs
    /\ UNCHANGED <<row, want, gates, runtime, unsaved, request, stage>>

\* A refused start does not wait for the cancel that won.
MutRefusedAtOnce(o) ==
    /\ pc[o] = "commit"
    /\ IF entry[o] = "idle"
       THEN entry' = [entry EXCEPT ![o] = "closed"] /\ Goto(o, "activate") /\ UNCHANGED result
       ELSE UNCHANGED entry /\ Conclude(o, StatusOfCancel(o))
    /\ UNCHANGED <<data, row, want, gates, ended, accepted, unsaved, request, stage>>

\* The entry is removed whether the status was saved or not.
MutForgetUnsaved(o) ==
    /\ pc[o] = "forget"
    /\ entry' = [entry EXCEPT ![o] = "none"]
    /\ Goto(o, "ended")
    /\ UNCHANGED <<data, row, want, result, gates, ended, accepted, unsaved, request, stage>>

\* Requests are drained without ending their contexts.
MutRequestsNotCancelled(q) ==
    /\ request[q] = "working"
    /\ request' = [request EXCEPT ![q] = "answered"]
    /\ lock' = [v \in Vaults |-> IF lock[v] = q THEN Free ELSE lock[v]]
    /\ UNCHANGED <<data, row, pc, want, result, writer, readers, runtime, unsaved, stage>>

\* The callback forgets to end the context.
MutContextKept(o) ==
    /\ entry[o] = "inflight"
    /\ entry' = [entry EXCEPT ![o] = "accepted"]
    /\ accepted' = accepted \cup {o}
    /\ UNCHANGED <<data, row, pc, want, result, gates, ended, unsaved, request, stage>>

-----------------------------------------------------------------------------
(* Requests *)

\* The checks a request makes before anything is recorded. A job deletion asks here,
\* and only here, whether a vault of the job is being removed.
Ask(o) ==
    /\ pc[o] = "idle" /\ Kind[o] \in Tracked
    /\ stage \in {"running", "stopping"}
    /\ IF Kind[o] = "delete_job"
       THEN /\ JobOf[o] \in jobs
            /\ \A v \in targets[JobOf[o]] : ~RemovalPending(v)
       ELSE VaultOf[o] \in vaults
    /\ Goto(o, "checked")
    /\ UNCHANGED <<data, row, want, result, gates, runtime, unsaved, request, stage>>

\* BeginBackground: the worker is counted, or refused.
BeginBackground(o) ==
    /\ pc[o] = "checked"
    /\ Goto(o, IF stage = "running" THEN "admitted" ELSE "refused")
    /\ UNCHANGED <<data, row, want, result, gates, runtime, unsaved, request, stage>>

\* What QueueOperation refuses: a job deletion's record names no vault.
QueueRefused(o) ==
    \/ Kind[o] # "delete_job" /\ RemovalPending(VaultOf[o])
    \/ Kind[o] \in {"settings", "delete_repository"} /\ VaultChangeActive(VaultOf[o])
    \/ Kind[o] \in {"check", "delete", "delete_job"} /\ SameActive(o)

\* startTrackedOperation queues the record, registers its entry and starts the worker.
Queue(o) ==
    /\ pc[o] = "admitted"
    /\ IF QueueRefused(o)
       THEN Goto(o, "refused") /\ UNCHANGED <<row, want, entry>>
       ELSE /\ row' = [row EXCEPT ![o] = "queued"]
            /\ entry' = [entry EXCEPT ![o] = "idle"]
            /\ Goto(o, CASE Kind[o] = "delete_job" -> "gate"
                         [] Kind[o] = "delete_repository" -> "poll"
                         [] OTHER -> "lock")
            /\ want' = IF Kind[o] = "delete_job" THEN want
                       ELSE [want EXCEPT ![o] = {VaultOf[o]}]
    /\ UNCHANGED <<data, result, gates, ended, accepted, unsaved, request, stage>>

\* A scheduled or manual admission of a backup takes the job's gate for reading; it is
\* refused at once while a deletion holds it or waits for it.
UseDefinition(o) ==
    /\ pc[o] = "idle" /\ Kind[o] = "backup"
    /\ stage \in {"running", "stopping", "draining"}
    /\ IF writer[JobOf[o]] = Free
       THEN /\ readers' = [readers EXCEPT ![JobOf[o]] = @ \cup {o}]
            /\ Goto(o, "using")
       ELSE Goto(o, "refused") /\ UNCHANGED readers
    /\ UNCHANGED <<data, row, want, result, lock, writer, runtime, unsaved, request, stage>>

\* The admission's transaction, and the end of its hold on the gate.
AdmitBackup(o) ==
    /\ pc[o] = "using"
    /\ readers' = [readers EXCEPT ![JobOf[o]] = @ \ {o}]
    /\ IF /\ JobOf[o] \in jobs /\ VaultOf[o] \in targets[JobOf[o]]
          /\ ~SameActive(o) /\ ~RemovalPending(VaultOf[o])
       THEN /\ row' = [row EXCEPT ![o] = "queued"]
            /\ entry' = [entry EXCEPT ![o] = "idle"]
            /\ want' = [want EXCEPT ![o] = {VaultOf[o]}]
            /\ Goto(o, "lock")
       ELSE Goto(o, "refused") /\ UNCHANGED <<row, entry, want>>
    /\ UNCHANGED <<data, result, lock, writer, ended, accepted, unsaved, request, stage>>

-----------------------------------------------------------------------------
(* Waiting *)

\* HoldJobDefinitionForDeletion announces itself; GateHeld once the readers are gone.
AnnounceDeletion(o) ==
    /\ pc[o] = "gate" /\ writer[JobOf[o]] = Free
    /\ writer' = [writer EXCEPT ![JobOf[o]] = o]
    /\ Goto(o, "hold")
    /\ UNCHANGED <<data, row, want, result, lock, readers, runtime, unsaved, request, stage>>

HoldDefinition(o) ==
    /\ pc[o] = "hold" /\ GateHeld(JobOf[o])
    /\ Goto(o, "poll")
    /\ UNCHANGED <<data, row, want, result, gates, runtime, unsaved, request, stage>>

\* A job deletion locks the Kopia vaults of its job.
LocksOfJob(j) == targets[j] \cap Kopia

\* The poll of a job deletion finds the job idle: it loads the job and its vaults.
JobIdle(o) ==
    /\ pc[o] = "poll" /\ Kind[o] = "delete_job" /\ ~JobActive(JobOf[o])
    /\ IF JobOf[o] \in jobs
       THEN /\ want' = [want EXCEPT ![o] = LocksOfJob(JobOf[o])]
            /\ Goto(o, IF LocksOfJob(JobOf[o]) = {} THEN "commit" ELSE "lock")
            /\ UNCHANGED result
       ELSE Conclude(o, "failed") /\ UNCHANGED want
    /\ UNCHANGED <<data, row, gates, runtime, unsaved, request, stage>>

\* waitForVaultIdle.
VaultIdle(o) ==
    /\ pc[o] = "poll" /\ Kind[o] = "delete_repository" /\ ~VaultActive(VaultOf[o])
    /\ Goto(o, "lock")
    /\ UNCHANGED <<data, row, want, result, gates, runtime, unsaved, request, stage>>

\* The cancel gate is closed before anything of these kinds changes.
Irrevocable == Alterations \cup Deletions

\* Vaults are locked in the order of their IDs.
NextToLock(o) == {v \in want[o] : \A w \in want[o] : Rank[v] <= Rank[w]}

\* AcquireExclusiveContext returns the lock.
TakeLock(o) ==
    /\ pc[o] = "lock"
    /\ \E v \in NextToLock(o) :
           /\ lock[v] = Free
           /\ lock' = [lock EXCEPT ![v] = o]
           /\ want' = [want EXCEPT ![o] = @ \ {v}]
           /\ Goto(o, IF want[o] # {v} THEN "lock"
                      ELSE IF Kind[o] \in Irrevocable THEN "commit" ELSE "activate")
    /\ UNCHANGED <<data, row, result, writer, readers, runtime, unsaved, request, stage>>

\* A wait for idle or for a lock ends with the operation's context: notStarted.
StopWaiting(o) ==
    /\ pc[o] \in {"poll", "lock"} /\ Ended(o)
    /\ Conclude(o, "interrupted")
    /\ UNCHANGED <<data, row, want, gates, runtime, unsaved, request, stage>>

\* startWithoutCancel closes the gate; if a cancel was first it waits for the context.
StartWithoutCancel(o) ==
    /\ pc[o] = "commit"
    /\ IF entry[o] = "idle"
       THEN entry' = [entry EXCEPT ![o] = "closed"] /\ Goto(o, "activate")
       ELSE UNCHANGED entry /\ Goto(o, "cancelled")
    /\ UNCHANGED <<data, row, want, result, gates, ended, accepted, unsaved, request, stage>>

AwaitCancel(o) ==
    /\ pc[o] = "cancelled" /\ Ended(o)
    /\ Conclude(o, StatusOfCancel(o))
    /\ UNCHANGED <<data, row, want, gates, runtime, unsaved, request, stage>>

Activate(o) ==
    /\ pc[o] = "activate"
    /\ row' = [row EXCEPT ![o] = "running"]
    /\ Goto(o, "verify")
    /\ UNCHANGED <<data, want, result, gates, runtime, unsaved, request, stage>>

-----------------------------------------------------------------------------
(* Work under the lock *)

\* admitPersistedRepository, and the final admission of a command: nothing is started
\* for a vault or job that is gone, nor, where it can be cancelled, after a cancel.
Missing(o) == VaultOf[o] \notin vaults \/ (Kind[o] = "backup" /\ JobOf[o] \notin jobs)

AdmitNative(o) ==
    /\ pc[o] = "verify" /\ Kind[o] \notin Deletions
    /\ \/ ~Missing(o) /\ (Ended(o) => Kind[o] \in Alterations)
          /\ Goto(o, "native") /\ UNCHANGED result
       \/ Ended(o) /\ Conclude(o, "interrupted")
       \/ Missing(o) /\ Conclude(o, "failed")
    /\ UNCHANGED <<data, row, want, gates, runtime, unsaved, request, stage>>

\* The gate of an entry is closed once the native command is over.
CloseGate(o) == entry' = [entry EXCEPT ![o] = IF @ = "idle" THEN "closed" ELSE @]

\* A restore, check, maintenance or backup ends. Its own result decides the status; a
\* cancel shows only if the command ended with it. When the result of its step cannot
\* be saved the record is left running on purpose.
EndTask(o) ==
    /\ pc[o] = "native" /\ Kind[o] \notin Irrevocable
    /\ CloseGate(o)
    /\ \/ /\ \E r \in {"success", "failed"} \cup (IF Ended(o) THEN {"interrupted"} ELSE {}) :
                 Conclude(o, r)
          /\ UNCHANGED unsaved
       \/ /\ Cardinality(unsaved) < MaxUnsaved
          /\ unsaved' = unsaved \cup {o}
          /\ Goto(o, "release") /\ UNCHANGED result
    /\ UNCHANGED <<data, row, want, gates, ended, accepted, request, stage>>

\* A snapshot deletion or a settings save ends: only a shutdown can interrupt it.
EndAlteration(o) ==
    /\ pc[o] = "native" /\ Kind[o] \in Alterations
    /\ \E r \in {"success", "failed"} \cup (IF Ended(o) THEN {"interrupted"} ELSE {}) :
           Conclude(o, r)
    /\ UNCHANGED <<data, row, want, gates, runtime, unsaved, request, stage>>

\* ValidateJobDeletionAdmission.
VerifyJobDeletion(o) ==
    /\ pc[o] = "verify" /\ Kind[o] = "delete_job"
    /\ IF JobActive(JobOf[o]) THEN Conclude(o, "failed")
       ELSE Goto(o, "policies") /\ UNCHANGED result
    /\ UNCHANGED <<data, row, want, gates, runtime, unsaved, request, stage>>

\* The native policies of the job go, vault by vault; any of them may fail.
DeletePolicies(o) ==
    /\ pc[o] = "policies"
    /\ \/ Goto(o, "delete") /\ UNCHANGED result
       \/ targets[JobOf[o]] \cap Kopia # {} /\ Conclude(o, StatusOfCancel(o))
    /\ UNCHANGED <<data, row, want, gates, runtime, unsaved, request, stage>>

\* DeleteJob asks once more, in its transaction.
DeleteJob(o) ==
    /\ pc[o] = "delete" /\ Kind[o] = "delete_job"
    /\ IF JobActive(JobOf[o])
       THEN Conclude(o, "failed") /\ UNCHANGED data
       ELSE /\ jobs' = jobs \ {JobOf[o]}
            /\ targets' = [targets EXCEPT ![JobOf[o]] = {}]
            /\ Conclude(o, "success") /\ UNCHANGED vaults
    /\ UNCHANGED <<row, want, gates, runtime, unsaved, request, stage>>

\* CheckRepositoryDeletionEligibility: it does not look at job deletions.
VerifyRemoval(o) ==
    /\ pc[o] = "verify" /\ Kind[o] = "delete_repository"
    /\ IF \/ VaultOf[o] \notin vaults
          \/ \E r \in Ops \ {o} : VaultOf[r] = VaultOf[o] /\ Active(r)
                                  /\ Kind[r] # "delete_repository"
       THEN Conclude(o, "failed")
       ELSE Goto(o, "publish") /\ UNCHANGED result
    /\ UNCHANGED <<data, row, want, gates, runtime, unsaved, request, stage>>

\* The recovery profile is published for the last time, or cannot be.
PublishProfile(o) ==
    /\ pc[o] = "publish"
    /\ \/ Goto(o, "delete") /\ UNCHANGED result
       \/ Conclude(o, StatusOfCancel(o))
    /\ UNCHANGED <<data, row, want, gates, runtime, unsaved, request, stage>>

DeleteVault(o) ==
    /\ pc[o] = "delete" /\ Kind[o] = "delete_repository"
    /\ IF VaultActive(VaultOf[o])
       THEN Conclude(o, "failed") /\ UNCHANGED data
       ELSE /\ vaults' = vaults \ {VaultOf[o]}
            /\ targets' = [j \in Jobs |-> targets[j] \ {VaultOf[o]}]
            /\ Conclude(o, "success") /\ UNCHANGED jobs
    /\ UNCHANGED <<row, want, gates, runtime, unsaved, request, stage>>

-----------------------------------------------------------------------------
(* The end of a worker *)

\* finishWithCause: the gate is closed and the status saved, or given up after four tries.
Save(o) ==
    /\ pc[o] = "save"
    /\ CloseGate(o)
    /\ \/ row' = [row EXCEPT ![o] = result[o]] /\ UNCHANGED unsaved
       \/ /\ Cardinality(unsaved) < MaxUnsaved
          /\ unsaved' = unsaved \cup {o} /\ UNCHANGED row
    /\ Goto(o, "release")
    /\ UNCHANGED <<data, want, result, gates, ended, accepted, request, stage>>

\* The deferred calls of the work: vault locks, and the definition gate.
Release(o) ==
    /\ pc[o] = "release"
    /\ lock' = [v \in Vaults |-> IF lock[v] = o THEN Free ELSE lock[v]]
    /\ writer' = [j \in Jobs |-> IF writer[j] = o THEN Free ELSE writer[j]]
    /\ Goto(o, "forget")
    /\ UNCHANGED <<data, row, want, result, readers, runtime, unsaved, request, stage>>

\* release(op.persisted) and done: the entry of an unsaved operation stays.
Forget(o) ==
    /\ pc[o] = "forget"
    /\ entry' = IF o \in unsaved THEN entry ELSE [entry EXCEPT ![o] = "none"]
    /\ Goto(o, "ended")
    /\ UNCHANGED <<data, row, want, result, gates, ended, accepted, unsaved, request, stage>>

-----------------------------------------------------------------------------
(* The scheduler's repository tasks *)

TaskConcurrency == 2
Claims == {"claimed", "try", "start", "verify", "native", "save", "release", "forget"}
InTask(r) == Kind[r] = "scheduled" /\ pc[r] \in Claims

\* coordinator.admit: one task for a vault, until the scheduler stops.
ClaimVault(o) ==
    /\ pc[o] = "idle" /\ Kind[o] = "scheduled"
    /\ stage \in {"running", "stopping", "draining"}
    /\ VaultOf[o] \in vaults
    /\ ~ \E r \in Ops : InTask(r) /\ VaultOf[r] = VaultOf[o]
    /\ Goto(o, "claimed")
    /\ UNCHANGED <<data, row, want, result, gates, runtime, unsaved, request, stage>>

\* One of two slots, or the end of the scheduler; then an unavailable vault is deferred.
TakeSlot(o) ==
    /\ pc[o] = "claimed"
    /\ \/ /\ Cardinality({r \in Ops : InTask(r) /\ pc[r] # "claimed"}) < TaskConcurrency
          /\ Goto(o, "try")
       \/ Ended(o) /\ Goto(o, "ended")
    /\ UNCHANGED <<data, row, want, result, gates, runtime, unsaved, request, stage>>

\* YieldLowPriorityAndTryExclusiveContext: a busy vault is left for a later tick.
TryLock(o) ==
    /\ pc[o] = "try"
    /\ IF lock[VaultOf[o]] = Free
       THEN lock' = [lock EXCEPT ![VaultOf[o]] = o] /\ Goto(o, "start")
       ELSE UNCHANGED lock /\ Goto(o, "ended")
    /\ UNCHANGED <<data, row, want, result, writer, readers, runtime, unsaved, request, stage>>

\* StartRepositoryOperation inserts the running row, under the lock.
StartTask(o) ==
    /\ pc[o] = "start"
    /\ IF VaultOf[o] \notin vaults \/ RemovalPending(VaultOf[o]) \/ SameActive(o)
       THEN Goto(o, "release") /\ UNCHANGED <<row, entry>>
       ELSE /\ row' = [row EXCEPT ![o] = "running"]
            /\ entry' = [entry EXCEPT ![o] = "idle"]
            /\ Goto(o, "verify")
    /\ UNCHANGED <<data, want, result, gates, ended, accepted, unsaved, request, stage>>

-----------------------------------------------------------------------------
(* Users and shutdown *)

\* Cancel puts the gate in flight and runs the callback outside the mutex.
BeginCancel(o) ==
    /\ o \in Cancellable /\ entry[o] = "idle"
    /\ entry' = [entry EXCEPT ![o] = "inflight"]
    /\ UNCHANGED <<data, row, pc, want, result, gates, ended, accepted, unsaved, request, stage>>

\* The callback has ended the context; the answer is "accepted".
AcceptCancel(o) ==
    /\ entry[o] = "inflight"
    /\ entry' = [entry EXCEPT ![o] = "accepted"]
    /\ ended' = ended \cup {o} /\ accepted' = accepted \cup {o}
    /\ UNCHANGED <<data, row, pc, want, result, gates, unsaved, request, stage>>

\* A foreground request waits for its vault on the request's context, works, and ends.
Arrive(q) ==
    /\ request[q] = "new" /\ stage \in {"running", "stopping"}
    /\ request' = [request EXCEPT ![q] = "waiting"]
    /\ UNCHANGED <<data, row, pc, want, result, gates, runtime, unsaved, stage>>

LockForRequest(q) ==
    /\ request[q] = "waiting" /\ lock[RequestVault[q]] = Free
    /\ lock' = [lock EXCEPT ![RequestVault[q]] = q]
    /\ request' = [request EXCEPT ![q] = "working"]
    /\ UNCHANGED <<data, row, pc, want, result, writer, readers, runtime, unsaved, stage>>

Answer(q) ==
    /\ \/ request[q] = "working"
       \/ request[q] = "waiting" /\ stage = "draining"
    /\ request' = [request EXCEPT ![q] = "answered"]
    /\ lock' = [v \in Vaults |-> IF lock[v] = q THEN Free ELSE lock[v]]
    /\ UNCHANGED <<data, row, pc, want, result, writer, readers, runtime, unsaved, stage>>

\* shutdownWithTrackedOperations: the workers are cancelled before the HTTP drain.
BeginStop ==
    /\ MayStop /\ stage = "running"
    /\ stage' = "stopping"
    /\ UNCHANGED <<data, row, pc, want, result, gates, runtime, unsaved, request>>

\* httpShutdownHook ends the contexts of the requests and closes the listener.
CloseListener ==
    /\ stage = "stopping"
    /\ stage' = "draining"
    /\ UNCHANGED <<data, row, pc, want, result, gates, runtime, unsaved, request>>

\* The drain: no request is active. A backup's admission may be the scheduler's.
Drained ==
    /\ \A o \in Ops : pc[o] \notin {"checked", "admitted"}
    /\ \A q \in Requests : request[q] \notin {"waiting", "working"}

StopProducers ==
    /\ stage = "draining" /\ Drained
    /\ stage' = "joining"
    /\ UNCHANGED <<data, row, pc, want, result, gates, runtime, unsaved, request>>

\* Every counted worker has called done; only then is the database closed.
CloseDatabase ==
    /\ stage = "joining" /\ ~ \E o \in Ops : Worker(o)
    /\ stage' = "closed"
    /\ UNCHANGED <<data, row, pc, want, result, gates, runtime, unsaved, request>>

\* The shutdown deadline: the rest of shutdown is skipped.
Deadline ==
    /\ stage \in {"draining", "joining"}
    /\ stage' = "expired"
    /\ UNCHANGED <<data, row, pc, want, result, gates, runtime, unsaved, request>>

-----------------------------------------------------------------------------
Step(o) ==
    \/ BeginBackground(o) \/ Queue(o) \/ AdmitBackup(o)
    \/ AnnounceDeletion(o) \/ HoldDefinition(o) \/ JobIdle(o) \/ VaultIdle(o)
    \/ TakeLock(o) \/ StopWaiting(o) \/ StartWithoutCancel(o) \/ AwaitCancel(o)
    \/ Activate(o) \/ AdmitNative(o) \/ EndTask(o) \/ EndAlteration(o)
    \/ VerifyJobDeletion(o) \/ DeletePolicies(o) \/ DeleteJob(o)
    \/ VerifyRemoval(o) \/ PublishProfile(o) \/ DeleteVault(o)
    \/ Save(o) \/ Release(o) \/ Forget(o)
    \/ TakeSlot(o) \/ TryLock(o) \/ StartTask(o) \/ AcceptCancel(o)

Shutdown == CloseListener \/ StopProducers \/ CloseDatabase

Next ==
    \/ \E o \in Ops : \/ Ask(o) \/ UseDefinition(o) \/ ClaimVault(o) \/ BeginCancel(o)
                      \/ Step(o)
    \/ \E q \in Requests : Arrive(q) \/ LockForRequest(q) \/ Answer(q)
    \/ BeginStop \/ Deadline \/ Shutdown

Spec == Init /\ [][Next]_vars

Progress(o) == Step(o) /\ ~TakeLock(o) /\ ~AcceptCancel(o)

\* Goroutines run on, callbacks return and requests are served; a waiter for a vault is
\* not overtaken for ever (VaultLock). Nobody has to ask for anything, to cancel it or
\* to quit, and no deadline has to expire.
Served ==
    /\ \A o \in Ops : WF_vars(AcceptCancel(o)) /\ SF_vars(TakeLock(o))
    /\ \A q \in Requests : SF_vars(LockForRequest(q)) /\ WF_vars(Answer(q))
    /\ WF_vars(Shutdown)

\* Every native command ends.
FairSpec == Spec /\ Served /\ \A o \in Ops : WF_vars(Progress(o))

\* A native command may run for ever unless its context ends, which kills it.
SlowSpec ==
    /\ Spec /\ Served
    /\ \A o \in Ops : WF_vars(Progress(o) /\ (pc[o] = "native" => Ended(o)))

-----------------------------------------------------------------------------
(* Properties *)

\* Every variable has its type, and a worker locks only vaults it asked for.
TypeOK ==
    /\ vaults \subseteq Vaults /\ jobs \subseteq Jobs
    /\ targets \in [Jobs -> SUBSET Vaults]
    /\ row \in [Ops -> {"none", "queued", "running", "success", "failed", "interrupted"}]
    /\ pc \in [Ops -> RequestSide \cup Claims \cup
                      {"using", "gate", "hold", "poll", "lock", "commit", "cancelled",
                       "activate", "policies", "publish", "delete", "ended"}]
    /\ want \in [Ops -> SUBSET Vaults]
    /\ result \in [Ops -> {"none", "success", "failed", "interrupted"}]
    /\ lock \in [Vaults -> Ops \cup Requests \cup {Free}]
    /\ writer \in [Jobs -> Ops \cup {Free}]
    /\ readers \in [Jobs -> SUBSET Ops]
    /\ entry \in [Ops -> {"none", "idle", "inflight", "accepted", "closed"}]
    /\ ended \subseteq Ops /\ accepted \subseteq ended
    /\ unsaved \subseteq Ops
    /\ request \in [Requests -> {"new", "waiting", "working", "answered"}]
    /\ stage \in {"running", "stopping", "draining", "joining", "closed", "expired"}

\* A worker whose operation waits for its turn or is at work.
Engaged(o) == Worker(o) /\ pc[o] \notin {"using", "claimed", "try", "release", "forget"}

\* A vault or a job is never deleted from under other work: when its row goes nothing
\* else waits or runs in it, a job deletion that passed the removal's request check and
\* was queued behind it included (vault_removal.go:115, database/repositories.go:456).
InUseIsKept ==
    [][/\ \A v \in vaults \ vaults', o \in Ops :
             Engaged(o) /\ Kind[o] # "delete_repository" =>
                 /\ VaultOf[o] # v
                 /\ Kind[o] = "delete_job" => v \notin targets[JobOf[o]]
       /\ \A j \in jobs \ jobs', o \in Ops :
             Engaged(o) /\ JobOf[o] = j => Kind[o] = "delete_job"]_vars

\* Once a job deletion has begun to take the job's native policies away, no backup of
\* the job is waiting, running or being admitted, so its own transaction cannot find the
\* job in use and leave a job without its policies (tracked_workers.go:546-552).
CleanupNotOvertaken ==
    \A o \in Ops : Kind[o] = "delete_job" /\ pc[o] \in {"policies", "delete"} =>
        /\ ~JobActive(JobOf[o])
        /\ \A r \in Ops : Kind[r] = "backup" /\ JobOf[r] = JobOf[o] =>
               ~Engaged(r) /\ pc[r] # "using"

\* A cancel that was answered "accepted" holds for work that cannot be stopped once it
\* has started: it never starts, and it does not end as a failure that would notify
\* (tracked_operation.go:133-150).
AcceptedCancelHolds ==
    \A o \in accepted : Kind[o] \in Irrevocable =>
        /\ row[o] \in {"queued", "interrupted"}
        /\ pc[o] \notin {"activate", "verify", "native", "policies", "publish", "delete"}

\* An active row has a runtime entry, and its worker either still has everything it took
\* or could not save its last status: a lock is never given back before the status is
\* saved (tracked_operation.go:160-163), and the entry of an unsaved row stays. The
\* database is closed only when no worker and no request can come back to it.
UnfinishedIsOwned ==
    /\ \A o \in Ops : Active(o) => entry[o] # "none" /\ (Engaged(o) \/ o \in unsaved)
    /\ stage = "closed" => /\ \A o \in Ops : pc[o] \in Over
                           /\ \A q \in Requests : request[q] \notin {"waiting", "working"}

\* Nobody waits for ever: every worker ends, unless it waits behind a row whose last
\* status could not be saved. Job deletions lock several vaults, wait for each other's
\* vaults and for backups; removals wait for both.
WorkersEnd ==
    \A o \in Ops : Worker(o) ~> (~Worker(o) \/ unsaved # {})

\* A shutdown reaches the database, or its deadline, even if a check or a restore that
\* holds a vault would run for ever: nothing of it waits for work that it has not
\* cancelled yet (main.go:896-935).
ShutdownEnds == (stage = "stopping") ~> (stage \in {"closed", "expired"})
=============================================================================
