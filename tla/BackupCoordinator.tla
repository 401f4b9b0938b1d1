-------------------------- MODULE BackupCoordinator --------------------------
(***************************************************************************)
(* The backup coordinator: runner/runner.go, with the cancel gate it       *)
(* registers its operations in (operationruntime/manager.go).              *)
(*                                                                         *)
(* An admitted operation waits in one queue. The dispatcher starts the     *)
(* first task it may start, after a goroutine of its own has reserved the  *)
(* task's vault; the task then runs in one of "limit" slots. Admissions,   *)
(* the dispatcher, reservations, runs, cancel requests and Shutdown        *)
(* interleave: they share c.mu, but every database write, vault lock call  *)
(* and engine call happens outside it.                                     *)
(*                                                                         *)
(* One action is one critical section of c.mu, one database transaction,   *)
(* or one lock call, with the private steps around it. A vault lock is     *)
(* kept as its holder only; VaultLock models how it is granted. What a     *)
(* terminal write does to the scheduled occurrence is in CatchUp.          *)
(***************************************************************************)
EXTENDS Integers, Sequences, FiniteSets, SequencesExt

CONSTANTS
    Operations,    \* operation IDs; each is admitted at most once
    TargetOf,      \* the job and the vault of an operation
    Limits,        \* values the concurrency setting may take
    None,          \* no task: what a map of the code returns for an absent key
    WriteFailures, \* whether database writes may fail
    CancelTargets, \* bound: the operations a user may cancel
    Launching,     \* bound: the operations whose executor gets as far as a child
    SharedVaults   \* bound: the vaults other work uses as well

Targets == {TargetOf[o] : o \in Operations}
Vaults == {t.vault : t \in Targets}
VaultOf(o) == TargetOf[o].vault

ASSUME OperationsFinite == IsFiniteSet(Operations)
ASSUME NoneIsNoTask == None \notin Operations
ASSUME LimitsPositive == Limits # {} /\ Limits \subseteq Nat \ {0}
ASSUME FailuresBoolean == WriteFailures \in BOOLEAN

VARIABLES
    \* the database and the vault locks
    row,             \* operations.status
    unwritten,       \* operations whose last status write was given up
    orphaned,        \* rows of a refused admission that could not be interrupted
    holder,          \* holder[v]: "free", "other" or "backup"
    \* Coordinator
    queue, active, vaultActive, waiting, ready, running, limit,
    admitting, closed,
    dispatcher,      \* the dispatch goroutine: "running" or "stopped"
    \* callers and goroutines
    admit, batch,    \* the holder of admitMu, and the rows it inserted
    reserver,        \* reserver[v]: the reserveVault goroutine that may still deliver
    returning,       \* vaults a reserveVault goroutine is about to unlock
    stage,           \* stage[o]: where run(task) is
    taskErr,         \* taskErr[o]: the task's context as the executor returned
    quarantined, cancelRequested,
    ended,           \* tasks whose own context was cancelled
    cancelStage,     \* cancelStage[o]: where the cancel callback is
    cancelHolds,     \* cancels that took the vault's reservation to release it
    shutdown, drained, shutdownHolds, finalizer,
    \* operationruntime.Manager
    entry,           \* entry[o]: the cancel gate of a registered operation
    accepted         \* operations whose cancel request was answered "accepted"

dbVars == <<row, unwritten, orphaned>>
dispatchVars == <<waiting, ready, vaultActive>>
admitVars == <<admitting, admit, batch>>
reserveVars == <<reserver, returning>>
cancelVars == <<quarantined, cancelRequested, ended, cancelStage, cancelHolds, accepted>>
stopVars == <<closed, dispatcher, shutdown, drained, shutdownHolds, finalizer>>
vars == <<dbVars, holder, queue, active, dispatchVars, running, limit, admitVars,
          reserveVars, stage, taskErr, cancelVars, stopVars, entry>>

Terminal == {"finished", "interrupted"}
Executing == {"executing", "child", "between", "followup", "recording", "returned"}
Holding == {"activating", "restoring", "persisting", "unlocking"} \cup Executing
InSlot == Holding \cup {"freeing"}
InRun == InSlot \cup {"removing"}

Init ==
    /\ row = [o \in Operations |-> "none"]
    /\ unwritten = {} /\ orphaned = {}
    /\ holder = [v \in Vaults |-> "free"]
    /\ queue = <<>>
    /\ active = [t \in Targets |-> None]
    /\ vaultActive = {} /\ ready = {}
    /\ waiting = [v \in Vaults |-> "absent"]
    /\ running = 0
    /\ limit \in Limits
    /\ admitting = FALSE /\ closed = FALSE
    /\ dispatcher = "running"
    /\ admit = "idle" /\ batch = <<>>
    /\ reserver = [v \in Vaults |-> "none"]
    /\ returning = {}
    /\ stage = [o \in Operations |-> "none"]
    /\ taskErr = [o \in Operations |-> "unread"]
    /\ quarantined = {} /\ cancelRequested = {} /\ ended = {}
    /\ cancelStage = [o \in Operations |-> "none"]
    /\ cancelHolds = {}
    /\ shutdown = "no" /\ drained = {} /\ shutdownHolds = {} /\ finalizer = "none"
    /\ entry = [o \in Operations |-> "absent"]
    /\ accepted = {}

Queued == ToSet(queue)

\* queueNeedsVaultLocked, for a queue and the tasks that are quarantined.
Needs(q, v) == \E o \in ToSet(q) : VaultOf(o) = v /\ o \notin quarantined

\* InterruptQueuedBackupOperations ends these rows in one transaction. Rows it ended
\* before are no obstacle, and neither is a running row before its native step.
Interruptible(S) == \A o \in S : row[o] \in {"queued", "running", "interrupted"}
Interrupt(S) == row' = [o \in Operations |-> IF o \in S THEN "interrupted" ELSE row[o]]

\* CloseCancel: a cancel that is in flight or accepted has already won.
Closed(e) == IF e = "idle" THEN "closed" ELSE e

-----------------------------------------------------------------------------
(* Mutants: plausible bugs, each written like the definition it stands for.  *)

\* SetLimit: a value below the minimum gets through.
MutLimitOffByOne(n) ==
    /\ n # limit
    /\ limit' = n - 1
    /\ UNCHANGED <<dbVars, holder, queue, active, dispatchVars, running, taskErr, admitVars,
                   reserveVars, stage, cancelVars, stopVars, entry>>

\* Skipped: an unresolved handoff is passed over like a contended vault.
MutSkipsHandoff(o) ==
    \/ o \in quarantined \cup cancelRequested
    \/ VaultOf(o) \in vaultActive
    \/ VaultOf(o) \notin ready /\ waiting[VaultOf(o)] # "absent"

\* KeepReservation: demand is not looked at again after the acquisition.
MutKeepsWithoutDemand(v) == ~closed

\* GateFree: Shutdown does not take admitMu.
MutShutdownIgnoresAdmission == TRUE

\* TakeTask: the vault is not marked busy for the dispatcher.
MutVaultNotMarked(o) ==
    /\ dispatcher = "running" /\ ~admitting /\ running < limit
    /\ \E i \in DOMAIN queue : queue[i] = o
    /\ o \notin quarantined \cup cancelRequested
    /\ VaultOf(o) \in ready
    /\ ready' = ready \ {VaultOf(o)}
    /\ queue' = RemoveFirst(queue, o)
    /\ running' = running + 1
    /\ stage' = [stage EXCEPT ![o] = "activating"]
    /\ UNCHANGED <<dbVars, holder, active, waiting, vaultActive, limit, taskErr, admitVars,
                   reserveVars, cancelVars, stopVars, entry>>

\* RunRemove: an operation whose status could not be saved leaves the runtime as well.
MutRemovedUnwritten(o) ==
    /\ stage[o] = "removing"
    /\ entry' = [entry EXCEPT ![o] = "absent"]
    /\ ended' = ended \cup {o}
    /\ stage' = [stage EXCEPT ![o] = "done"]
    /\ UNCHANGED <<dbVars, holder, queue, active, dispatchVars, running, limit,
                   taskErr, admitVars, reserveVars, quarantined, cancelRequested, cancelStage, cancelHolds,
                   accepted, stopVars>>

\* RunFreeSlot: the slot is not given back.
MutSlotLeaks(o) ==
    /\ stage[o] = "freeing"
    /\ active' = [active EXCEPT ![TargetOf[o]] = None]
    /\ vaultActive' = vaultActive \ {VaultOf(o)}
    /\ stage' = [stage EXCEPT ![o] = "removing"]
    /\ UNCHANGED <<dbVars, holder, queue, waiting, ready, running, limit,
                   taskErr, admitVars, reserveVars, cancelVars, stopVars, entry>>

\* CancelStarted: a task that has just left the queue is taken for finished.
MutStartedNotStopped(o) ==
    /\ cancelStage[o] = "entered"
    /\ o \notin Queued
    /\ cancelStage' = [cancelStage EXCEPT ![o] = "none"]
    /\ accepted' = accepted \cup {o}
    /\ entry' = [entry EXCEPT ![o] = IF @ = "inFlight" THEN "accepted" ELSE @]
    /\ UNCHANGED <<dbVars, holder, queue, active, dispatchVars, running, limit,
                   taskErr, admitVars, reserveVars, stage, quarantined, cancelRequested, ended, cancelHolds, stopVars>>

\* Status: the context is read again when the result is classified.
MutContextReadAgain(o) ==
    {"finished"} \cup IF o \in ended \/ closed THEN {"interrupted"} ELSE {}

\* CancelCleanup: the reservation taken over is forgotten.
MutCleanupKeepsLock(o) ==
    /\ cancelStage[o] = "cleaning"
    /\ cancelHolds' = cancelHolds \ {o}
    /\ cancelStage' = [cancelStage EXCEPT ![o] = "none"]
    /\ accepted' = accepted \cup {o}
    /\ entry' = [entry EXCEPT ![o] = "absent"]
    /\ UNCHANGED <<dbVars, holder, queue, active, dispatchVars, running, limit,
                   taskErr, admitVars, reserveVars, stage, quarantined, cancelRequested, ended, stopVars>>

-----------------------------------------------------------------------------
(* Admission: admitPersisted and activatePersistedLocked, under admitMu.      *)

AdmitBegin ==
    /\ admit = "idle" /\ ~closed
    /\ \E o \in Operations : row[o] = "none"
    /\ admit' = "writing"
    /\ admitting' = TRUE
    /\ UNCHANGED <<dbVars, holder, queue, active, dispatchVars, running, limit, taskErr, batch,
                   reserveVars, stage, cancelVars, stopVars, entry>>

\* The admission callback inserts queued rows: some targets of one job, none of
\* them busy. It may also find nothing to admit, or fail.
AdmitRows ==
    /\ admit = "writing"
    /\ \E S \in SUBSET {o \in Operations : row[o] = "none"} :
        /\ \A o, p \in S : TargetOf[o].job = TargetOf[p].job
        /\ \A o, p \in S : o # p => VaultOf(o) # VaultOf(p)
        /\ \A o \in S, p \in Operations :
            TargetOf[o] = TargetOf[p] => row[p] \notin {"queued", "running"}
        /\ batch' \in SetToSeqs(S)
        /\ row' = [o \in Operations |-> IF o \in S THEN "queued" ELSE row[o]]
        /\ admit' = IF S = {} THEN "ending" ELSE "checking"
    /\ UNCHANGED <<unwritten, orphaned, holder, queue, active, dispatchVars, running, limit,
                   taskErr, admitting, reserveVars, stage, cancelVars, stopVars, entry>>

\* The operation that still owns the target may have written its last status
\* already, so the database cannot rule this out. Reading the rows back may fail too.
AdmitCheck ==
    /\ admit = "checking"
    /\ \/ /\ \A o \in ToSet(batch) : active[TargetOf[o]] = None
          /\ admit' = "publishing"
       \/ /\ WriteFailures \/ \E o \in ToSet(batch) : active[TargetOf[o]] # None
          /\ admit' = "refusing"
    /\ UNCHANGED <<dbVars, holder, queue, active, dispatchVars, running, limit, taskErr, admitting,
                   batch, reserveVars, stage, cancelVars, stopVars, entry>>

\* Registration and publication are one critical section. A cancel may enter
\* between them, but needs c.mu to do more than set cancelRequested.
AdmitPublish ==
    /\ admit = "publishing"
    /\ entry' = [o \in Operations |-> IF o \in ToSet(batch) THEN "idle" ELSE entry[o]]
    /\ active' = [t \in Targets |->
                    IF \E o \in ToSet(batch) : TargetOf[o] = t
                    THEN CHOOSE o \in ToSet(batch) : TargetOf[o] = t ELSE active[t]]
    /\ queue' = queue \o batch
    /\ admit' = "ending"
    /\ UNCHANGED <<dbVars, holder, dispatchVars, running, limit,
                   taskErr, admitting, batch, reserveVars, stage, cancelVars, stopVars>>

AdmitRefuse ==
    /\ admit = "refusing"
    /\ \/ Interrupt(ToSet(batch)) /\ UNCHANGED orphaned
       \/ WriteFailures /\ orphaned' = orphaned \cup ToSet(batch) /\ UNCHANGED row
    /\ admit' = "ending"
    /\ UNCHANGED <<unwritten, holder, queue, active, dispatchVars, running, limit,
                   taskErr, admitting, batch, reserveVars, stage, cancelVars, stopVars, entry>>

AdmitEnd ==
    /\ admit = "ending"
    /\ admitting' = FALSE
    /\ admit' = "idle" /\ batch' = <<>>
    /\ UNCHANGED <<dbVars, holder, queue, active, dispatchVars, running, limit, taskErr,
                   reserveVars, stage, cancelVars, stopVars, entry>>

-----------------------------------------------------------------------------
(* The dispatcher: one turn of the loop in dispatchRunnableLocked. A wake-up  *)
(* takes turns until nothing is left to do; a later one may finish the rest.  *)

Skipped(o) ==
    \/ o \in quarantined \cup cancelRequested
    \/ VaultOf(o) \in vaultActive
    \/ VaultOf(o) \notin ready /\ waiting[VaultOf(o)] = "contended"

\* The task takeRunnableLocked stops at, as a set of at most one.
Head1 == {queue[i] : i \in {j \in DOMAIN queue :
            ~Skipped(queue[j]) /\ \A k \in 1..(j - 1) : Skipped(queue[k])}}

MayDispatch == dispatcher = "running" /\ ~admitting /\ running < limit

TakeTask(o) ==
    /\ MayDispatch
    /\ o \in Head1 /\ VaultOf(o) \in ready
    /\ ready' = ready \ {VaultOf(o)}
    /\ vaultActive' = vaultActive \cup {VaultOf(o)}
    /\ queue' = RemoveFirst(queue, o)
    /\ running' = running + 1
    /\ stage' = [stage EXCEPT ![o] = "activating"]
    /\ UNCHANGED <<dbVars, holder, active, waiting, limit, taskErr, admitVars, reserveVars,
                   cancelVars, stopVars, entry>>

\* An unresolved handoff stops the dispatcher: it takes no later task meanwhile.
StartReserve(o) ==
    /\ MayDispatch
    /\ o \in Head1 /\ VaultOf(o) \notin ready /\ waiting[VaultOf(o)] = "absent"
    /\ waiting' = [waiting EXCEPT ![VaultOf(o)] = "handoff"]
    /\ reserver' = [reserver EXCEPT ![VaultOf(o)] = "trying"]
    /\ UNCHANGED <<dbVars, holder, queue, active, ready, vaultActive, running, limit, taskErr,
                   admitVars, returning, stage, cancelVars, stopVars, entry>>

DispatcherStop ==
    /\ closed /\ dispatcher = "running"
    /\ dispatcher' = "stopped"
    /\ UNCHANGED <<dbVars, holder, queue, active, dispatchVars, running, limit,
                   taskErr, admitVars, reserveVars, stage, cancelVars, closed, shutdown, drained,
                   shutdownHolds, finalizer, entry>>

SetLimit(n) ==
    /\ n # limit
    /\ limit' = n
    /\ UNCHANGED <<dbVars, holder, queue, active, dispatchVars, running, taskErr, admitVars,
                   reserveVars, stage, cancelVars, stopVars, entry>>

-----------------------------------------------------------------------------
(* reserveVault, one goroutine per vault that is waited for.                  *)

ReserveTry(v) ==
    /\ reserver[v] = "trying"
    /\ \/ /\ ~closed /\ holder[v] = "free"
          /\ holder' = [holder EXCEPT ![v] = "backup"]
          /\ reserver' = [reserver EXCEPT ![v] = "acquired"]
          /\ UNCHANGED waiting
       \/ /\ ~closed /\ holder[v] # "free"       \* onWait
          /\ waiting' = [waiting EXCEPT ![v] = "contended"]
          /\ reserver' = [reserver EXCEPT ![v] = "waiting"]
          /\ UNCHANGED holder
       \/ /\ closed
          /\ reserver' = [reserver EXCEPT ![v] = "failed"]
          /\ UNCHANGED <<holder, waiting>>
    /\ UNCHANGED <<dbVars, queue, active, ready, vaultActive, running, limit, taskErr, admitVars,
                   returning, stage, cancelVars, stopVars, entry>>

ReserveAcquire(v) ==
    /\ reserver[v] = "waiting" /\ ~closed
    /\ holder[v] = "free"
    /\ holder' = [holder EXCEPT ![v] = "backup"]
    /\ reserver' = [reserver EXCEPT ![v] = "acquired"]
    /\ UNCHANGED <<dbVars, queue, active, dispatchVars, running, limit, taskErr, admitVars,
                   returning, stage, cancelVars, stopVars, entry>>

ReserveAbandon(v) ==
    /\ reserver[v] = "waiting" /\ closed
    /\ reserver' = [reserver EXCEPT ![v] = "failed"]
    /\ UNCHANGED <<dbVars, holder, queue, active, dispatchVars, running, limit, taskErr, admitVars,
                   returning, stage, cancelVars, stopVars, entry>>

\* The recheck of demand after the acquisition.
KeepReservation(v) == ~closed /\ Needs(queue, v)

ReserveFinish(v) ==
    /\ reserver[v] \in {"acquired", "failed"}
    /\ reserver' = [reserver EXCEPT ![v] = "none"]
    /\ waiting' = [waiting EXCEPT ![v] = "absent"]
    /\ IF reserver[v] = "acquired" /\ KeepReservation(v)
       THEN ready' = ready \cup {v} /\ UNCHANGED returning
       ELSE /\ returning' = IF reserver[v] = "acquired" THEN returning \cup {v} ELSE returning
            /\ UNCHANGED ready
    /\ UNCHANGED <<dbVars, holder, queue, active, vaultActive, running, limit, taskErr, admitVars,
                   stage, cancelVars, stopVars, entry>>

ReserveReturn(v) ==
    /\ v \in returning
    /\ returning' = returning \ {v}
    /\ holder' = [holder EXCEPT ![v] = "free"]
    /\ UNCHANGED <<dbVars, queue, active, dispatchVars, running, limit, taskErr, admitVars,
                   reserver, stage, cancelVars, stopVars, entry>>

\* Restores, checks, metadata reads and every other user of the vault.
OtherTakes(v) ==
    /\ v \in SharedVaults
    /\ holder[v] = "free"
    /\ holder' = [holder EXCEPT ![v] = "other"]
    /\ UNCHANGED <<dbVars, queue, active, dispatchVars, running, limit,
                   taskErr, admitVars, reserveVars, stage, cancelVars, stopVars, entry>>

OtherReleases(v) ==
    /\ holder[v] = "other"
    /\ holder' = [holder EXCEPT ![v] = "free"]
    /\ UNCHANGED <<dbVars, queue, active, dispatchVars, running, limit,
                   taskErr, admitVars, reserveVars, stage, cancelVars, stopVars, entry>>

-----------------------------------------------------------------------------
(* run(task).                                                                 *)

Goto(o, label) == stage' = [stage EXCEPT ![o] = label]

\* What task.ctx says. Shutdown cancels the coordinator's context, which the contexts of
\* its tasks derive from, after it has closed the gate and before it unlocks the vaults.
ContextErr(o) ==
    IF o \in ended \/ shutdown \in {"waiting", "returned"} THEN {"ended"}
    ELSE IF closed THEN {"live", "ended"} ELSE {"live"}

\* ActivateBackupOperation updates the row only while it is queued.
RunActivate(o) ==
    /\ stage[o] = "activating"
    /\ \/ /\ row[o] = "queued"
          /\ row' = [row EXCEPT ![o] = "running"]
          /\ Goto(o, "executing")
       \/ /\ WriteFailures \/ row[o] # "queued"
          /\ Goto(o, "restoring")
          /\ UNCHANGED row
    /\ UNCHANGED <<unwritten, orphaned, holder, queue, active, dispatchVars, running, limit,
                   taskErr, admitVars, reserveVars, cancelVars, stopVars, entry>>

RunRestore(o) ==
    /\ stage[o] = "restoring"
    /\ \/ Interruptible({o}) /\ Interrupt({o}) /\ UNCHANGED unwritten
       \/ /\ WriteFailures \/ ~Interruptible({o})
          /\ unwritten' = unwritten \cup {o} /\ UNCHANGED row
    /\ Goto(o, "unlocking")
    /\ UNCHANGED <<orphaned, holder, queue, active, dispatchVars, running, limit,
                   taskErr, admitVars, reserveVars, cancelVars, stopVars, entry>>

\* The executor launches children (scripts, engines) one after the other, here at most two.
\* A child is admitted by a last look at the context, so none starts once a cancel has won.
Children == {"child", "followup"}
RunLaunch(o) ==
    /\ o \in Launching /\ "live" \in ContextErr(o)
    /\ \/ stage[o] = "executing" /\ Goto(o, "child")
       \/ stage[o] = "between" /\ Goto(o, "followup")
    /\ UNCHANGED <<dbVars, holder, queue, active, dispatchVars, running, limit,
                   taskErr, admitVars, reserveVars, cancelVars, stopVars, entry>>

RunChildEnds(o) ==
    /\ stage[o] \in Children
    /\ Goto(o, IF stage[o] = "child" THEN "between" ELSE "recording")
    /\ UNCHANGED <<dbVars, holder, queue, active, dispatchVars, running, limit,
                   taskErr, admitVars, reserveVars, cancelVars, stopVars, entry>>

\* The executor returns and run reads the context, once.
RunReturn(o) ==
    /\ stage[o] \in {"executing", "between", "recording"}
    /\ \E err \in ContextErr(o) : taskErr' = [taskErr EXCEPT ![o] = err]
    /\ Goto(o, "returned")
    /\ UNCHANGED <<dbVars, holder, queue, active, dispatchVars, running, limit, admitVars,
                   reserveVars, cancelVars, stopVars, entry>>

\* The occurrence is consumed or restored (CatchUp), then the cancel gate is closed at the
\* latest. After its last child the executor often has closed it before; a gate that is
\* closed early only refuses cancels, so the model loses nothing by closing it here.
RunSettle(o) ==
    /\ stage[o] = "returned"
    /\ entry' = [entry EXCEPT ![o] = Closed(@)]
    /\ Goto(o, "persisting")
    /\ UNCHANGED <<dbVars, holder, queue, active, dispatchVars, running, limit,
                   taskErr, admitVars, reserveVars, cancelVars, stopVars>>

\* classifyBackupRunStatus: what the executor reports as a cancellation is one only if
\* the context had ended; every other status is "finished".
Status(o) == {"finished"} \cup IF taskErr[o] = "ended" THEN {"interrupted"} ELSE {}

\* persistTerminalState: six attempts, then the row stays as it is. taskErr, a local of
\* run, is not read again.
RunPersist(o) ==
    /\ stage[o] = "persisting"
    /\ \/ /\ row[o] = "running"
          /\ \E status \in Status(o) : row' = [row EXCEPT ![o] = status]
          /\ UNCHANGED unwritten
       \/ /\ WriteFailures \/ row[o] # "running"
          /\ unwritten' = unwritten \cup {o}
          /\ UNCHANGED row
    /\ taskErr' = [taskErr EXCEPT ![o] = "unread"]
    /\ Goto(o, "unlocking")
    /\ UNCHANGED <<orphaned, holder, queue, active, dispatchVars, running, limit, admitVars,
                   reserveVars, cancelVars, stopVars, entry>>

\* release, first part: the vault lock, outside c.mu.
RunUnlock(o) ==
    /\ stage[o] = "unlocking"
    /\ holder' = [holder EXCEPT ![VaultOf(o)] = "free"]
    /\ Goto(o, "freeing")
    /\ UNCHANGED <<dbVars, queue, active, dispatchVars, running, limit,
                   taskErr, admitVars, reserveVars, cancelVars, stopVars, entry>>

\* release, second part.
RunFreeSlot(o) ==
    /\ stage[o] = "freeing"
    /\ active' = [active EXCEPT ![TargetOf[o]] = None]
    /\ vaultActive' = vaultActive \ {VaultOf(o)}
    /\ running' = IF running > 0 THEN running - 1 ELSE running
    /\ Goto(o, "removing")
    /\ UNCHANGED <<dbVars, holder, queue, waiting, ready, limit, taskErr, admitVars, reserveVars,
                   cancelVars, stopVars, entry>>

\* Only a durable terminal status removes the operation from the runtime.
RunRemove(o) ==
    /\ stage[o] = "removing"
    /\ entry' = [entry EXCEPT ![o] = IF o \in unwritten THEN Closed(@) ELSE "absent"]
    /\ ended' = ended \cup {o}
    /\ Goto(o, "done")
    /\ UNCHANGED <<dbVars, holder, queue, active, dispatchVars, running, limit,
                   taskErr, admitVars, reserveVars, quarantined, cancelRequested, cancelStage, cancelHolds,
                   accepted, stopVars>>

-----------------------------------------------------------------------------
(* Manager.Cancel and the callback registered for a task: cancelTask. A call   *)
(* that finds another in flight waits for its answer and changes nothing.      *)

\* The callback records the request before it waits for c.mu.
CancelCall(o) ==
    /\ o \in CancelTargets
    /\ entry[o] = "idle"
    /\ entry' = [entry EXCEPT ![o] = "inFlight"]
    /\ cancelRequested' = cancelRequested \cup {o}
    /\ cancelStage' = [cancelStage EXCEPT ![o] = "entered"]
    /\ UNCHANGED <<dbVars, holder, queue, active, dispatchVars, running, limit,
                   taskErr, admitVars, reserveVars, stage, quarantined, ended, cancelHolds, accepted, stopVars>>

CancelStarted(o) ==
    /\ cancelStage[o] = "entered"
    /\ o \notin Queued
    /\ ended' = ended \cup {o}
    /\ cancelStage' = [cancelStage EXCEPT ![o] = "none"]
    /\ accepted' = accepted \cup {o}
    /\ entry' = [entry EXCEPT ![o] = IF @ = "inFlight" THEN "accepted" ELSE @]
    /\ UNCHANGED <<dbVars, holder, queue, active, dispatchVars, running, limit,
                   taskErr, admitVars, reserveVars, stage, quarantined, cancelRequested, cancelHolds, stopVars>>

CancelQuarantine(o) ==
    /\ cancelStage[o] = "entered"
    /\ o \in Queued
    /\ quarantined' = quarantined \cup {o}
    /\ cancelStage' = [cancelStage EXCEPT ![o] = "writing"]
    /\ UNCHANGED <<dbVars, holder, queue, active, dispatchVars, running, limit,
                   taskErr, admitVars, reserveVars, stage, cancelRequested, ended, cancelHolds, accepted,
                   stopVars, entry>>

CancelWrite(o) ==
    /\ cancelStage[o] = "writing"
    /\ Interruptible({o}) /\ Interrupt({o})
    /\ cancelStage' = [cancelStage EXCEPT ![o] = "dequeuing"]
    /\ UNCHANGED <<unwritten, orphaned, holder, queue, active, dispatchVars, running, limit,
                   taskErr, admitVars, reserveVars, stage, quarantined, cancelRequested, ended, cancelHolds,
                   accepted, stopVars, entry>>

\* The request may be repeated; the task stays quarantined in the queue.
CancelWriteFails(o) ==
    /\ cancelStage[o] = "writing"
    /\ WriteFailures \/ ~Interruptible({o})
    /\ cancelStage' = [cancelStage EXCEPT ![o] = "none"]
    /\ entry' = [entry EXCEPT ![o] = IF @ = "inFlight" THEN "idle" ELSE @]
    /\ UNCHANGED <<dbVars, holder, queue, active, dispatchVars, running, limit,
                   taskErr, admitVars, reserveVars, stage, quarantined, cancelRequested, ended, cancelHolds,
                   accepted, stopVars>>

CancelDequeue(o) ==
    /\ cancelStage[o] = "dequeuing"
    /\ queue' = RemoveFirst(queue, o)
    /\ active' = [active EXCEPT ![TargetOf[o]] = None]
    /\ LET v == VaultOf(o) IN
       IF Needs(queue', v) THEN UNCHANGED <<ready, cancelHolds>>
       ELSE /\ ready' = ready \ {v}
            /\ cancelHolds' = IF v \in ready THEN cancelHolds \cup {o} ELSE cancelHolds
    /\ ended' = ended \cup {o}
    /\ cancelStage' = [cancelStage EXCEPT ![o] = "cleaning"]
    /\ UNCHANGED <<dbVars, holder, waiting, vaultActive, running, limit,
                   taskErr, admitVars, reserveVars, stage, quarantined, cancelRequested, accepted, stopVars, entry>>

CancelCleanup(o) ==
    /\ cancelStage[o] = "cleaning"
    /\ holder' = IF o \in cancelHolds THEN [holder EXCEPT ![VaultOf(o)] = "free"] ELSE holder
    /\ cancelHolds' = cancelHolds \ {o}
    /\ cancelStage' = [cancelStage EXCEPT ![o] = "none"]
    /\ accepted' = accepted \cup {o}
    /\ entry' = [entry EXCEPT ![o] = "absent"]
    /\ UNCHANGED <<dbVars, queue, active, dispatchVars, running, limit,
                   taskErr, admitVars, reserveVars, stage, quarantined, cancelRequested, ended, stopVars>>

-----------------------------------------------------------------------------
(* Shutdown, called without a deadline.                                       *)

\* admitMu keeps an admission from being half done when the gate closes.
GateFree == admit = "idle"

ShutdownBegin ==
    /\ ~closed /\ GateFree
    /\ closed' = TRUE /\ admitting' = TRUE
    /\ drained' = Queued /\ queue' = <<>>
    /\ shutdownHolds' = ready /\ ready' = {}
    /\ active' = [t \in Targets |-> IF \E o \in Queued : TargetOf[o] = t THEN None ELSE active[t]]
    /\ vaultActive' = vaultActive \ {VaultOf(o) : o \in Queued}
    /\ shutdown' = "unlocking"
    /\ UNCHANGED <<dbVars, holder, waiting, running, limit, taskErr, admit, batch, reserveVars, stage,
                   cancelVars, dispatcher, finalizer, entry>>

ShutdownUnlock ==
    /\ shutdown = "unlocking"
    /\ holder' = [v \in Vaults |-> IF v \in shutdownHolds THEN "free" ELSE holder[v]]
    /\ shutdownHolds' = {}
    /\ shutdown' = "waiting"
    /\ finalizer' = IF drained = {} THEN "done" ELSE "writing"
    /\ UNCHANGED <<dbVars, queue, active, dispatchVars, running, limit,
                   taskErr, admitVars, reserveVars, stage, cancelVars, closed, dispatcher, drained, entry>>

\* finalizeQueued: all or none of the drained rows.
FinalizeWrite ==
    /\ finalizer = "writing"
    /\ \/ /\ Interruptible(drained) /\ Interrupt(drained)
          /\ finalizer' = "removing"
          /\ UNCHANGED unwritten
       \/ /\ WriteFailures \/ ~Interruptible(drained)
          /\ unwritten' = unwritten \cup {o \in drained : row[o] = "queued"}
          /\ finalizer' = "done"
          /\ UNCHANGED row
    /\ UNCHANGED <<orphaned, holder, queue, active, dispatchVars, running, limit,
                   taskErr, admitVars, reserveVars, stage, cancelVars, closed, dispatcher, shutdown, drained, shutdownHolds, entry>>

FinalizeRemove ==
    /\ finalizer = "removing"
    /\ finalizer' = "done"
    /\ ended' = ended \cup drained
    /\ entry' = [o \in Operations |-> IF o \in drained THEN "absent" ELSE entry[o]]
    /\ UNCHANGED <<dbVars, holder, queue, active, dispatchVars, running, limit,
                   taskErr, admitVars, reserveVars, stage, quarantined, cancelRequested, cancelStage, cancelHolds,
                   accepted, closed, dispatcher, shutdown, drained, shutdownHolds>>

Drained ==
    /\ dispatcher = "stopped"
    /\ finalizer = "done"
    /\ \A o \in Operations : stage[o] \notin InRun

ShutdownReturn ==
    /\ shutdown = "waiting" /\ Drained
    /\ shutdown' = "returned"
    /\ UNCHANGED <<dbVars, holder, queue, active, dispatchVars, running, limit,
                   taskErr, admitVars, reserveVars, stage, cancelVars, closed, dispatcher, drained,
                   shutdownHolds, finalizer, entry>>

-----------------------------------------------------------------------------
Admission == AdmitRows \/ AdmitCheck \/ AdmitPublish \/ AdmitRefuse \/ AdmitEnd
Dispatch == \E o \in Operations : TakeTask(o) \/ StartReserve(o)
Reserving(v) ==
    ReserveTry(v) \/ ReserveAcquire(v) \/ ReserveAbandon(v) \/ ReserveFinish(v) \/ ReserveReturn(v)
Execute(o) == RunLaunch(o) \/ RunChildEnds(o) \/ RunReturn(o) \/ RunSettle(o)
Run(o) ==
    \/ RunActivate(o) \/ RunRestore(o) \/ Execute(o) \/ RunPersist(o)
    \/ RunUnlock(o) \/ RunFreeSlot(o) \/ RunRemove(o)
Cancelling(o) ==
    \/ CancelStarted(o) \/ CancelQuarantine(o) \/ CancelWrite(o) \/ CancelWriteFails(o)
    \/ CancelDequeue(o) \/ CancelCleanup(o)
Stopping == DispatcherStop \/ ShutdownUnlock \/ FinalizeWrite \/ FinalizeRemove \/ ShutdownReturn

Next ==
    \/ AdmitBegin \/ Admission
    \/ Dispatch
    \/ \E n \in Limits : SetLimit(n)
    \/ \E v \in Vaults : Reserving(v) \/ OtherTakes(v) \/ OtherReleases(v)
    \/ \E o \in Operations : Run(o) \/ CancelCall(o) \/ Cancelling(o)
    \/ ShutdownBegin \/ Stopping

Spec == Init /\ [][Next]_vars

(* The dispatcher is woken by every change and by a ticker, Go's mutexes and   *)
(* RWMutex do not starve a waiter, and the other users of a vault and the      *)
(* backups themselves end. Admissions, cancels and Shutdown need not happen.   *)
Fairness ==
    /\ WF_vars(Admission) /\ WF_vars(Stopping)
    /\ SF_vars(Dispatch)
    /\ WF_vars(\E o \in Operations : Run(o))
    /\ WF_vars(\E o \in Operations : Cancelling(o))
    /\ \A v \in Vaults : SF_vars(Reserving(v)) /\ WF_vars(OtherReleases(v))

FairSpec == Spec /\ Fairness

-----------------------------------------------------------------------------
(* Properties                                                                 *)

\* Type invariant: every variable stays in the set the code keeps it in.
TypeOK ==
    /\ row \in [Operations -> {"none", "queued", "running"} \cup Terminal]
    /\ holder \in [Vaults -> {"free", "other", "backup"}]
    /\ queue \in Seq(Operations) /\ IsInjective(queue)
    /\ active \in [Targets -> Operations \cup {None}]
    /\ vaultActive \subseteq Vaults /\ ready \subseteq Vaults
    /\ returning \subseteq Vaults /\ shutdownHolds \subseteq Vaults
    /\ waiting \in [Vaults -> {"absent", "handoff", "contended"}]
    /\ running \in Nat /\ limit \in Limits
    /\ admitting \in BOOLEAN /\ closed \in BOOLEAN
    /\ dispatcher \in {"running", "stopped"}
    /\ admit \in {"idle", "writing", "checking", "publishing", "refusing", "ending"}
    /\ batch \in Seq(Operations)
    /\ reserver \in [Vaults -> {"none", "trying", "waiting", "acquired", "failed"}]
    /\ stage \in [Operations -> {"none", "done"} \cup InRun]
    /\ taskErr \in [Operations -> {"unread", "live", "ended"}]
    /\ \A S \in {unwritten, orphaned, quarantined, cancelRequested, ended, cancelHolds, drained, accepted} :
        S \subseteq Operations
    /\ cancelStage \in [Operations -> {"none", "entered", "writing", "dequeuing", "cleaning"}]
    /\ shutdown \in {"no", "unlocking", "waiting", "returned"}
    /\ finalizer \in {"none", "writing", "removing", "done"}
    /\ entry \in [Operations -> {"absent", "idle", "inFlight", "accepted", "closed"}]

\* The part of the code that has to release vault v, one record for each.
Owners(v) ==
    {<<"run", o>> : o \in {p \in Operations : VaultOf(p) = v /\ stage[p] \in Holding}}
    \cup {<<"cancel", o>> : o \in {p \in cancelHolds : VaultOf(p) = v}}
    \cup {<<part, v>> : part \in {p \in {"reserver", "returning", "ready", "shutdown"} :
            \/ p = "reserver" /\ reserver[v] = "acquired"
            \/ p = "returning" /\ v \in returning
            \/ p = "ready" /\ v \in ready
            \/ p = "shutdown" /\ v \in shutdownHolds}}

\* A vault lock taken for backups is owed by exactly one run, reservation, cancel or
\* shutdown, through every hand-over of the unlock function, and nobody owes one that is
\* not held.  Until shutdown, a queued or running task is the active entry of its target,
\* so that no second operation of the pair is activated beside it (activatePersistedLocked).
OneOwner ==
    /\ \A v \in Vaults : Cardinality(Owners(v)) = IF holder[v] = "backup" THEN 1 ELSE 0
    /\ ~closed => \A o \in Operations :
          o \in Queued \/ stage[o] \in InSlot => active[TargetOf[o]] = o

\* Every used slot belongs to one run, no vault is used by two runs at a time, and the
\* engine only runs for a row marked running, never for an operation that a cancel or a
\* refused admission already ended in the database.
SlotsMatchRuns ==
    LET runs == {o \in Operations : stage[o] \in InSlot} IN
    /\ running = Cardinality(runs)
    /\ \A o, p \in runs : VaultOf(o) = VaultOf(p) => o = p
    /\ \A o \in runs : stage[o] \in Executing => row[o] = "running"

\* An accepted cancel keeps its word. An operation it found waiting is never run: its row
\* says interrupted, or Shutdown has it to settle. One that a dispatch took first launches no
\* further child, neither an engine nor a script, and when its executor returns, run knows
\* of the cancel (cancelTask, run, the child's admission).
StaysStopped(o) ==
    /\ stage[o] = "none" => stage'[o] = "none" /\ (row[o] = "interrupted" \/ o \in drained)
    /\ stage'[o] \in Children => stage'[o] = stage[o]
    /\ taskErr'[o] = "live" => taskErr[o] = "live"

\* A run is reported interrupted only if somebody stopped it, and before its executor
\* returned: a cancel that is accepted, or a Shutdown that begins, during the bookkeeping
\* that follows leaves the result as it is (run, classifyBackupRunStatus).
StoppedInTime(o) ==
    row[o] = "running" /\ row'[o] = "interrupted" =>
        taskErr[o] = "ended" /\ (o \in cancelRequested \/ closed)

\* What a cancel decides: everything that has not begun when it is accepted, and nothing
\* that was over before.
AcceptedCancelHolds ==
    [][(\A o \in accepted : StaysStopped(o)) /\ (\A o \in Operations : StoppedInTime(o))]_vars

\* No row is forgotten. One that is queued or running in the database has an entry in the
\* runtime, so it can be shown, unless its admission is still in progress or could not be
\* taken back; that includes rows whose last status could not be written (run,
\* finalizeQueued, cancelTask). Once Shutdown has closed the gate nothing is queued or
\* reserved any more, and when it returns no run is left and every row that could be
\* settled is: the database may be closed.
NoRowForgotten ==
    /\ \A o \in Operations : row[o] \in {"queued", "running"} =>
           entry[o] # "absent" \/ o \in ToSet(batch) \/ o \in orphaned
    /\ closed => queue = <<>> /\ ready = {}
    /\ shutdown = "returned" => \A o \in Operations :
           /\ stage[o] \notin InRun
           /\ row[o] \in {"queued", "running"} => o \in unwritten \cup orphaned

\* A reserved vault is kept for a queued task that can still use it, or for a cancel that
\* is about to give it back (reserveVault and cancelTask recheck demand).
NoStrandedReservation == \A v \in ready : \E o \in Queued :
    /\ VaultOf(o) = v
    /\ o \notin quarantined \/ cancelStage[o] \in {"writing", "dequeuing"}

\* A task starts only if every task before it that may still start waits for a vault in
\* use: dispatch keeps the order of admission (takeRunnableLocked).
StartsInOrder == [][\A i \in DOMAIN queue : stage'[queue[i]] # stage[queue[i]] =>
    \A k \in 1..(i - 1) : LET o == queue[k] IN
        \/ o \in cancelRequested
        \/ waiting[VaultOf(o)] = "contended"
        \/ \E p \in Operations : stage[p] \in InSlot /\ VaultOf(p) = VaultOf(o)]_vars

\* The queue empties: every queued task leaves it, since it runs, is cancelled or is
\* interrupted, and no operation comes back. Shutdown returns: the dispatcher stops, queued
\* rows are settled, runs end, and every vault lock that was reserved or waited for is
\* given back.
QueueDrains ==
    /\ []<>(Queued = {})
    /\ closed ~> shutdown = "returned" /\ \A v \in Vaults : holder[v] # "backup"
=============================================================================
