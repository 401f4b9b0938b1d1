---------------------------- MODULE MetadataCache ----------------------------
(***************************************************************************)
(* The cache of a vault's snapshots that File History and Restore read:    *)
(* the coordinator of background fills in metadata/cache.go, the           *)
(* generations by which database/metadata_cache.go and metadata_rebuild.go *)
(* decide whether the cache may be shown, and the backups, deletions and   *)
(* restores that defer a fill, change the vault and hand work back.        *)
(*                                                                         *)
(* One vault; vaults share only the two slots for fills, which here come   *)
(* when they come. The vault's lock is the gate of VaultGate, which        *)
(* VaultLock implements. One action is one stretch under the coordinator's *)
(* mutex, one database transaction, or one native command. A native        *)
(* command is taken to end with the application.                           *)
(***************************************************************************)
EXTENDS Integers, FiniteSets

CONSTANTS
    Writers,    \* uses of the vault, each made at most once
    Backups,    \* those that are backups; each names the snapshot it makes
    Old,        \* snapshots that may be in the vault before the application knows it
    Fills,      \* goroutines a fill may run in; one more than run at a time
    None,
    UserRequests,  \* what users may ask for beside opening the history
    Events     \* bound: how many steps may fail, find the buckets of the cache too
                \* small, be the last before the application stops or crashes, be
                \* a user's request, or a change of the jobs

Snapshots == Old \cup Backups

ASSUME BackupsAssumption == Backups \subseteq Writers
ASSUME BoundAssumption == Events \in Nat

\* syncRequest: a complete listing of headers or only missing entries; whether
\* it ignores cooldowns; whether a backup asks for it; whether it only looks
\* at the number of buckets.
Requests == [headers : BOOLEAN, bypass : BOOLEAN, post : BOOLEAN, candidate : BOOLEAN]
Request(headers, bypass, post, candidate) ==
    [headers |-> headers, bypass |-> bypass, post |-> post, candidate |-> candidate]
AfterBackup == Request(TRUE, TRUE, TRUE, FALSE)
Evaluation  == Request(TRUE, TRUE, FALSE, TRUE)
ForceAll    == Request(TRUE, TRUE, FALSE, FALSE)
RetryEntries == Request(FALSE, TRUE, FALSE, FALSE)
ASSUME NoneAssumption == None \notin Fills \cup Requests
ASSUME UsersAssumption == UserRequests \subseteq Requests

VARIABLES
    native,         \* the snapshots in the vault
    required,       \* repositories.required_generation, in the main database
    applied,        \* metadata_cache_state.applied_generation, in the cache
    reconciled,     \* last_reconciled: "never", "fresh" or, after ten days, "stale"
    header,         \* metadata_cache_snapshots: status of each snapshot's row
    regrouped,      \* rows under another grouping root than the jobs now give them
    headerFailure,  \* metadata_cache_failures: "none", "cooling" or "due"
    entryCooling,   \* failed rows are within their cooldown
    claims, exclusive, shared, leases, revoked,   \* the gate of the vault
    accept,         \* coordinator.accept
    running,        \* the goroutine that set coordinator.running, or None
    pending,        \* coordinator.pending
    active,         \* coordinator.activeRequest
    stopper,        \* what activeCancel ends: "none", "queue" or "run"
    doneOf,         \* the goroutine whose channel is activeDone
    deferring,      \* the writers counted in coordinator.writers
    fill,           \* the goroutines' own state
    writer,         \* the writers' own state, and what each uses the vault for; a restore
                    \* does what a deletion does that ends before its command
    events         \* what the bound leaves

vault == <<native, required, applied, reconciled, header, regrouped, headerFailure, entryCooling>>
gate == <<claims, exclusive, shared, leases, revoked>>
queue == <<accept, running, pending, active, stopper, doneOf, deferring>>
vars == <<vault, gate, queue, fill, writer, events>>

Gate == INSTANCE VaultGate WITH Claimants <- Writers, Lows <- Fills, Sharers <- {}

IdleFill == [pc |-> "idle", request |-> None, pass |-> None, cancel |-> {}, work |-> {},
             seen |-> {}, observed |-> 0, rebuilding |-> FALSE, faulty |-> FALSE,
             yielded |-> FALSE]
Kinds == {"backup", "deletion", "check"}
IdleWriter(kind) == [kind |-> kind, pc |-> "idle", generation |-> 0, snapshot |-> None,
                     drain |-> None, give |-> None]

Init ==
    /\ native \in SUBSET Old /\ required = 0 /\ applied = 0 /\ reconciled = "never"
    /\ header = [s \in Snapshots |-> "absent"] /\ regrouped = {}
    /\ headerFailure = "none" /\ entryCooling = FALSE
    /\ Gate!Init
    /\ accept = TRUE /\ running = None /\ pending = None /\ active = None
    /\ stopper = "none" /\ doneOf = None /\ deferring = {}
    /\ fill = [g \in Fills |-> IdleFill]
    /\ writer \in [Writers -> {[IdleWriter(k) EXCEPT !.pc = p] : k \in Kinds,
                                                               p \in {"idle", "done"}}]
    /\ \A w \in Writers : writer[w].kind = "backup" <=> w \in Backups
    /\ events \in 0..Events

Event == events > 0 /\ events' = events - 1

AllReady(rows) == \A s \in Snapshots : rows[s] \in {"absent", "ready"}
Complete == reconciled = "fresh" /\ required = applied /\ headerFailure = "none" /\ AllReady(header)

\* Mutant of Needed: a snapshot whose entries failed once is not listed again.
NeededPendingOnly(rows, bypass) == {s \in Snapshots : rows[s] = "pending"}

Needed(rows, bypass) ==
    {s \in Snapshots : rows[s] = "pending" \/ (rows[s] = "failed" /\ (bypass \/ ~entryCooling))}

-----------------------------------------------------------------------------
(* Requests and the queue of the coordinator.                               *)

\* strongerRequest.
Stronger(current, next) ==
    IF current = None THEN next
    ELSE Request(current.headers \/ next.headers, current.bypass \/ next.bypass,
                 current.post \/ next.post, current.candidate /\ next.candidate)

\* requestFollowup: what of next the active request leaves undone, or None.
Followup(next) ==
    IF \/ active = None
       \/ active.candidate /\ ~next.candidate
       \/ active.post /\ ~next.post /\ next.headers
       \/ next.headers /\ ~active.headers
    THEN next
    ELSE IF next.bypass /\ ~active.bypass THEN [next EXCEPT !.headers = FALSE]
    ELSE None

\* A request that finds the cache being rebuilt joins it, until the pass has ended.
Joins(request) == fill[running].rebuilding /\ ~request.post

\* activeDone, deleted when its goroutine has ended.
OpenIn(F) == IF doneOf # None /\ F[doneOf].pc = "idle" THEN None ELSE doneOf

\* scheduleRepositorySync, where the goroutines are left as in F; a new goroutine
\* has any free name.
Schedule(F, request, rerun) ==
    /\ UNCHANGED <<accept, deferring>>
    /\ \/ /\ ~accept
          /\ fill' = F
          /\ doneOf' = OpenIn(F)
          /\ UNCHANGED <<running, pending, active, stopper>>
       \/ /\ accept /\ deferring # {}
          /\ pending' = Stronger(pending, request)
          /\ fill' = F
          /\ doneOf' = OpenIn(F)
          /\ UNCHANGED <<running, active, stopper>>
       \/ /\ accept /\ deferring = {} /\ running # None
          /\ pending' = IF rerun /\ ~Joins(request) /\ Followup(request) # None
                        THEN Stronger(pending, Followup(request)) ELSE pending
          /\ fill' = F
          /\ doneOf' = OpenIn(F)
          /\ UNCHANGED <<running, active, stopper>>
       \/ /\ accept /\ deferring = {} /\ running = None
          /\ \E g \in Fills : F[g].pc = "idle"
          /\ LET g == CHOOSE h \in Fills : F[h].pc = "idle" IN
                /\ fill' = [F EXCEPT ![g] = [IdleFill EXCEPT !.pc = "queued", !.request = request]]
                /\ running' = g /\ doneOf' = g
          /\ active' = request /\ stopper' = "queue"
          /\ UNCHANGED pending

Goto(g, pc) == fill' = [fill EXCEPT ![g].pc = pc]

\* The goroutine ends and closes its channel, the last it does under the mutex.
Closed(g) ==
    /\ fill' = [fill EXCEPT ![g] = IdleFill]
    /\ doneOf' = IF doneOf = g THEN None ELSE doneOf

\* A pass returns: SyncRepositoryContext gives the lease back and reports whether
\* it was revoked. The request and its cancellation outlast the pass.
Leave(g) ==
    /\ Gate!Return(g)
    /\ fill' = [fill EXCEPT ![g] = [IdleFill EXCEPT
                   !.pc = "ended", !.request = fill[g].request, !.cancel = fill[g].cancel,
                   !.rebuilding = fill[g].rebuilding, !.yielded = g \in revoked]]

-----------------------------------------------------------------------------
(* A fill: the goroutine of scheduleRepositorySyncWithPendingJoin.          *)

Unqueued(g) == "queue" \in fill[g].cancel \/ ~accept

\* The head of the loop, at first when a slot comes free, be the wait cancelled or
\* not: a writer that came meanwhile goes first.
StartPass(g) ==
    /\ fill[g].pc \in {"queued", "top"}
    /\ IF Unqueued(g) \/ deferring # {}
       THEN /\ pending' = Stronger(pending, fill[g].request)
            /\ Goto(g, "leavingQueue")
            /\ UNCHANGED <<active, stopper>>
       ELSE /\ active' = fill[g].request /\ stopper' = "run"
            /\ Goto(g, "acquire")
            /\ UNCHANGED pending
    /\ UNCHANGED <<vault, gate, accept, running, doneOf, deferring, writer, events>>

\* Mutant of FinishQueued: the record of the active request survives its goroutine.
FinishQueuedKeepsRecord(g) ==
    /\ fill[g].pc = "leavingQueue" \/ (fill[g].pc = "queued" /\ Unqueued(g))
    /\ pending' = IF accept THEN pending ELSE None
    /\ Closed(g)
    /\ running' = None /\ stopper' = "none"
    /\ UNCHANGED <<vault, gate, accept, active, deferring, writer, events>>

\* finishQueued; a request it may resume is scheduled by the next step.
FinishQueued(g) ==
    /\ fill[g].pc = "leavingQueue" \/ (fill[g].pc = "queued" /\ Unqueued(g))
    /\ LET resume == accept /\ deferring = {} /\ pending # None IN
       /\ pending' = IF resume \/ ~accept THEN None ELSE pending
       /\ IF resume
          THEN /\ fill' = [fill EXCEPT ![g] = [IdleFill EXCEPT !.pc = "handing",
                                                                !.request = pending]]
               /\ UNCHANGED doneOf
          ELSE Closed(g)
    /\ running' = None /\ active' = None /\ stopper' = "none"
    /\ UNCHANGED <<vault, gate, accept, deferring, writer, events>>

HandBack(g) ==
    /\ fill[g].pc = "handing"
    /\ Schedule([fill EXCEPT ![g] = IdleFill], fill[g].request, TRUE)
    /\ UNCHANGED <<vault, gate, writer, events>>

PassEnded(g) == "run" \in fill[g].cancel \/ ~accept

\* AcquireLowPrioritySharedContext, and what the pass then reads: an entries
\* pass has nothing to do without headers, or if no row needs it.
Admit(g) ==
    LET pass == fill[g].request
        work == IF pass.headers \/ reconciled = "never" THEN {} ELSE Needed(header, pass.bypass)
    IN
    /\ fill[g].pc = "acquire" /\ ~PassEnded(g)
    /\ Gate!Lease(g)
    /\ fill' = [fill EXCEPT ![g].pass = pass, ![g].work = work,
                            ![g].pc = IF pass.headers THEN "list" ELSE "index"]
    /\ UNCHANGED <<vault, queue, writer, events>>

NotAdmitted(g) ==
    /\ fill[g].pc = "acquire" /\ PassEnded(g)
    /\ Goto(g, "ended")
    /\ UNCHANGED <<vault, gate, queue, writer, events>>

InPass == {"list", "rebuild", "publish", "index"}

\* A cancelled context or lease is noticed between any two steps of a pass.
Interrupted(g) ==
    /\ fill[g].pc \in InPass
    /\ PassEnded(g) \/ g \in revoked
    /\ Leave(g)
    /\ UNCHANGED <<vault, queue, writer, events>>

\* The complete native listing, with the generation read before it. Buckets
\* found too small start a rebuild, which makes sure that the cache is dirty.
List(g) ==
    LET f == fill[g] IN
    /\ f.pc = "list"
    /\ \/ f.pass.candidate /\ Leave(g) /\ UNCHANGED <<required, events>>
       \/ /\ ~f.pass.candidate
          /\ fill' = [fill EXCEPT ![g].seen = native, ![g].observed = required, ![g].pc = "publish"]
          /\ UNCHANGED <<gate, required, events>>
       \/ /\ ~f.pass.post \/ reconciled = "never"
          /\ Event
          /\ required' = IF applied = required THEN required + 1 ELSE required
          /\ fill' = [fill EXCEPT ![g].seen = native, ![g].observed = required',
                                  ![g].rebuilding = TRUE, ![g].pc = "rebuild"]
          /\ UNCHANGED gate
    /\ UNCHANGED <<native, applied, reconciled, header, regrouped, headerFailure, entryCooling,
                   queue, writer>>

\* Mutant of Rebuild: what was built before a change of the jobs passes for what came after.
RebuildUnchecked(g) ==
    LET f == fill[g] IN
    /\ f.pc = "rebuild"
    /\ header' = [s \in Snapshots |-> IF s \in f.seen THEN "ready" ELSE "absent"]
    /\ applied' = required /\ reconciled' = "fresh" /\ headerFailure' = "none"
    /\ regrouped' = IF required = f.observed THEN {} ELSE regrouped
    /\ Leave(g)
    /\ UNCHANGED <<native, required, entryCooling, queue, writer, events>>

\* RebuildMetadataCache publishes a whole new file, unless the generation moved.
Rebuild(g) ==
    LET f == fill[g] IN
    /\ f.pc = "rebuild"
    /\ IF required = f.observed
       THEN /\ header' = [s \in Snapshots |-> IF s \in f.seen THEN "ready" ELSE "absent"]
            /\ applied' = f.observed /\ reconciled' = "fresh" /\ headerFailure' = "none"
            /\ regrouped' = {}
       ELSE UNCHANGED <<header, applied, reconciled, regrouped, headerFailure>>
    /\ Leave(g)
    /\ UNCHANGED <<native, required, entryCooling, queue, writer, events>>

\* The rows of the snapshots that a listing found: new rows, and those that change
\* their grouping root, have their entries to be listed.
Listed(seen) ==
    [s \in Snapshots |-> IF s \notin seen THEN "absent"
                         ELSE IF header[s] = "absent" \/ s \in regrouped THEN "pending"
                         ELSE header[s]]

\* A listing that finds work in a cache that was up to date makes it dirty.
MovesOn(rows) == (rows # header \/ ~AllReady(rows)) /\ applied = required

\* reconcileMetadataSnapshotHeadersComplete: rows that went, rows that came, unless
\* the generation has moved since the listing.
Publish(g) ==
    LET f == fill[g]
        rows == Listed(f.seen)
    IN
    /\ f.pc = "publish"
    /\ IF required # f.observed
       THEN /\ fill' = [fill EXCEPT ![g].pc = "index", ![g].seen = {},
                                    ![g].work = Needed(header, f.pass.bypass)]
            /\ UNCHANGED <<required, reconciled, header, regrouped>>
       ELSE /\ required' = IF MovesOn(rows) THEN required + 1 ELSE required
            /\ header' = rows /\ reconciled' = "fresh" /\ regrouped' = {}
            /\ fill' = [fill EXCEPT ![g].pc = "index", ![g].observed = required',
                                    ![g].seen = {}, ![g].work = Needed(rows, f.pass.bypass)]
    /\ UNCHANGED <<native, applied, headerFailure, entryCooling, gate, queue, writer, events>>

\* The generation is in the main database, the rows are in the cache's: the second
\* write of Publish may fail after the first.
PublishHalf(g) ==
    LET f == fill[g] IN
    /\ f.pc = "publish" /\ required = f.observed /\ MovesOn(Listed(f.seen))
    /\ Event
    /\ required' = required + 1
    /\ headerFailure' \in {headerFailure, "cooling"}
    /\ Leave(g)
    /\ UNCHANGED <<native, applied, reconciled, header, regrouped, entryCooling, queue, writer>>

\* The entries of one snapshot are listed and stored, or its row fails.
Index(g) ==
    /\ fill[g].pc = "index"
    /\ \E s \in fill[g].work :
         \/ /\ header' = [header EXCEPT ![s] = "ready"]
            /\ fill' = [fill EXCEPT ![g].work = @ \ {s}]
            /\ UNCHANGED <<entryCooling, events>>
         \/ /\ Event
            /\ header' = [header EXCEPT ![s] = "failed"] /\ entryCooling' = TRUE
            /\ fill' = [fill EXCEPT ![g].work = @ \ {s}, ![g].faulty = TRUE]
    /\ UNCHANGED <<native, required, applied, reconciled, regrouped, headerFailure, gate, queue,
                   writer>>

\* Mutant of CompletePass: a pass overtaken by a generation tries again without reading it.
CompletePassRetries(g) ==
    LET f == fill[g] IN
    /\ f.pc = "index" /\ f.work = {}
    /\ IF f.pass.headers /\ required # f.observed
       THEN /\ fill' = [fill EXCEPT ![g].seen = native, ![g].pc = "publish"]
            /\ UNCHANGED <<applied, headerFailure, gate>>
       ELSE /\ Leave(g)
            /\ IF f.faulty \/ ~f.pass.headers \/ ~AllReady(header)
               THEN UNCHANGED <<applied, headerFailure>>
               ELSE applied' = f.observed /\ headerFailure' = "none"
    /\ UNCHANGED <<native, required, reconciled, header, regrouped, entryCooling, queue, writer,
                   events>>

\* CompleteMetadataRefresh: the cache is declared up to date with the generation
\* the pass saw, if that is still the latest. A backup's pass may then look at
\* the buckets once more under the same lease (evaluateBackupMetadataBuckets).
CompletePass(g) ==
    LET f == fill[g] IN
    /\ f.pc = "index" /\ f.work = {}
    /\ IF f.faulty \/ ~f.pass.headers \/ required # f.observed
       THEN Leave(g) /\ UNCHANGED <<applied, headerFailure>>
       ELSE IF ~AllReady(header)
       THEN headerFailure' = "cooling" /\ Leave(g) /\ UNCHANGED applied
       ELSE /\ applied' = f.observed /\ headerFailure' = "none"
            /\ \/ Leave(g)
               \/ /\ f.pass.post
                  /\ fill' = [fill EXCEPT ![g].pass = Evaluation, ![g].observed = 0,
                                          ![g].pc = "list"]
                  /\ UNCHANGED gate
    /\ UNCHANGED <<native, required, reconciled, header, regrouped, entryCooling, queue, writer,
                   events>>

\* The vault is not admitted, or a listing or a write of the cache fails; only
\* what a header refresh meets is recorded and has to cool down.
PassFails(g) ==
    /\ fill[g].pc \in InPass
    /\ Event
    /\ headerFailure' \in {headerFailure} \cup (IF fill[g].pass.headers THEN {"cooling"} ELSE {})
    /\ Leave(g)
    /\ UNCHANGED <<native, required, applied, reconciled, header, regrouped, entryCooling, queue,
                   writer>>

\* After a pass: a pass that yielded stays pending, a writer gets everything,
\* and else what is pending is the next pass of the same goroutine.
EndPass(g) ==
    LET f == fill[g]
        kept == IF (f.yielded /\ accept) \/ deferring # {}
                THEN Stronger(pending, f.request) ELSE pending
    IN
    /\ f.pc = "ended"
    /\ active' = None /\ stopper' = "none"
    /\ IF deferring = {} /\ kept # None /\ accept
       THEN /\ fill' = [fill EXCEPT ![g] =
                  [IdleFill EXCEPT !.pc = "top", !.request = kept, !.cancel = f.cancel \ {"run"}]]
            /\ pending' = None
            /\ UNCHANGED <<running, doneOf>>
       ELSE /\ Closed(g)
            /\ pending' = IF deferring # {} THEN kept ELSE None
            /\ running' = None
    /\ UNCHANGED <<vault, gate, accept, deferring, writer, events>>

-----------------------------------------------------------------------------
(* Those who use the vault.                                                 *)

At(w, pc) == writer[w].pc = pc
Move(w, pc) == writer' = [writer EXCEPT ![w] = [IdleWriter(@.kind) EXCEPT !.pc = pc]]

\* deferRepositorySync: the active request is saved and cancelled. A backup goes
\* on at once, a deletion or a restore first waits for the goroutine to end.
Defer(w) ==
    /\ At(w, "idle") /\ writer[w].kind # "check" /\ accept
    /\ deferring' = deferring \cup {w}
    /\ IF stopper # "none"
       THEN /\ pending' = Stronger(pending, active)
            /\ fill' = [fill EXCEPT ![running].cancel = @ \cup {stopper}]
       ELSE UNCHANGED <<pending, fill>>
    /\ writer' = [writer EXCEPT ![w].pc = IF w \in Backups THEN "deferred" ELSE "draining",
                                ![w].drain = IF w \in Backups THEN None ELSE doneOf]
    /\ UNCHANGED <<vault, gate, accept, running, active, stopper, doneOf, events>>

\* Mutant of Drained: a deletion goes ahead beside the fill it cancelled.
DrainedAtOnce(w) == TRUE

\* No goroutine starts while a writer waits, so an idle one has closed its channel.
Drained(w) == \A g \in Fills : writer[w].drain = g => fill[g].pc = "idle"

AskVault(w) ==
    /\ \/ At(w, "deferred")
       \/ At(w, "draining") /\ Drained(w)
       \/ At(w, "idle") /\ writer[w].kind = "check" /\ accept
    /\ Gate!Ask(w)
    /\ Move(w, "asking")
    /\ UNCHANGED <<vault, queue, fill, events>>

\* Under the lock: StartMetadataMutationStep reserves a generation before the command.
\* Restores and checks change nothing, and others may fail before they start.
EnterVault(w) ==
    /\ At(w, "asking")
    /\ Gate!Grant(w)
    /\ \/ Move(w, "unlocking") /\ UNCHANGED required
       \/ /\ writer[w].kind \in {"backup", "deletion"}
          /\ required' = required + 1
          /\ writer' = [writer EXCEPT ![w].pc = "native", ![w].generation = required']
    /\ UNCHANGED <<native, applied, reconciled, header, regrouped, headerFailure, entryCooling,
                   queue, fill, events>>

\* The caller's context ends while it waits for the fill or for the lock.
GiveUp(w) ==
    /\ \/ At(w, "draining") /\ UNCHANGED gate
       \/ At(w, "asking") /\ Gate!Refuse(w)
    /\ Move(w, IF writer[w].kind = "check" THEN "done" ELSE "resuming")
    /\ UNCHANGED <<vault, queue, fill, events>>

\* The backup command: its snapshot may be there even if the command failed,
\* and retention may have removed older ones.
NativeBackup(w) ==
    /\ At(w, "native") /\ w \in Backups
    /\ \E removed \in SUBSET Old, added \in SUBSET {w} :
         native' = (native \ removed) \cup added
    /\ Move(w, "reconcile")
    /\ UNCHANGED <<required, applied, reconciled, header, regrouped, headerFailure, entryCooling,
                   gate, queue, fill, events>>

\* The deletion command, conclusive or not.
NativeDeletion(w) ==
    /\ At(w, "native") /\ writer[w].kind = "deletion"
    /\ \E s \in native :
         \/ /\ native' = native \ {s}
            /\ writer' = [writer EXCEPT ![w].pc = "apply", ![w].snapshot = s]
         \/ native' \in {native, native \ {s}} /\ Move(w, "unlocking")
    /\ UNCHANGED <<required, applied, reconciled, header, regrouped, headerFailure, entryCooling,
                   gate, queue, fill, events>>

NotStarted(w) ==
    /\ At(w, "native")
    /\ writer' = [writer EXCEPT ![w].pc = "acknowledge"]
    /\ UNCHANGED <<vault, gate, queue, fill, events>>

\* Mutant of Advanced: an earlier change the cache never saw is passed over.
AdvancedOverGap(generation, rows) == IF AllReady(rows) THEN generation ELSE applied

\* advanceAppliedGenerationTx: only over a cache without an earlier gap.
Advanced(generation, rows) ==
    IF applied = generation - 1 /\ AllReady(rows) THEN generation ELSE applied

\* AcknowledgeMetadataGeneration.
Acknowledge(w) ==
    /\ At(w, "acknowledge")
    /\ \/ applied' = Advanced(writer[w].generation, header) /\ UNCHANGED events
       \/ Event /\ UNCHANGED applied
    /\ Move(w, "unlocking")
    /\ UNCHANGED <<native, required, reconciled, header, regrouped, headerFailure, entryCooling,
                   gate, queue, fill>>

\* ApplyMetadataDeletedSnapshots.
ApplyDeletion(w) ==
    /\ At(w, "apply")
    /\ \/ /\ header' = [header EXCEPT ![writer[w].snapshot] = "absent"]
          /\ applied' = Advanced(writer[w].generation, header')
          /\ writer' = [writer EXCEPT ![w].pc = "unlocking", ![w].generation = 0]
          /\ UNCHANGED events
       \/ /\ Event
          /\ Move(w, "unlocking")
          /\ UNCHANGED <<header, applied>>
    /\ UNCHANGED <<native, required, reconciled, regrouped, headerFailure, entryCooling, gate,
                   queue, fill>>

\* ScheduleRepositorySyncAfterBackup, still under the backup's own deferral.
Reconcile(w) ==
    /\ At(w, "reconcile")
    /\ Schedule(fill, AfterBackup, FALSE)
    /\ Move(w, "unlocking")
    /\ UNCHANGED <<vault, gate, events>>

LeaveAfterUse(w) ==
    /\ At(w, "unlocking")
    /\ Gate!Release(w)
    /\ Move(w, IF writer[w].kind = "check" THEN "done"
               ELSE IF writer[w].snapshot # None THEN "evaluate" ELSE "resuming")
    /\ UNCHANGED <<vault, queue, fill, events>>

\* ScheduleRepositoryBucketEvaluation after a deletion that went into the cache.
Evaluate(w) ==
    /\ At(w, "evaluate")
    /\ \/ Schedule(fill, Evaluation, TRUE)
       \/ UNCHANGED <<queue, fill>>
    /\ Move(w, "resuming")
    /\ UNCHANGED <<vault, gate, events>>

\* The release of deferRepositorySync: the last writer takes what is pending, and
\* schedules it when it has let go of the mutex.
Resume(w) ==
    /\ At(w, "resuming")
    /\ deferring' = deferring \ {w}
    /\ LET takes == deferring = {w} /\ running = None /\ pending # None IN
       /\ pending' = IF takes THEN None ELSE pending
       /\ writer' = [writer EXCEPT ![w] = [IdleWriter(@.kind) EXCEPT
                        !.pc = IF takes /\ accept THEN "giving" ELSE "done",
                        !.give = IF takes /\ accept THEN pending ELSE None]]
    /\ UNCHANGED <<vault, gate, accept, running, active, stopper, doneOf, fill, events>>

Give(w) ==
    /\ At(w, "giving")
    /\ Schedule(fill, writer[w].give, FALSE)
    /\ writer' = [writer EXCEPT ![w] = [IdleWriter(@.kind) EXCEPT !.pc = "done"]]
    /\ UNCHANGED <<vault, gate, events>>

-----------------------------------------------------------------------------
(* The user, other computers, time, and the life of the application.        *)

\* ScheduleRepositoryAccessWithReader.
Access ==
    LET current == required = applied
        headers == (reconciled # "fresh" \/ ~current) /\ headerFailure # "cooling"
        entries == /\ ~headers /\ current /\ reconciled # "never"
                   /\ Needed(header, FALSE) # {}
    IN
    /\ headers \/ entries
    /\ Schedule(fill, Request(headers, FALSE, FALSE, FALSE), TRUE)
    /\ UNCHANGED <<vault, gate, writer, events>>

\* RetryRepositoryEntries and ForceRepositoryRefresh.
AskFor ==
    /\ Event
    /\ \E request \in UserRequests : Schedule(fill, request, TRUE)
    /\ UNCHANGED <<vault, gate, writer>>

\* RefreshStaleMetadataGrouping, after a committed change of the jobs and without the
\* vault's lock: some rows are no longer under the root the jobs give them, unless a
\* fill has just stored that root, and the generation moves.
ChangeJobs ==
    /\ Event
    /\ \E stale \in SUBSET {s \in Snapshots : header[s] # "absent"} : regrouped' = stale
    /\ reconciled # "never" /\ required' = required + 1
    /\ UNCHANGED <<native, applied, reconciled, header, headerFailure, entryCooling, gate,
                   queue, fill, writer>>

TenDays ==
    /\ reconciled = "fresh" /\ reconciled' = "stale"
    /\ UNCHANGED <<native, required, applied, header, regrouped, headerFailure, entryCooling,
                   gate, queue, fill, writer, events>>

CooldownEnds ==
    /\ entryCooling \/ headerFailure = "cooling"
    /\ entryCooling' = FALSE
    /\ headerFailure' = IF headerFailure = "cooling" THEN "due" ELSE headerFailure
    /\ UNCHANGED <<native, required, applied, reconciled, header, regrouped, gate, queue, fill,
                   writer, events>>

\* The function StartContext returns.
Stop ==
    /\ accept /\ Event
    /\ accept' = FALSE
    /\ UNCHANGED <<vault, gate, running, pending, active, stopper, doneOf, deferring, fill,
                   writer>>

\* A crash, or the start after an orderly stop: memory is lost. A command that
\* was at work has had its effect or has not: NativeBackup, NativeDeletion.
Restart ==
    /\ \/ ~accept /\ UNCHANGED events
       \/ accept /\ Event
    /\ claims' = {} /\ exclusive' = {} /\ leases' = {} /\ revoked' = {} /\ UNCHANGED shared
    /\ accept' = TRUE /\ running' = None /\ pending' = None /\ active' = None
    /\ stopper' = "none" /\ doneOf' = None /\ deferring' = {}
    /\ fill' = [g \in Fills |-> IdleFill]
    /\ writer' = [w \in Writers |-> IF At(w, "idle") THEN writer[w]
                                    ELSE [IdleWriter(writer[w].kind) EXCEPT !.pc = "done"]]
    /\ UNCHANGED <<native, required, applied, reconciled, header, regrouped, headerFailure,
                   entryCooling>>

Revoke(g) == Gate!Revoke(g) /\ UNCHANGED <<vault, queue, fill, writer, events>>

FillStep(g) ==
    \/ StartPass(g) \/ FinishQueued(g) \/ HandBack(g)
    \/ Admit(g) \/ NotAdmitted(g) \/ Interrupted(g) \/ List(g) \/ Rebuild(g) \/ Publish(g)
    \/ PublishHalf(g) \/ Index(g) \/ CompletePass(g) \/ PassFails(g) \/ EndPass(g)

WriterStep(w) ==
    \/ AskVault(w) \/ EnterVault(w) \/ NativeBackup(w) \/ NativeDeletion(w)
    \/ NotStarted(w) \/ Acknowledge(w) \/ ApplyDeletion(w) \/ Reconcile(w)
    \/ LeaveAfterUse(w) \/ Evaluate(w) \/ Resume(w) \/ Give(w)

Next ==
    \/ \E g \in Fills : FillStep(g) \/ Revoke(g)
    \/ \E w \in Writers : Defer(w) \/ GiveUp(w) \/ WriterStep(w)
    \/ Access \/ AskFor \/ ChangeJobs \/ CooldownEnds \/ TenDays \/ Stop \/ Restart

Spec == Init /\ [][Next]_vars

\* A goroutine runs on, a revoked lease is told so, a writer that has begun gets the
\* vault and finishes, time passes, a stopped application is started again, and a user
\* who finds the history incomplete keeps opening it: that is what repairs it.
Fairness ==
    /\ \A g \in Fills : WF_vars(FillStep(g)) /\ WF_vars(Revoke(g))
    /\ \A w \in Writers : WF_vars(~At(w, "idle") /\ WriterStep(w))
    /\ WF_vars(CooldownEnds) /\ WF_vars(TenDays) /\ WF_vars(~accept /\ Restart) /\ WF_vars(Access)
FairSpec == Spec /\ Fairness

-----------------------------------------------------------------------------
FillTypes ==
    [pc : InPass \cup {"idle", "queued", "top", "leavingQueue", "handing", "acquire",
                      "ended"},
     request : Requests \cup {None}, pass : Requests \cup {None}, cancel : SUBSET {"queue", "run"},
     work : SUBSET Snapshots, seen : SUBSET Snapshots, observed : Nat,
     rebuilding : BOOLEAN, faulty : BOOLEAN, yielded : BOOLEAN]

WriterTypes ==
    [kind : Kinds, pc : {"idle", "draining", "deferred", "asking", "native", "acknowledge", "apply",
           "reconcile", "unlocking", "evaluate", "resuming", "giving", "done"},
     generation : Nat, snapshot : Snapshots \cup {None}, drain : Fills \cup {None},
     give : Requests \cup {None}]

\* Types, and what the fields of the coordinator say together.
TypeOK ==
    /\ native \subseteq Snapshots /\ required \in Nat /\ applied \in 0..required
    /\ reconciled \in {"never", "fresh", "stale"}
    /\ header \in [Snapshots -> {"absent", "pending", "ready", "failed"}]
    /\ regrouped \subseteq Snapshots
    /\ headerFailure \in {"none", "cooling", "due"} /\ entryCooling \in BOOLEAN
    /\ accept \in BOOLEAN /\ running \in Fills \cup {None} /\ pending \in Requests \cup {None}
    /\ active \in Requests \cup {None} /\ stopper \in {"none", "queue", "run"}
    /\ doneOf \in Fills \cup {None} /\ deferring \subseteq Writers
    /\ fill \in [Fills -> FillTypes] /\ writer \in [Writers -> WriterTypes]
    /\ active = None <=> stopper = "none"
    /\ active # None => running # None

\* A cache that is shown as complete shows exactly the snapshots in the vault, those
\* of other computers apart, and each under the grouping root its job gives it now:
\* whatever failed, was cancelled or crashed between a change of the vault and the cache,
\* the generations tell (repositoryMetadataIndexState), and neither a fill that listed
\* before a change of the jobs nor a backup or deletion that reserved its own generation
\* before or after it hides that (RefreshStaleMetadataGrouping).
ReadersSeeTruth ==
    Complete => {s \in Snapshots : header[s] = "ready"} = native /\ regrouped = {}

\* A saved request always has somebody who will take it up: the fill that runs or the
\* writers it was deferred for. And a restore or deletion that got past the drain meets
\* no fill at work (DeferRepositorySyncForRestore).
NothingStranded ==
    /\ pending # None => deferring # {} \/ running # None
    /\ \A w \in deferring \ Backups : writer[w].pc \notin {"draining", "resuming"} =>
          \A g \in Fills : fill[g].pc \notin InPass \cup {"acquire"}

\* The cache becomes complete again and again, after failures, cancellations, crashes
\* and every change of the vault: no request is lost for good and none blocks another.
RepairedInTheEnd == []<>Complete
=============================================================================
