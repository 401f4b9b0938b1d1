# Replicaro in TLA+

Replicaro is a backup manager: a Go server (`src/code/backend`) drives Restic
and Kopia vaults on disks, network storage and Rclone remotes, keeps jobs,
schedules and history in SQLite, and serves a React interface. This directory
models the parts of the server where several goroutines, several computers, a
database that may refuse a write and a process that may die meet, and states
what those parts owe their users. Paths below are relative to
`src/code/backend`.

## Contents

| modules | what they are |
|---|---|
| `VaultGate`, `VaultLock`, `VaultLockProofs` | what the vault lock promises; package `vaultlock`, which implements it |
| `CatchUpPromise`, `CatchUp`, `CatchUpProofs` | what becomes of every occurrence of a schedule; scheduled admission and catch-up, which implement it |
| `BackupCoordinator`, `BackupCoordinatorProofs` | the coordinator of `runner/runner.go` with the cancel gate of `operationruntime` |
| `TrackedOperations`, `TrackedOperationsProofs` | recorded work that outlives its request, job and vault deletion, shutdown |
| `MetadataCache`, `MetadataCacheProofs` | the cache of a vault's snapshots and what defers its fills |
| `PasswordChange`, `PasswordChangeProofs` | changing a vault's password over four stores, with recovery |
| `VaultOwnership`, `VaultOwnershipProofs` | several computers on one vault: takeover, connection, publication |
| `KopiaPolicy`, `KopiaPolicyProofs` | the reconciler of Kopia policies and its fences |
| `MC...` | instances for TLC: symmetry, layouts of targets and operations |

A definition commented as a mutant is a plausible bug. It has the form of a
definition of the model and takes its place in a mutation run; no specification
uses one.

Check a module with `tlc -workers 2 -config X.cfg MCModule`, a proof with
`tlapm XProofs.tla`.

## The system

### Modelled

**Vault lock** (`vaultlock/lock.go`). State per vault: an RWMutex, a priority
counter, the registry of low-priority leases with their cancel functions. Every
component that touches a repository goes through it. Hard: the check of
`priority` and the registration of a lease are not one step; a goroutine inside
`Lock()` outlives the caller that stopped waiting. Correct when: one owner,
readers excluded, no lease missed by a claim, no leftover priority, nobody
starves.

**Scheduled admission and catch-up** (`database/availability.go`,
`scheduler/check.go`, parts of `database/jobs.go`, `operations.go`,
`migrations.go` and `runner/runner.go`). State: due time, last run and targets of
a job; per pair of job and vault a coalesced range of missed occurrences;
operation rows and their native step; admission groups and the restorations that
say how to put an occurrence back. Hard: the pass reads, probes for seconds
without a lock, then writes against whatever the job has become; each write may
fail for good; the process may die between any two; the clock may be set.
Correct when: no occurrence is lost or run twice, one live row per pair, the
tables always pass the checks of their own code, the application always starts.

**Backup coordinator** (`runner/runner.go`, `operationruntime/manager.go`).
State: the queue, the active operation of each target, vaults in use, reserved
and waited for, slots, admission and shutdown flags; the cancel gate of each
registered operation. Hard: the unlock function of a vault changes hands five
ways; a cancel gives the mutex up twice around a database write; admission gives
it up between check and publication; shutdown races all of them. Correct when:
each vault lock is released exactly once, slots and vaults match runs, nothing
runs that was cancelled, an accepted cancel holds, shutdown ends and leaves
nothing behind.

**Tracked operations** (`api/tracked_operation.go`, `tracked_workers.go`,
`vault_removal.go`, `scheduler/manager.go`, `main.go`). State: the rows, which
hold back each other's admission; vault locks; the definition gate of a job; the
cancel gate of an entry; the set of background workers. Hard: a cancel in flight
while the work becomes irrevocable; a last write that fails for good; deletions
that take several locks and wait for each other's rows; a stop that has to end
everybody without waiting for work that is not cancelled yet. Correct when:
nothing is deleted in use, an accepted cancel holds, an unfinished row has an
owner, the database closes behind everyone.

**Metadata cache** (`metadata/cache.go`, `database/metadata_cache.go`,
`metadata_rebuild.go`). State: one running fill, one pending request, the
writers that defer it, the generations that say how far the cache is behind,
rows and cooldowns. Hard: two parties that may both resume a deferred request; a
cancel that ends the wrong one; a change of the vault whose acknowledgement is
lost. Correct when: what is shown as complete is complete, no request is lost,
no writer meets a fill.

**Password change** (`runner/password_change.go`, `password_change_recovery.go`,
`vaultprofile/password_rotation*.go`, `database/password_change.go`). State: the
database row, the staged copy with its recovery record, the protected metadata
with its fences, the native repository. Hard: no transaction spans them and the
native command makes two writes; recovery knows the phase, the record and which
password opens the vault. Correct when: a password the application knows always
opens the vault, other computers are kept out of anything half done, and the
change ends.

**Ownership and connection** (`api/vault_ownership.go`,
`repository_recovery.go`, `repository_connection.go`, `vaultprofile/store.go`).
State: on the storage the protected root, one profile per computer and pending
uploads; Kopia's maintenance owner; on each computer a saved vault, a takeover
and a connection to resume. Hard: computers share nothing but storage without
transactions, each request is made of a dozen steps and may be cut between any
two, also for ever. Correct when: roots are never overwritten out of order,
maintenance runs where the owner's profile is, what was begun can be ended.

**Kopia policy** (`kopiapolicy/reconciler.go`, `database/kopia_policy.go`).
State: the row with the desired digest, its state and a fence; a queue, a worker,
retry timers. Hard: timers of an earlier failure, a native process that outlives
its call or the application, edits at any moment, a readiness that is read and
used. Correct when: ready means that the vault has the policy, one process
writes at a time, and a policy that is not ready is not forgotten.

### How the parts interact

```
 HTTP API ---start, cancel--->  backup coordinator ---takes---> vault lock
     |                            |        ^                     ^   ^
     | tracked operations         | writes | activates           |   | lease
     v                            v        |                     |   |
 operation runtime           database  <--- scheduler pass       | metadata cache
 (gates, workers)             rows     <--- Kopia reconciler ----+
     |                                 <--- password change -----+
     +-- ownership, connection --> storage shared with other computers
```

`VaultGate` is the interface: `VaultLock` implements it, `MetadataCache` uses it
through an instance, and the other modules know a vault's lock by its holder,
which is what the gate promises. `CatchUp` has the database side of a backup with
every failure and crash and knows the coordinator as "queued", "running" and
"gave up"; `BackupCoordinator` has the memory side with the writes as steps that
may fail. `TrackedOperations` knows a backup by its row and its definition gate.
Each is checked against the freest behaviour of the others: every outcome a run
can have, every moment a vault may be granted. Products of them would be far out
of TLC's reach.

### Not modelled, or not yet

| component | what it is | why not here |
|---|---|---|
| recovery profile (`profilesync`, `vaultprofile`) | publication of this computer's jobs and settings, with revisions | planned, see Plan |
| vault reconnect | one conditional row per vault and failure clocks | with the recovery profile |
| relocation | one sequential workflow under the vault lock, not resumed after a crash | its effects are on native storage |
| vault statistics, repository admission, storage availability | measured size; checks of identity; probes | their concurrency is the vault lock; the rest observes the outside |
| engines, command | processes, output, classes of errors | operating system behaviour; an outcome is a choice in the models |
| HTTP API, operation log, notifications, identity, desktop, frontend, build, data types | requests, files, rendering, platform code | formatting and I/O; the state they change is that of the components above |

The notes of `PROJECT.json` say for each modelled component which of its parts
are left out.

## VaultLock

One action is what runs between two acquisitions of `mu`, one RWMutex call or
one read of a context. `pc` places each caller: claimants
`idle-pausing-polling-trying-(waiting-checking)-won/lost-holding`, low-priority
readers `idle-polling-trying-admitting-leased-unlocking-unregistering` with
`declining` for a lost recheck. `locker[w]` is the goroutine `w` started inside
`Lock()`; `snap[c]` the leases a claim read under `mu` and still has to cancel.
The RWMutex has the standard library's semantics: a writer that announced itself
keeps new readers out, an unlock admits every parked reader. Triers do not
announce (`TryLock`). The mapping to `VaultGate` sees access when the call
returns, which is the view a caller has.

`vaultlock`: a waiter, a trier, two leases, a reader (408,488 states). Two
leases are the smallest case where one is cancelled while another is being
admitted. `FairSpec` asks only that the package's own steps run and that a
cancelled lease is returned; that the attempt returns and a lease is admitted
holds under that alone. What the waiter needs, holders that end their work and a
starving mutex that hands itself over, is the antecedent of `WaiterReturns`.

Proved, for any sets of callers (the claimants finite): `TypeCorrect` (the
priority count is never negative), `LockIsOwned`, `ReadersExcluded`,
`PriorityIsExact`, `EveryLeaseTold`, the action property `LeasesAndClaims` and
`GateImplemented` (`Spec => Gate!Spec`). `IInv` adds four facts. `OneAnnounced`:
at most one goroutine has announced itself. `TryWithoutLocker`: a call that has
not tried yet has no goroutine left from an earlier one. `LowHolds`: where a
reader holds its read lock and where its registration; why a drained registry
means released read locks. `ClaimCovers`: during `pauseReaders` a working lease
is either cancelled or in the snapshot, which is `ClaimReachesEveryLease` made
true before the end of the loop. That a claim starts covered needs a cardinality
argument (`NoPriorityNoClaim`): zero means no claim at all.

## CatchUp

`db` is the SQLite file: functions on it (`PutBack`, `Consume`, `Reconcile`,
`Escalate`, `Migrate`, ...) are the functions of `availability.go` and
`migrations.go` from tables to tables, and each action commits one of them or
fails for good and uses one of `Faults`. `tick` is a pass of the scheduler
between its reads and its write; `phase[o]` is how far this process got with an
operation; `launched` is history, the native backups that really started.
`Restart` drops memory at any point and runs `Migrate`. A finished row whose
occurrence is decided is `Free` again, so that two identifiers serve any number
of runs.

- `catchup_safety`: two vaults, one failing write, one disturbance (restart, edit
  of schedule, targets or enablement, manual start, clock set back), at most one
  occurrence outstanding per vault (471,529 states up to symmetry).
- `catchup_history`: one vault with up to three, a clock of three periods and a
  notice after two, so that ranges merge in both orders (210,183 states).
  `Fairness`: the scheduler ticks each minute and takes every pending pair; from
  time to time storage is found available at the moment a pass asks, however
  often it was away between (strong fairness of the pass and of an admission); a
  run goes on to its end. Users, faults and restarts owe nothing. A disabled job
  keeps its occurrences without running them, so `PendingAdmitted` speaks of a job
  that stays enabled.

Bounds: `Interval` 1 and `MaxTime` 2 or 3 give a regular occurrence, one that is
missed, and one after the notice is due; `MaxGroups` bounds generations alive
together; `MaxMissed` stops occurrences coming due, not anything else. Left out:
the availability columns shown in the interface, the removal form of "busy", and
the five-minute pacing of rechecks (a pass may take any subset of the pending
pairs, which covers it). One job: jobs share no row. `InterruptAll` is the
transaction of a shutdown in closed form: the code goes through the rows one by one,
but no two live rows share a pair (`OneRunPerPair`), so each merges into a range of
its own, and a reconciliation that cuts the groups runs only when no occurrence is
left to hold them. TLC found the closed form and the loop equal in every state of
both runs.

Proved, for any vaults, operations, clock and periods, and any number of failed
writes, edits and restarts: `TypeCorrect`, `NeverAnExtraRun`, `BookkeepingNeverRefuses`
and `PromiseKept` (`Spec => Promise!Spec`, the refinement). Three observations carry
it. Each bookkeeping function takes `Sound` tables to `Sound` tables: besides the
checks of the code itself, no vault has two live rows (`OneLive`), a queued row has
not used its occurrence up (`QueuedRows`), what nothing is scheduled for holds nothing
(`NothingBehind`), a manual job has no next run, which lets a stale request be
recognised, and generations are bounded, so that a newest group exists. Memory and
tables agree on every operation (`PhaseRows`), and a backup that was launched is in
the database as started (`LaunchedRuns`): this is the order of the two writes in
`StartNative` and `Launch`, and why `Migrate`, which knows the rows only, never gives
back what has run. With `Shapes` these are `IInv`. Each action then has one of
seven `Outcome`s for the occurrences of the job (rows return theirs, a run ends, is
the notice, or is launched, pairs are admitted, the owner clears, the process starts
again), and each outcome moves every vault as `CatchUpPromise` allows.

## BackupCoordinator

One action is a critical section of `c.mu`, a transaction, or a lock call.
`admit`/`batch` is the holder of `admitMu`: `AdmitRows` inserts, `AdmitCheck` is
`activatePersistedLocked` up to where it gives the mutex up, `AdmitPublish` the
rest, `AdmitRefuse` the take-back of a refused batch. `reserver[v]` is the
goroutine of `reserveVault`; `waiting`, `ready` and `vaultActive` are the maps of
the same names. `stage[o]` follows `run`: activating, restoring, executing,
persisting, unlocking, freeing the slot, removing the runtime entry.
Inside executing, an executor may launch a child (`child`), be `between` two, and
launch a `followup`: engines and scripts, two being enough to tell the child a
cancel ends from the one it forbids. `ended` are the tasks whose own context was
cancelled, and `taskErr[o]` is what `run` finds there when the executor returns, once
and for all. `cancelStage[o]` follows `cancelTask`, `entry[o]` is the gate of
`operationruntime`, which closes at the latest before the last status is written.
Shutdown closes the queue, takes the reservations, waits for the dispatcher, the
finalizer of queued rows and the runs.

- `backup_order`: two jobs, two of three operations on one vault, limits 1 and 2
  changing, a cancel, a shutdown, no failing write (221,560 states); the executor of
  one operation gets as far as its children. `Fairness`: strong for the dispatcher,
  which every change and a 250 ms ticker wake, and for each vault's reservation,
  since `AcquireExclusiveContext` does not starve (`WaiterReturns`); weak for code
  that runs on; other users of a vault give it back. Users owe no cancel and nobody
  owes a shutdown. `QueueDrains` says that the queue is empty again and again: an
  operation is admitted once and never comes back, so each one leaves. Safety was
  also checked with cancels of two operations and another user of a vault
  (1,790,356 states).
- `backup_failures`: a job with two vaults and a second operation of the first
  target, limit 1, every write may fail, repeated cancels, a vault others use too
  (2,719,720 states). An admission that meets its own target still giving up a slot
  is refused as a whole.

What an accepted cancel promises has two sides, both in `AcceptedCancelHolds`. Once it
is accepted, an operation it found waiting never runs, and one that runs launches no
further child and is known to be cancelled when its executor returns (`StaysStopped`).
Whoever stops an operation later than that changes nothing: a row turns interrupted
only where the stop came first (`StoppedInTime`), so that a cancel accepted during the
bookkeeping leaves a success a success, as `run` intends.

`CancelTargets`, `SharedVaults` and `Limits` only bound what users do, `Launching`
which executors get as far as a child. A cancel may overlap shutdown although
`main.go` drains HTTP first: the model allows more than the program does. A crash ends the story here; what the next start makes of
the rows is `CatchUp`.

Proved, for any finite set of operations, any targets, limits, shared vaults and
cancels, with and without failing writes: `TypeCorrect`, `OneOwnerAlways`,
`SlotsFollowRuns`, `RowsAreAnsweredFor`, the action properties `AdmissionOrderKept`
and `AcceptedCancelsHold`, and, where the database accepts its writes,
`NoReservationStranded` (with failing writes it is false, see below). No single
property is inductive, because every hand-over of a vault, a slot or an entry
relies on what the giver knows. `IInv` therefore says for every place an
operation can be in what its row, its slot, its vault and its runtime entry are
(`PendingKnown`, `QueuedKnown`, `CancelsKnown`, `RowsKnown`), and for every vault
who holds it (`SlotsKnown`, `TargetsKnown`, `HoldersKnown`) and for whom it is
wanted (`DemandKnown`). Lemmas on what leaving, joining and batching do to a
sequence without repetitions carry the queue.

## TrackedOperations

`pc[o]` follows the request (`using` the definition gate, claiming a row), then
the worker: `gate`, `hold`, `poll` for idle work, `lock` for one vault after the
other in the order of their IDs, `commit` or `cancelled`, the work of its kind,
the last write and `forget`. `Served` is what the runtime guarantees: gates and
locks are granted in turn. Kinds: restore and check, whose command can be
cancelled; deletions of data and settings, which cannot once they started;
deletion of a job and of a vault; the scheduler's tasks; backups as far as they
meet these.

- `tracked_deletions`: two jobs that share two Kopia vaults, both deleted, one
  vault removed, a backup into it, a cancel that races the start (86,406 states).
  Two deletions that lock the same two vaults are the smallest case where they
  could wait for each other; `FairSpec` lets every native command end.
- `tracked_shutdown`: a manual check, a scheduled check, a settings save and a
  foreground request in one vault while the application is quit, one last status
  that cannot be saved (213,386 states). `SlowSpec` lets a native command run for
  ever unless its context ends.

Proved, for any operations, vaults, jobs, requests, failing last writes and
cancels, with and without a quit: `TypeCorrect`, `UnfinishedOwned`,
`CleanupAlone`, the action property `UsedIsKept`, `CancelledNeverStarts`, and under
`OneDeletionPerJob` `AcceptedCancelsHold`. `IInv` ties a worker's place to its row,
its gate, its locks and what it has still to lock (`RowsKnown`, `KindsKnown`,
`GatesKnown`, `LocksKnown`, `CancelsKnown`), and the stages of shutdown to who may
still be there (`StopKnown`). The hypothesis of the last theorem is needed: two
deletions of one job refute it (see below).

## MetadataCache

`fill[g]` is a goroutine of the coordinator, from `queued` to the last publication
of a pass; `writer[w]` a backup, a deletion (or a restore, which defers in the same
way) or a check, chosen in `Init`. `required` and `applied` are the two generations,
`header` the rows of the snapshots, `regrouped` those whose grouping root a change of
the jobs has made stale. `ChangeJobs` is that change: `RefreshStaleMetadataGrouping`
reserves a generation without the vault's lock, so that a publication, a rebuild or the
end of a pass may find that the generation has moved. A fill that is `rebuilding` stays
one until its goroutine has left the pass, so requests join it until then. The vault's
lock is an instance of `VaultGate`. One vault; the two slots for fills come when they come.

`metadata_cache` starts from two kinds of states (589,949 states in all): a backup
beside another use of the vault, with one event, and a backup alone, over a vault that
may hold a snapshot the cache has never seen, with two, so that a change of the jobs
meets a retry, a failure, a crash or a second change. An event is a failing step,
buckets that are too small, a last step before a stop or crash, a request, or a change
of the jobs.

`RepairedInTheEnd` assumes that a user keeps opening the history (`Access`), that
cooldowns and the ten days of `cache.go:299` pass, and that a stopped application is
started again: a lost reconciliation is repaired by nothing else (see below). Left out:
a refresh of grouping that fails or is cut off, which the code calls best effort
(`database/metadata_grouping.go:105`) and after which stale grouping may be shown; the
generation that a reconnection (`database/recovery.go:1002`) and an upgrade
(`database/metadata_grouping.go:234`) reserve. A native command ends with the
application here; `PasswordChange` and `KopiaPolicy`, where the
code has an answer to one that does not, let it survive.

Proved, for any writers, snapshots and goroutines and any number of failures,
stops, crashes and changes of the jobs: `TypeCorrect`, `ReadersTrust` (which
includes that stale grouping is never shown as complete), `RequestsTakenUp` and
`ChangesAreAnnounced` (a command that changes the vault runs alone and only once
the cache already says that it is behind). The invariant says what the rows are
worth at each distance of the generations (`RowsKnown`): up to date they name the
vault's snapshots, with only the change in progress missing those before it, and
in a pass those of its listing; and that a change holding the vault has reserved a
generation that the cache has not reached (`GenerationsKnown`). `RequestsKnown`,
`RunKnown`, `GateKnown` and `DeferringKnown` are the coordinator's side.

## PasswordChange

`phase` and `status` are the row, `folder`, `staged` and `record` the stage folder,
`tree` the metadata with a password and a fence per object, `writes` how many of the
native command's two writes are made; `orphan` is a command that outlived the
application, be it the change itself or the fenced removal of a key (`Removing`). `pc`
is the goroutine that prepares, runs, recovers or rolls back.

`password_change`: both engines (chosen in `Init`), two profiles, two reruns, two
changes, three failures, three crashes or quits (206,924 states). `Fairness`: the
goroutine runs on, a command ends, the application is started again, and the user
retries what a start left unfinished; without that last the code does nothing
either. `RemovalKeepsLock` is FALSE: what `restic key remove` leaves behind when it
is cut off is outside the source, and with TRUE `ChangeEnds` fails. Removing the row and writing the operation's outcome are two steps (`Settle`); the
latter, whose failure the code only logs, is taken to succeed.

Proved, for any finite set of profiles and any bounds, whatever the removal leaves:
`TypeCorrect`, `NobodyLockedOut`, `HalfDoneStaysGuarded`. `IInv` says what each durable
phase promises about the other three stores: in which phases the tree is old, mixed
or new and who is fenced (`TreeKnown`, `ProgressKnown`), what the native repository
opens with (`NativeKnown`, with `Untouched` and `Committed`), which passwords are
saved (`PasswordsKnown`), and that a rollback which has begun means the command never
reached the vault (`RollbackKnown`). A half-written Kopia repository exists only in
`native_started` with the record saved, which is why its way back is there.

## VaultOwnership

One action is one step of a request: an object read, checked or published, a row
written, a native command. `rec[c]` and `intent[c]` are the rows from which a
takeover and a connection resume, `pub[c]` a publication of the root in progress
(`put`, `copy`, `readback`), `view[c]` the root the request read last. A request may
be cut between any two steps, the user resumes, cancels or removes the vault.

`owner_transfer`: two members and a third computer on a Kopia vault, two takeovers,
connections or care edits, two cuts, a removal (106,800 states). Safety was also
checked with three requests (1,007,740 states; the second invariant of the proof
with 3.6 million). `FairSpec`: a request runs on, and a user who is offered to finish
does so. The last check of a publication and its copy are one step, as are a native
command and the admission right before it: the code accepts that race. A profile is
its attachment; its contents, policy realignment, the additional root checks of
sign-in connectors and a reconnection of the owner that changes the schedules too
(it publishes as a care edit does) are left out; each computer creates one profile.

Proved, for any computers, requests, cuts and removals: `TypeCorrect`,
`RootOrdered` (the action property `RootMovesInOrder`) and `NativeFollows`. `IInv`
says what is known of a root that was read several steps ago at the place where
it is used (`PublicationSound`, `TakeoverSound`, `SeenSound`, `IntentSound`,
`ConnectSound`). `NativeFollows` needs a second invariant, `NInv`. The profile that is
the owner's, or will be with the next write of the root (`Needed`), has the native
owner for its holder, or a connection that took it and has not come to the native
owner yet (`Awaits`): `NativeKnown`. What could break it is a connection that took
the profile when it was not the owner's, because that one only verifies the native
owner it saved; `RefusesKnown` says that it is refused, since the owner it saved is
neither itself nor whom it took the profile from, and a computer holds one profile
at most (`HoldersKnown`). Generations keep a reviewed profile from ever coming back
(`ReviewKnown`); requests carry the name of their computer, so that a marker on the
root belongs to one of them (`Named`, `AlignedKnown`, `WritesKnown`, `ViewKnown`).

## KopiaPolicy

`row` is `kopia_policy_state`, `native` the policy in the vault with `unseen` for a
change made by somebody else since the last look, `child[f]` a native process that
holds fence `f` after its call returned or the application died. `pass` is
`reconcileRepositoryUnderLock`, `worker` the goroutine of a queued vault, `retry` and
`due` the timers. `Budget` bounds all hazards together: edits, failing commands,
fences and statements, foreign changes, stops.

- `kopia_policy`: worker, maintenance, backups, deletion; two hazards; processes may
  outlive a crash (994,016 states up to symmetry).
- `kopia_retry`: without maintenance, three hazards, processes may outlive their call
  too (391,886 states). Passes, the worker, timers and signals are weakly fair, the
  lock strongly (`VaultLock`). No user, backup or surviving process owes anything.

One vault. `applied_digest` is left out, being the desired one exactly when the row
is ready; so are a missing row, delays, the reconnect clock, the list of stuck
policies, adoption of care and the contents of policies. Closing a fence, and reading
the row again after maintenance, are taken not to fail. A job deletion's native
process dies with the application.

Proved, for any digests, fences, timers and number of hazards: `TypeCorrect`
unconditionally, `OneWriterAtATime` and `ReadyIsTrue` if no process outlives the
return of its call (it may outlive the application). The fact they rest on is
stated nowhere in the code: every process still alive holds the fence the row
names (`FInv`), so that a pass which finds it free meets nobody.

## What the code does not do

Each of these is a behaviour of the models that follows the code and that a
comment, or a reader, would not expect. None is a run; the edit that shows it is
given.

1. A stranded reservation (`runner/runner.go:809`). A cancel whose database write
   fails leaves the task quarantined and returns. If the vault was reserved just
   before, the reservation stays with no task that can use it until the cancel is
   repeated, another backup of the vault is admitted, or the application stops. The
   comment at `runner.go:655` names that hazard for another path.
   `WriteFailures = TRUE` in `BackupOrder.cfg`: `NoStrandedReservation` fails.
2. A marker nobody may remove (`database/repositories.go:435`). The computer whose
   takeover is marked on the root removes the vault; its record goes with it, and
   every other computer is refused: `vault_ownership.go:58`, "another computer started
   that takeover and only it can finish it". `MarkerHasFinisher` in place of
   `NativeFollowsRoot` in `VaultOwnership.cfg` fails.
3. A second writer of policies (`database/kopia_policy.go:464`). A finished pass
   clears the fence though the process of one of its commands may still run.
   `Outlive = {"return"}` in `KopiaPolicy.cfg`: `OneWriter` fails, and
   `kopia_policy.go:21` says it should hold.
4. A policy with no retry (`kopiapolicy/reconciler.go:535`). The worker reads the
   row without the vault's lock and forgets the retry a step later; maintenance may
   have recorded an error and armed one in between. `"maintenance"` among the
   `Users` of `KopiaRetry.cfg`: `ReadyInTheEnd` fails, against
   `reconciler.go:231`.
5. Two deletions of one job (`api/tracked_workers.go:576`). The second, queued while
   the first removes the job, was cancelled and the cancel accepted; it then fails to
   read the job and ends "failed", not "interrupted". Give `d1` and `d2` the same job
   in `MCTrackedOperations`: `AcceptedCancelHolds` fails. Hence the hypothesis
   `OneDeletionPerJob`.

Read while modelling, without a property that would show it:

- The single attempt of `vaultlock/lock.go:107` reports busy also when a
  low-priority reader stands between its `TryRLock` and its recheck, where no drain
  knows it; the comment says only for ordinary contention.
- A reconciliation that a deletion or restore hands back can be lost
  (`metadata/cache.go:718`, against the comment at `:262`); the ten-day rule repairs it.
- A connection that was begun and whose profile or root has moved on can be neither
  finished nor cancelled (`repository_connection.go:385`,
  `repository_recovery.go:3532`).
- A takeover at `root_published` reports success after another computer has taken the
  vault again; one whose root moved on is never marked failed and blocks later
  takeovers and password changes there.
- `runner/runner.go:1277` says the slot is kept until the last status is durable.
  `operationruntime.RetryWrite` ends after six attempts and the slot is given back.
- A pass of maintenance that resets an error with a fence to dirty and cannot make a
  new fence, and a `Finish...` or `Mark...` write that the database refuses, leave a
  policy dirty or applying with no retry until the next edit, maintenance or start.
- A creating publication that finds an invalid object at its place is refused for
  ever (`vaultprofile/store.go:1210`).
- The removal of the replaced Restic key may be cut off and leave its own lock
  (`runner/password_change_recovery.go:622`), which neither Retry nor a start removes
  in that phase: `RemovalKeepsLock = TRUE`.

## What is only model-checked

Liveness under fairness and `ENABLED` are beyond the prover, so `CallsReturn`,
`PendingAdmitted`, `QueueDrains`, `WorkersEnd`, `ShutdownEnds`, `RepairedInTheEnd`,
`ChangeEnds`, `StartedEnds` and `ReadyInTheEnd` stay with TLC. Every safety property
that a run checks, and both refinements, are theorems.

The proofs assume of the constants only what the modules state in their ASSUMEs
(which TLC evaluates in the runs) and the hypotheses named in the theorems. They
do not use the bounds: any number of faults, crashes, cuts, requests and users.

## Plan

1. `ProfileSync`: row revisions and their mark, prepare and complete
   (`profilesync/sync.go`, `database/profile_sync.go`), publication
   (`vaultprofile/store.go`), the takeover by another computer, the reconnect row
   (`database/vault_reconnect.go`). Properties: no pending row means that the readable
   profile is the local definitions; each change of the readable profile builds on the
   one before; the reconnect row is current; a sync ends.
2. In `VaultOwnership` the previous generation of each object and profile contents.
