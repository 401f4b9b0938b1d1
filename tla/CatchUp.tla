------------------------------- MODULE CatchUp -------------------------------
(***************************************************************************)
(* Scheduled admission and catch-up of one backup job with several vaults: *)
(* the tables of database/availability.go, the scheduler pass that feeds   *)
(* them (scheduler/check.go), the part of a run that decides what becomes  *)
(* of its occurrence (runner/runner.go), and the repair at startup         *)
(* (database/migrations.go).                                               *)
(*                                                                         *)
(* db is what SQLite holds; tick, phase and failing are memory and are     *)
(* lost by a restart; launched is history: the native backups that really  *)
(* started.  Every action is one committed transaction, or one that failed *)
(* for good after its retries, which uses up one of Faults.                *)
(***************************************************************************)
EXTENDS Naturals, FiniteSets, FiniteSetsExt, Functions

CONSTANTS
    Vaults,         \* the vaults the job may target
    Ops,            \* operation ids; an id is free again once nothing refers to it
    Interval,       \* the period of the schedule
    Margin,         \* how much further ahead than Interval a next run may lie
    IssueAfter,     \* UnavailableIssueAfter
    MaxTime,        \* bound: the clock stays in 1..MaxTime
    MaxMissed,      \* bound: occurrences outstanding per vault
    MaxGroups,      \* bound: generations of the admission groups alive together
    Faults,         \* bound: database writes that fail for good
    Disturbances    \* bound: restarts, manual starts, edits of the job, and times
                    \*        the clock is set back

ASSUME TimesPositive ==
    /\ Interval \in Nat \ {0}
    /\ IssueAfter \in Nat \ {0}
    /\ MaxTime \in Nat \ {0}
    /\ Margin \in Nat

ASSUME BudgetsNatural == Faults \in Nat /\ Disturbances \in Nat

VARIABLES
    now,        \* the wall clock
    db,         \* the tables; see TypeOK
    tick,       \* the pass under way: the due time it read, and the vaults it probes
    phase,      \* phase[o]: how far this process has come with operation o
    failing,    \* operations admitted with a conclusive failure or a 30-day notice
    launched,   \* history: operations whose native backup started
    faults, disturbances    \* what is left of the two bounds

vars == <<now, db, tick, phase, failing, launched, faults, disturbances>>

NoTime == 0
NoPending == [count |-> 0, first |-> NoTime, last |-> NoTime]
Idle == [due |-> NoTime, sel |-> {}]

(* An operation row with its steps and its scheduled_operation_restorations *)
(* row.  rest is "none" without one; native is the durable native backup    *)
(* step while the row is running; a finished row with no restoration is     *)
(* only history and becomes Free.                                           *)
Free == [vault |-> "none", status |-> "none", native |-> "none", rest |-> "none",
         gen |-> 0, due |-> NoPending]

Active == {"queued", "running"}
StepDurable == {"running", "finished"}

\* The live rows of the pair.
ActiveOps(d, v) == {o \in Ops : d.ops[o].vault = v /\ d.ops[o].status \in Active}
EligibleOps(d) == {o \in Ops : d.ops[o].rest = "eligible"}
Rows(d, g) == {o \in Ops : d.ops[o].rest # "none" /\ d.ops[o].gen = g.gen}

\* The pairs of S that have pending work and no live row.
MutBusyPairsToo(d, S) == {v \in S : d.pend[v].count > 0}
IdlePairs(d, S) == {v \in S : d.pend[v].count > 0 /\ ActiveOps(d, v) = {}}

RangeOK(p) == p.count > 0 /\ p.first # NoTime /\ p.first <= p.last
Overdue(p) == now >= p.first + IssueAfter

----------------------------------------------------------------------------
(* The bookkeeping functions, as functions from tables to tables.           *)

\* A finished row that no restoration holds is forgotten.
Forget(d) ==
    [d EXCEPT !.ops = [o \in Ops |->
        IF @[o].rest = "none" /\ @[o].status \notin Active THEN Free ELSE @[o]]]

\* ON DELETE CASCADE from groups to restorations.
Cascade(d) ==
    Forget([d EXCEPT !.ops = [o \in Ops |->
        IF @[o].rest # "none" /\ \A g \in d.groups : g.gen # @[o].gen
        THEN [@[o] EXCEPT !.rest = "none", !.gen = 0, !.due = NoPending] ELSE @[o]]])

MutDropUnstartedGroups(d) == [d EXCEPT !.groups = {g \in @ : g.started}]
DropEmptyGroups(d) ==
    [d EXCEPT !.groups = {g \in @ : g.started \/ Rows(d, g) # {}}]

GroupsSound(d) == \A g \in d.groups : g.started \/ Rows(d, g) # {}

Newest(G) == CHOOSE g \in G : \A h \in G : h.gen <= g.gen
Oldest(G) == CHOOSE g \in G : \A h \in G : g.gen <= h.gen

Reconcile(d) ==
    LET live == {g \in d.groups : Rows(d, g) \cap EligibleOps(d) # {}}
        ran == {g \in d.groups : g.started}
        lastRun == IF live \cup ran = {} THEN Oldest(d.groups).prev
                   ELSE Newest(live \cup ran).admittedAt
    IN  CASE d.groups = {} -> d
          [] d.groups # {} /\ live # {} -> [d EXCEPT !.lastRun = lastRun]
          [] OTHER -> Cascade([d EXCEPT !.lastRun = lastRun, !.groups = {}])

Merge(p, q) ==
    [count |-> p.count + q.count,
     first |-> IF p.count = 0 THEN q.first ELSE Min({p.first, q.first}),
     last |-> Max({p.last, q.last})]

\* Both ranges parse and the groups pass the check of the reconciliation.
MayPutBack(d, o) ==
    /\ d.ops[o].rest = "eligible" /\ RangeOK(d.ops[o].due)
    /\ d.pend[d.ops[o].vault] = NoPending \/ RangeOK(d.pend[d.ops[o].vault])
    /\ GroupsSound(d)

\* The occurrence of o goes back to its pair.
PutBack(d, o) ==
    Reconcile([d EXCEPT !.pend[d.ops[o].vault] = Merge(@, d.ops[o].due),
                        !.ops[o].rest = "restored"])

\* ConsumeScheduledBackupOccurrence
Consume(d, o) ==
    IF d.ops[o].rest # "eligible" THEN d
    ELSE Reconcile([d EXCEPT
            !.ops[o].rest = "started",
            !.groups = {IF g.gen = d.ops[o].gen THEN [g EXCEPT !.started = TRUE] ELSE g : g \in @}])

\* ConsumeOverdueUnavailableOccurrence, when it escalates
Escalates(d, o) == d.ops[o].rest = "eligible" /\ d.enabled /\ Overdue(d.ops[o].due)
Escalate(d, o) == Consume([d EXCEPT !.pend[d.ops[o].vault] = NoPending], o)

\* RestorePreNativeUnavailable and RestorePreNativeSourceUnavailable
RestoreUnavailable(d, o) == IF d.ops[o].rest = "eligible" THEN PutBack(d, o) ELSE d

\* restoreQueuedBackupOperationTx: it refuses what it cannot prove unstarted.
MayInterrupt(d, o) ==
    /\ \/ d.ops[o].status = "queued"
       \/ d.ops[o].status = "running" /\ d.ops[o].native \notin StepDurable
    /\ d.ops[o].rest = "none" \/ MayPutBack(d, o)

(* InterruptQueuedBackupOperations: all of S in one transaction.  The code   *)
(* goes through S row by row; the pair of a row has no other live row, so    *)
(* the order does not matter, and each reconciliation but the last is undone *)
(* by the next.                                                              *)
InterruptAll(d, S) ==
    LET back == S \cap EligibleOps(d)
        given(v) == {o \in back : d.ops[o].vault = v}
        stopped == Forget([d EXCEPT
            !.ops = [o \in Ops |->
                IF o \notin S THEN d.ops[o]
                ELSE [d.ops[o] EXCEPT !.status = "interrupted", !.native = "none",
                                      !.rest = IF o \in back THEN "restored" ELSE @]],
            !.pend = [v \in Vaults |->
                IF given(v) = {} THEN @[v]
                ELSE Merge(@[v], d.ops[CHOOSE o \in given(v) : TRUE].due)]])
    IN  IF back = {} THEN stopped ELSE Reconcile(stopped)

RestoreQueued(d, o) == InterruptAll(d, {o})

----------------------------------------------------------------------------
(* Startup: Migrate puts back what never started, consumes what did.        *)

Unstarted(d) ==
    {o \in Ops : \/ d.ops[o].status = "queued"
                 \/ /\ d.ops[o].status = "running"
                    /\ d.ops[o].rest = "eligible"
                    /\ d.ops[o].native \notin StepDurable}

ConsumeStarted(d) ==
    LET hit == {o \in EligibleOps(d) : d.ops[o].status = "running"
                                       /\ d.ops[o].native \in StepDurable}
        e == [d EXCEPT !.ops = [o \in Ops |->
                IF o \in hit THEN [@[o] EXCEPT !.rest = "started"] ELSE @[o]]]
    IN  [e EXCEPT !.groups = {[g EXCEPT !.started = @ \/ \E o \in Rows(e, g) : e.ops[o].rest = "started"]
                                : g \in e.groups}]

InterruptRunning(d) ==
    Forget([d EXCEPT !.ops = [o \in Ops |->
        IF @[o].status = "running" THEN [@[o] EXCEPT !.status = "interrupted", !.native = "none"]
        ELSE @[o]]])

\* What must hold of the tables for Migrate to commit.
MigrateAccepts(d) ==
    LET e == DropEmptyGroups(d)
    IN  /\ \A o \in Unstarted(e) : MayInterrupt(e, o)
        /\ GroupsSound(ConsumeStarted(InterruptAll(e, Unstarted(e))))

Migrate(d) ==
    LET e == DropEmptyGroups(d)
    IN  InterruptRunning(Reconcile(ConsumeStarted(InterruptAll(e, Unstarted(e)))))

----------------------------------------------------------------------------
(* Schedule arithmetic.                                                     *)

\* The first occurrence after the clock among due + Interval, due + 2 * Interval, ...
AdvanceAfter(due) ==
    IF due + Interval > now THEN due + Interval
    ELSE due + Interval * ((now - due) \div Interval + 1)

BeyondSchedule(next) == next > now + Interval + Margin

MutKeepFirst(p, due) ==
    [count |-> p.count + 1, first |-> IF p.count = 0 THEN due ELSE p.first, last |-> due]

\* markPairMissed
MarkMissed(p, due) ==
    [count |-> p.count + 1,
     first |-> IF p.count = 0 THEN due ELSE Min({p.first, due}),
     last |-> due]

----------------------------------------------------------------------------
\* A job created one interval ago, whose first occurrence is due.
Init ==
    /\ now = 1
    /\ db = [enabled |-> TRUE, manual |-> FALSE, targets |-> Vaults, nextRun |-> 1,
             lastRun |-> NoTime, pend |-> [v \in Vaults |-> NoPending],
             ops |-> [o \in Ops |-> Free], groups |-> {}]
    /\ tick = Idle
    /\ phase = [o \in Ops |-> "none"]
    /\ failing = {} /\ launched = {}
    /\ faults = Faults /\ disturbances = Disturbances

InPhase(p) == {o \in Ops : phase[o] \in p}
AdmissionOpen == InPhase({"admitted"}) = {}

Write(d) == db' = d
Fault == faults > 0 /\ faults' = faults - 1
NoFault == UNCHANGED faults
Disturb == disturbances > 0 /\ disturbances' = disturbances - 1

(* History is kept only for rows whose occurrence is still undecided.       *)
Undecided(d, S) == {o \in S : d.ops[o].rest = "eligible" /\ d.ops[o].status \in Active}

\* Operations leave this process: they are finished, or their owner gave up.
Release(S) ==
    /\ phase' = [o \in Ops |-> IF o \in S THEN "none" ELSE phase[o]]
    /\ failing' = failing \ S

SetClock(t) ==
    /\ \/ t > now /\ UNCHANGED disturbances
       \/ t < now /\ Disturb
    /\ now' = t
    /\ UNCHANGED <<db, tick, phase, failing, launched, faults>>

----------------------------------------------------------------------------
(* The scheduler pass.  DueJobs and ListPendingCatchUps are read first, the *)
(* storage is observed with no lock held, and the admission follows later.  *)

MutRegularOnly(S) ==
    /\ tick = Idle
    /\ db.enabled /\ ~db.manual /\ db.nextRun <= now
    /\ S = db.targets /\ tick' = [due |-> db.nextRun, sel |-> S]
    /\ UNCHANGED <<now, db, phase, failing, launched, faults, disturbances>>

\* Due: the whole job is observed.  Otherwise some pairs with pending work are.
ReadDue(S) ==
    /\ tick = Idle
    /\ db.enabled
    /\ IF ~db.manual /\ db.nextRun <= now
       THEN S = db.targets /\ tick' = [due |-> db.nextRun, sel |-> S]
       ELSE /\ S \subseteq {v \in db.targets : db.pend[v].count > 0}
            /\ tick' = [due |-> NoTime, sel |-> S]
    /\ S # {}
    /\ UNCHANGED <<now, db, phase, failing, launched, faults, disturbances>>

\* A next run further ahead than the schedule allows is pulled back.
RescheduleNextRun ==
    /\ tick = Idle
    /\ db.enabled /\ ~db.manual /\ BeyondSchedule(db.nextRun)
    /\ Write([db EXCEPT !.nextRun = now + Interval])
    /\ UNCHANGED <<now, tick, phase, failing, launched, faults, disturbances>>

\* The request still fits the job as it is now.
TickCurrent ==
    IF tick.due = NoTime THEN tick.sel \subseteq db.targets
    ELSE tick.sel = db.targets /\ tick.due = db.nextRun /\ tick.due <= now

\* The tables after the regular occurrence, if there is one, was recorded.
Recorded ==
    IF tick.due = NoTime \/ ~db.enabled THEN db
    ELSE [db EXCEPT !.nextRun = AdvanceAfter(tick.due),
                    !.pend = [v \in Vaults |-> IF v \in db.targets
                                               THEN MarkMissed(@[v], tick.due) ELSE @[v]]]

Outstanding(v) ==
    db.pend[v].count + MapThenSumSet(LAMBDA o : db.ops[o].due.count,
                                     {o \in EligibleOps(db) : db.ops[o].vault = v})

\* Queue one operation per pair of the injection f, in one admission group.
Queued(d, f) ==
    LET A == DOMAIN f
        gen == IF d.groups = {} THEN 1 ELSE Newest(d.groups).gen + 1
        vaultOf(o) == CHOOSE v \in A : f[v] = o
        row(v) == [vault |-> v, status |-> "queued", native |-> "none", rest |-> "eligible",
                   gen |-> gen, due |-> d.pend[v]]
    IN  IF A = {} THEN d
        ELSE [d EXCEPT
            !.ops = [o \in Ops |-> IF o \in Range(f) THEN row(vaultOf(o)) ELSE @[o]],
            !.pend = [v \in Vaults |-> IF v \in A THEN NoPending ELSE @[v]],
            !.groups = @ \cup {[gen |-> gen, admittedAt |-> now, prev |-> d.lastRun, started |-> FALSE]},
            !.lastRun = now]

FreeOps == {o \in Ops : db.ops[o] = Free /\ phase[o] = "none"}

\* Commit the admission of the pairs of f; those of F will fail at once.
Commit(d, f, F) ==
    /\ \A v \in DOMAIN f : RangeOK(d.pend[v])
    /\ f # <<>> => \A g \in d.groups : g.gen < MaxGroups
    /\ Write(Queued(d, f))
    /\ phase' = [o \in Ops |-> IF o \in Range(f) THEN "admitted" ELSE phase[o]]
    /\ failing' = failing \cup {f[v] : v \in F}
    /\ tick' = Idle
    /\ UNCHANGED <<now, launched, faults, disturbances>>

Admitting ==
    /\ tick # Idle /\ AdmissionOpen
    /\ TickCurrent
    /\ tick.due = NoTime \/ \A v \in db.targets : Outstanding(v) < MaxMissed

\* A paused job only records what was observed.
AdmitPaused ==
    /\ Admitting /\ ~db.enabled
    /\ tick' = Idle
    /\ UNCHANGED <<now, db, phase, failing, launched, faults, disturbances>>

(* A source outage admits nothing, until it has lasted IssueAfter: then one *)
(* idle pair carries the notice and every overdue pair is cleared with it.  *)
AdmitSourceOutage ==
    /\ Admitting /\ db.enabled
    /\ LET d == Recorded
           overdue == {v \in tick.sel : d.pend[v].count > 0 /\ Overdue(d.pend[v])}
           idle == IdlePairs(d, overdue)
       IN  \/ idle = {} /\ Commit(d, <<>>, {})
           \/ \E carrier \in idle, o \in FreeOps :
                Commit([d EXCEPT !.pend = [v \in Vaults |->
                            IF v \in overdue \ {carrier} THEN NoPending ELSE @[v]]],
                       [v \in {carrier} |-> o], {carrier})

(* With the source there, or conclusively broken, each pair goes by its own *)
(* observation.  "policy" is a Kopia vault whose policy is not reconciled.  *)
Observation == {"available", "policy", "unavailable", "conclusive"}

AdmitTargets(seen) ==
    /\ Admitting /\ db.enabled
    /\ LET d == Recorded
           idle == IdlePairs(d, tick.sel)
           notice == {v \in idle : seen[v] = "unavailable" /\ Overdue(d.pend[v])}
           broken == {v \in idle : seen[v] = "conclusive"}
           ready == {v \in idle : seen[v] = "available"}
       IN  \E f \in Injection(notice \cup broken \cup ready, FreeOps) :
                Commit(d, f, notice \cup broken)

\* ErrBackupTriggerChanged, ErrInvalidTargets, or a transaction that failed.
AdmissionRefused ==
    /\ tick # Idle /\ AdmissionOpen
    /\ TickCurrent => Fault
    /\ ~TickCurrent => NoFault
    /\ tick' = Idle
    /\ UNCHANGED <<now, db, phase, failing, launched, disturbances>>

(* AdmitManualBackupTargets for one vault: no occurrence, no last run.      *)
AdmitManual(v, o) ==
    /\ AdmissionOpen /\ Disturb
    /\ v \in db.targets /\ ActiveOps(db, v) = {}
    /\ o \in FreeOps
    /\ Write([db EXCEPT !.ops[o] = [Free EXCEPT !.vault = v, !.status = "queued"]])
    /\ phase' = [phase EXCEPT ![o] = "admitted"]
    /\ \E broken \in SUBSET {o} : failing' = failing \cup broken
    /\ UNCHANGED <<now, tick, launched, faults>>

\* The admitted operations enter the coordinator's queue together.
ActivatePersisted ==
    /\ ~AdmissionOpen
    /\ phase' = [o \in Ops |-> IF phase[o] = "admitted" THEN "queued" ELSE phase[o]]
    /\ UNCHANGED <<now, db, tick, failing, launched, faults, disturbances>>

\* They cannot; the admission interrupts them, or fails to do even that.
ActivationFails ==
    LET S == InPhase({"admitted"})
    IN  /\ S # {} /\ Fault
        /\ \/ \A o \in S : MayInterrupt(db, o) /\ Write(InterruptAll(db, S))
           \/ faults > 1 /\ UNCHANGED db
        /\ Release(S)
        /\ UNCHANGED <<now, tick, launched, disturbances>>

----------------------------------------------------------------------------
(* Cancel of one queued backup, and the batch a shutdown writes.            *)

Interrupt(S) ==
    /\ S # {} /\ S \subseteq InPhase({"queued", "quarantined"})
    /\ Cardinality(S) = 1 \/ S = InPhase({"queued", "quarantined"})
    /\ \A o \in S : MayInterrupt(db, o)
    /\ Write(InterruptAll(db, S))
    /\ Release(S)
    /\ UNCHANGED <<now, tick, launched, faults, disturbances>>

\* The write failed: the task stays in the queue but will never be dispatched.
InterruptFails(o) ==
    /\ phase[o] \in {"queued", "quarantined"} /\ Fault
    /\ phase' = [phase EXCEPT ![o] = "quarantined"]
    /\ UNCHANGED <<now, db, tick, failing, launched, disturbances>>

----------------------------------------------------------------------------
(* The run of one operation, holding its vault.                             *)

BeginRun(o) ==
    /\ phase[o] = "queued" /\ db.ops[o].status = "queued"
    /\ Write([db EXCEPT !.ops[o].status = "running"])
    /\ phase' = [phase EXCEPT ![o] = "running"]
    /\ UNCHANGED <<now, tick, failing, launched, faults, disturbances>>

\* ActivateBackupOperation failed: the queued occurrence is put back, if it can be.
BeginFails(o) ==
    /\ phase[o] = "queued" /\ Fault
    /\ \/ MayInterrupt(db, o) /\ Write(RestoreQueued(db, o))
       \/ faults > 1 /\ UNCHANGED db
    /\ Release({o})
    /\ UNCHANGED <<now, tick, launched, disturbances>>

\* The durable start of the native backup step, before anything is launched.
StartNative(o) ==
    /\ phase[o] = "running" /\ o \notin failing
    /\ Write([db EXCEPT !.ops[o].native = "running"])
    /\ phase' = [phase EXCEPT ![o] = "checked"]
    /\ UNCHANGED <<now, tick, failing, launched, faults, disturbances>>

Launch(o) ==
    /\ phase[o] = "checked"
    /\ phase' = [phase EXCEPT ![o] = "launched"]
    /\ launched' = Undecided(db, launched \cup {o})
    /\ UNCHANGED <<now, db, tick, failing, faults, disturbances>>

(* The executor returns before the native backup started: storage was       *)
(* missing ("paused"), or a script, a cancel or another error ("ended").    *)
EndBeforeNative(o, how) ==
    /\ phase[o] \in {"running", "checked"}
    /\ o \in failing => how = "ended"
    /\ phase' = [phase EXCEPT ![o] = how]
    /\ IF phase[o] = "running" THEN NoFault /\ UNCHANGED db
       ELSE \/ NoFault /\ Write([db EXCEPT !.ops[o].native = "skipped"])
            \/ Fault /\ UNCHANGED db
    /\ UNCHANGED <<now, tick, failing, launched, disturbances>>

NativeReturns(o) ==
    /\ phase[o] = "launched"
    /\ phase' = [phase EXCEPT ![o] = "ended"]
    /\ \/ NoFault /\ Write([db EXCEPT !.ops[o].native = "finished"])
       \/ Fault /\ UNCHANGED db
    /\ UNCHANGED <<now, tick, failing, launched, disturbances>>

(* What becomes of the occurrence.  Missing filesystem storage may become   *)
(* the 30-day notice; anything else that is missing is put back, and so is  *)
(* the overdue occurrence when the notice cannot be written.                *)
Settle(o, filesystem) ==
    LET escalated == phase[o] = "paused" /\ filesystem /\ Escalates(db, o)
        possible == db.ops[o].rest = "eligible" =>
                        IF phase[o] = "ended" THEN GroupsSound(db) ELSE MayPutBack(db, o)
        becomes(d) == possible /\ Write(d) /\ launched' = Undecided(d, launched)
    IN  /\ phase[o] \in {"ended", "paused"}
        /\ \/ NoFault /\ becomes(CASE phase[o] = "ended" -> Consume(db, o)
                                   [] escalated -> Escalate(db, o)
                                   [] OTHER -> RestoreUnavailable(db, o))
           \/ Fault /\ escalated /\ becomes(RestoreUnavailable(db, o))
           \/ Fault /\ UNCHANGED <<db, launched>>
        /\ phase' = [phase EXCEPT ![o] = "settled"]
        /\ UNCHANGED <<now, tick, failing, disturbances>>

\* persistTerminalState, which after its attempts lets the slot go either way.
Finish(o) ==
    LET done == Forget([db EXCEPT !.ops[o].status = "done", !.ops[o].native = "none"])
    IN  /\ phase[o] = "settled"
        /\ \/ NoFault /\ Write(done) /\ launched' = Undecided(done, launched)
           \/ Fault /\ UNCHANGED <<db, launched>>
        /\ Release({o})
        /\ UNCHANGED <<now, tick, disturbances>>

----------------------------------------------------------------------------
(* The job's owner, retention, and restarts.                                *)

SetJobEnabled(b) ==
    /\ b # db.enabled /\ Disturb
    /\ Write([db EXCEPT !.enabled = b,
                        !.nextRun = IF b /\ ~db.manual /\ BeyondSchedule(@)
                                    THEN now + Interval ELSE @])
    /\ UNCHANGED <<now, tick, phase, failing, launched, faults>>

MutRunningDoesNotMatter == \A v \in Vaults : \A o \in ActiveOps(db, v) : db.ops[o].status = "queued"
JobIdle == \A v \in Vaults : ActiveOps(db, v) = {}

\* What an edit clears: vaults that leave, and everything when the job turns manual.
ClearedBy(manual, targets) == (Vaults \ targets) \cup {v \in Vaults : manual}

(* updateJob, refused while a row of the job is queued or running.  Removed *)
(* vaults take their pending state and their restorations with them.        *)
UpdateJob(manual, newSchedule, targets) ==
    /\ JobIdle
    /\ targets # {} /\ Disturb
    /\ manual => ~newSchedule
    /\ \/ newSchedule
       \/ manual # db.manual
       \/ targets # db.targets
    /\ LET cut == [db EXCEPT
                !.manual = manual, !.targets = targets,
                !.nextRun = CASE manual -> NoTime
                              [] ~manual /\ (db.manual \/ newSchedule) -> now + Interval
                              [] OTHER -> @,
                !.pend = [v \in Vaults |-> IF v \in ClearedBy(manual, targets) THEN NoPending ELSE @[v]],
                !.ops = [o \in Ops |-> IF @[o].vault \in Vaults \ targets THEN Free ELSE @[o]]]
       IN  Write(DropEmptyGroups(cut))
    /\ UNCHANGED <<now, tick, phase, failing, launched, faults>>

MutPruneLeavesGroup(o) ==
    /\ db.ops[o].status \in {"done", "interrupted"}
    /\ Write([db EXCEPT !.ops[o] = Free])
    /\ UNCHANGED <<now, tick, phase, failing, launched, faults, disturbances>>

\* PruneOperations: a finished row goes, and the group it leaves empty.
Prune(o) ==
    /\ db.ops[o].status \in {"done", "interrupted"}
    /\ Write(DropEmptyGroups([db EXCEPT !.ops[o] = Free]))
    /\ UNCHANGED <<now, tick, phase, failing, launched, faults, disturbances>>

\* The process dies anywhere, and the next one runs Migrate before all else.
Restart ==
    /\ Disturb
    /\ MigrateAccepts(db)
    /\ Write(Migrate(db))
    /\ tick' = Idle
    /\ Release(Ops)
    /\ launched' = {}
    /\ UNCHANGED <<now, faults>>

----------------------------------------------------------------------------
Scheduler ==
    \/ \E S \in SUBSET Vaults : ReadDue(S)
    \/ RescheduleNextRun
    \/ AdmitPaused
    \/ AdmitSourceOutage
    \/ \E seen \in [tick.sel -> Observation] : AdmitTargets(seen)
    \/ AdmissionRefused
    \/ ActivatePersisted
    \/ ActivationFails

Run(o) ==
    \/ BeginRun(o)
    \/ BeginFails(o)
    \/ StartNative(o)
    \/ Launch(o)
    \/ \E how \in {"ended", "paused"} : EndBeforeNative(o, how)
    \/ NativeReturns(o)
    \/ \E filesystem \in BOOLEAN : Settle(o, filesystem)
    \/ Finish(o)

User ==
    \/ \E v \in Vaults, o \in Ops : AdmitManual(v, o)
    \/ \E S \in SUBSET Ops : Interrupt(S)
    \/ \E o \in Ops : InterruptFails(o)
    \/ \E b \in BOOLEAN : SetJobEnabled(b)
    \/ \E manual, newSchedule \in BOOLEAN, targets \in SUBSET Vaults :
            UpdateJob(manual, newSchedule, targets)

Next ==
    \/ \E t \in 1..MaxTime : SetClock(t)
    \/ Scheduler
    \/ \E o \in Ops : Run(o)
    \/ User
    \/ \E o \in Ops : Prune(o)
    \/ Restart

Spec == Init /\ [][Next]_vars

(* The scheduler ticks every minute and takes every pending pair that is    *)
(* not held back for five minutes; from time to time the storage is found   *)
(* available; a run goes on to its end.  Users, faults and restarts owe     *)
(* nothing.                                                                 *)
AdmitsPair(v) == \E seen \in [tick.sel -> Observation] :
    v \in tick.sel /\ seen[v] = "available" /\ ActiveOps(db, v) = {} /\ AdmitTargets(seen)

Fairness ==
    /\ \A v \in Vaults : SF_vars(\E S \in SUBSET Vaults : v \in S /\ ReadDue(S))
    /\ \A v \in Vaults : SF_vars(AdmitsPair(v))
    /\ WF_vars(AdmitPaused \/ AdmitSourceOutage \/ AdmissionRefused
                \/ \E seen \in [tick.sel -> Observation] : AdmitTargets(seen))
    /\ WF_vars(ActivatePersisted)
    /\ \A o \in Ops : WF_vars(Run(o))

FairSpec == Spec /\ Fairness

----------------------------------------------------------------------------
Pending == [count : Nat, first : Nat, last : Nat]
Phases == {"none", "admitted", "queued", "quarantined", "running", "checked", "launched",
           "paused", "ended", "settled"}
Row == [vault : Vaults \cup {"none"}, status : Active \cup {"none", "done", "interrupted"},
        native : {"none", "running", "finished", "skipped"},
        rest : {"none", "eligible", "started", "restored"}, gen : Nat, due : Pending]
Group == [gen : Nat \ {0}, admittedAt : Nat \ {0}, prev : Nat, started : BOOLEAN]
Tables == [enabled : BOOLEAN, manual : BOOLEAN, targets : SUBSET Vaults, nextRun : Nat,
           lastRun : Nat, pend : [Vaults -> Pending], ops : [Ops -> Row], groups : SUBSET Group]

\* Every variable keeps its shape, and every restoration row its group.
TypeOK ==
    /\ now \in 1..MaxTime
    /\ db \in Tables
    /\ \A o \in Ops : db.ops[o].rest # "none" => \E g \in db.groups : g.gen = db.ops[o].gen
    /\ tick \in [due : Nat, sel : SUBSET Vaults]
    /\ phase \in [Ops -> Phases]
    /\ failing \subseteq Ops /\ launched \subseteq Ops
    /\ faults \in 0..Faults /\ disturbances \in 0..Disturbances

(* A job and vault never have two live rows, whatever the scheduler, a      *)
(* manual start, a failed write or a restart leave behind.                  *)
OneRunPerPair == \A v \in Vaults : Cardinality(ActiveOps(db, v)) <= 1

(* A vault that left the job keeps no occurrence, and a manual job has none *)
(* waiting.                                                                 *)
NothingLeftBehind ==
    \A v \in Vaults : (db.manual \/ v \notin db.targets) =>
        /\ db.pend[v] = NoPending
        /\ \A o \in ActiveOps(db, v) : db.ops[o].rest # "eligible"

(* Nothing runs that the user did not ask for: no pair twice at a time, and *)
(* nothing later on for a schedule that is gone (CoordinateScheduledAdmission, updateJob). *)
NoExtraRun == OneRunPerPair /\ NothingLeftBehind

(* No history of clock jumps, merges, requests, retention and failed writes    *)
(* makes tables that the bookkeeping itself refuses: every saved range      *)
(* parses, every admission group has a restoration row or a started backup, *)
(* and Migrate commits, so the application starts.                          *)
BookkeepingAccepts ==
    /\ \A v \in Vaults : db.pend[v] = NoPending \/ RangeOK(db.pend[v])
    /\ \A o \in EligibleOps(db) : MayPutBack(db, o)
    /\ GroupsSound(db)
    /\ MigrateAccepts(db)

(* The job as its user sees it: every occurrence that came due waits, is    *)
(* held by a run, or had an outcome, through crashes and failed writes; and *)
(* one whose native backup started is never run again.                      *)
HeldBy(v) == {o \in EligibleOps(db) : db.ops[o].vault = v /\ db.ops[o].status \in Active}
Promise == INSTANCE CatchUpPromise WITH
    waiting <- [v \in Vaults |-> db.pend[v].count],
    held <- [v \in Vaults |-> IF HeldBy(v) = {} THEN 0
                              ELSE db.ops[CHOOSE o \in HeldBy(v) : TRUE].due.count],
    launched <- {v \in Vaults : HeldBy(v) \cap launched # {}}
KeepsPromise == Promise!Spec

(* As long as no write fails, a pending occurrence of a job that stays      *)
(* enabled is admitted in the end, also one that a cancel, an outage or a   *)
(* busy vault put back or held back, and no row stays queued or running.    *)
PendingAdmitted == [](faults = Faults) =>
    /\ <>[]db.enabled =>
           \A v \in Vaults : db.pend[v].count > 0 ~> db.pend[v].count = 0
    /\ \A o \in Ops : db.ops[o].status \in Active ~> db.ops[o].status \notin Active
=============================================================================
