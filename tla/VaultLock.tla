------------------------------ MODULE VaultLock ------------------------------
(***************************************************************************)
(* The admission gate of one vault: package vaultlock (lock.go).           *)
(*                                                                         *)
(* Every engine operation that can touch a repository takes this lock.     *)
(* Four kinds of caller meet on it:                                        *)
(*   Waiters  AcquireExclusiveContext: backups, checks, restores, admin    *)
(*   Triers   YieldLowPriorityAndTryExclusiveContext: scheduled checks and *)
(*            maintenance, which report "busy" instead of waiting          *)
(*   Lows     AcquireLowPrioritySharedContext: metadata fills, which must  *)
(*            yield to either of the above                                 *)
(*   Sharers  AcquireShared and TryShared: ordinary readers                *)
(*                                                                         *)
(* One action is one critical section of the code: what runs between two   *)
(* acquisitions of mu, one call on the RWMutex, or one read of a context.  *)
(* Pause callbacks and the 5 ms timers change nothing that is kept here.   *)
(***************************************************************************)
EXTENDS Integers, FiniteSets

CONSTANTS Waiters, Triers, Lows, Sharers

Claimants == Waiters \cup Triers
Callers == Claimants \cup Lows

ASSUME KindsDisjoint ==
    /\ Waiters \cap Triers = {}
    /\ Claimants \cap Lows = {}
    /\ Sharers \cap Callers = {}

ASSUME CallersFinite == IsFiniteSet(Claimants)

VARIABLES
    writer,     \* RWMutex, writing side: "free", "announced" or "held"; it has no owner
    readers,    \* RWMutex, reading side: the callers whose read lock is granted
    blocked,    \* Sharers parked in RLock behind a writer
    priority,   \* vaultMutex.priority
    low,        \* vaultMutex.low: the registered low-priority leases
    cancelled,  \* leases whose derived context was cancelled with ErrLowPriorityYield
    snap,       \* snap[c]: leases claimant c read under mu and has still to cancel
    locker,     \* locker[w]: the goroutine in lock.lock.Lock() that w started
    ended,      \* callers whose own context has ended
    pc          \* where each caller is

mutexVars == <<writer, readers, blocked>>
vars == <<writer, readers, blocked, priority, low, cancelled, snap, locker, ended, pc>>

ClaimPc == {"pausing", "polling", "trying", "waiting", "checking", "won", "lost"}
OwnerPc == {"checking", "won", "holding"}
LowPc == {"idle", "polling", "trying", "admitting", "declining", "leased",
          "unlocking", "unregistering"}

\* The callers between beginPriority and endPriority.
Claiming == {c \in Claimants : pc[c] \in ClaimPc}

\* Who answers for the write lock: callers, and locker goroutines that got it.
OwnerCalls == {c \in Claimants : pc[c] \in OwnerPc}
OwnerLockers == {w \in Waiters : locker[w] = "acquired"}

Init ==
    /\ writer = "free"
    /\ readers = {}
    /\ blocked = {}
    /\ priority = 0
    /\ low = {}
    /\ cancelled = {}
    /\ snap = [c \in Claimants |-> {}]
    /\ locker = [w \in Waiters |-> "none"]
    /\ ended = {}
    /\ pc = [c \in Callers |-> "idle"]

-----------------------------------------------------------------------------
(* sync.RWMutex, from the standard library.                                 *)

\* Unlock admits every reader parked in RLock before another writer may enter.
Unlock ==
    /\ writer' = "free"
    /\ readers' = readers \cup blocked
    /\ blocked' = {}

RUnlock(p) == readers' = readers \ {p} /\ UNCHANGED <<writer, blocked>>

Goto(c, label) == pc' = [pc EXCEPT ![c] = label]

-----------------------------------------------------------------------------
(* Mutants: plausible bugs, each written like the definition it stands for.  *)
(* TLC puts one in the place of that definition to show what notices it.     *)

\* ReleaseExclusive: the returned unlock ends the priority a second time.
MutUnlockEndsPriority(c) ==
    /\ pc[c] = "holding"
    /\ Unlock
    /\ priority' = priority - 1
    /\ Goto(c, "idle")
    /\ UNCHANGED <<low, cancelled, snap, locker, ended>>

\* ReadersPaused: pauseReaders may return before it reached every reader.
MutPauseStopsEarly(c) ==
    /\ pc[c] = "pausing"
    /\ Goto(c, IF c \in Waiters THEN "trying" ELSE "polling")
    /\ UNCHANGED <<mutexVars, priority, low, cancelled, snap, locker, ended>>

\* CleanupUnlock: the cleanup goroutine does not wait for the acquisition.
MutCleanupUnlocksEarly(w) ==
    /\ locker[w] # "none"
    /\ pc[w] # "waiting"
    /\ Unlock
    /\ locker' = [locker EXCEPT ![w] = "none"]
    /\ UNCHANGED <<priority, low, cancelled, snap, ended, pc>>

\* LowUnregister: the release forgets to delete the registration.
MutRegistrationStays(p) ==
    /\ pc[p] = "unregistering"
    /\ Goto(p, "idle")
    /\ UNCHANGED <<mutexVars, priority, low, cancelled, snap, locker, ended>>

-----------------------------------------------------------------------------
\* tryExclusive: TryLock fails behind a writer, announced or not, and a reader.
CanLock == writer = "free" /\ readers = {}

-----------------------------------------------------------------------------
(* A caller's context may end at any moment of a call.                      *)

EndContext(c) ==
    /\ pc[c] # "idle"
    /\ c \notin ended
    /\ ended' = ended \cup {c}
    /\ UNCHANGED <<mutexVars, priority, low, cancelled, snap, locker, pc>>

-----------------------------------------------------------------------------
(* Exclusive callers.                                                       *)

\* beginPriority.  Bound OneLocker: a waiter does not call again while the
\* goroutine its abandoned call left in Lock() is still there; other waiters do.
Claim(c) ==
    /\ pc[c] = "idle"
    /\ c \in Waiters => locker[c] = "none"
    /\ priority' = priority + 1
    /\ snap' = [snap EXCEPT ![c] = low]
    /\ ended' = ended \ {c}
    /\ Goto(c, "pausing")
    /\ UNCHANGED <<mutexVars, low, cancelled, locker>>

\* pauseReaders works on the snapshot, outside mu.  The cancel function of a
\* lease released meanwhile does nothing, and no lease registers while c claims.
CancelReader(c) ==
    /\ pc[c] = "pausing"
    /\ \E p \in snap[c] :
        /\ cancelled' = cancelled \cup {p}
        /\ snap' = [snap EXCEPT ![c] = @ \ {p}]
    /\ UNCHANGED <<mutexVars, priority, low, locker, ended, pc>>

ReadersPaused(c) ==
    /\ pc[c] = "pausing"
    /\ snap[c] = {}
    /\ Goto(c, IF c \in Waiters THEN "trying" ELSE "polling")
    /\ UNCHANGED <<mutexVars, priority, low, cancelled, snap, locker, ended>>

\* The loop of YieldLowPriorityAndTryExclusiveContext saw len(low) = 0.
Drained(t) ==
    /\ pc[t] = "polling"
    /\ low = {}
    /\ Goto(t, "trying")
    /\ UNCHANGED <<mutexVars, priority, low, cancelled, snap, locker, ended>>

GiveUpPolling(t) ==
    /\ pc[t] = "polling"
    /\ t \in ended
    /\ Goto(t, "lost")
    /\ UNCHANGED <<mutexVars, priority, low, cancelled, snap, locker, ended>>

\* tryExclusive
TryWins(c) ==
    /\ pc[c] = "trying"
    /\ CanLock
    /\ writer' = "held"
    /\ Goto(c, "checking")
    /\ UNCHANGED <<readers, blocked, priority, low, cancelled, snap, locker, ended>>

\* onWait is called and the goroutine that waits in Lock() starts.
StartLocker(w) ==
    /\ pc[w] = "trying"
    /\ ~CanLock
    /\ locker' = [locker EXCEPT ![w] = "started"]
    /\ Goto(w, "waiting")
    /\ UNCHANGED <<mutexVars, priority, low, cancelled, snap, ended>>

ReportBusy(t) ==
    /\ pc[t] = "trying"
    /\ ~CanLock
    /\ Goto(t, "lost")
    /\ UNCHANGED <<mutexVars, priority, low, cancelled, snap, locker, ended>>

\* lock.lock.Lock(): announce, so that new readers stay out, then wait for the
\* readers already in.
LockerAnnounce(w) ==
    /\ locker[w] = "started"
    /\ writer = "free"
    /\ writer' = "announced"
    /\ locker' = [locker EXCEPT ![w] = "announced"]
    /\ UNCHANGED <<readers, blocked, priority, low, cancelled, snap, ended, pc>>

LockerAcquire(w) ==
    /\ locker[w] = "announced"
    /\ readers = {}
    /\ writer' = "held"
    /\ locker' = [locker EXCEPT ![w] = "acquired"]
    /\ UNCHANGED <<readers, blocked, priority, low, cancelled, snap, ended, pc>>

\* The select of AcquireExclusiveContext: <-acquired, or <-ctx.Done().
TakeAcquired(w) ==
    /\ pc[w] = "waiting"
    /\ locker[w] = "acquired"
    /\ locker' = [locker EXCEPT ![w] = "none"]
    /\ Goto(w, "checking")
    /\ UNCHANGED <<mutexVars, priority, low, cancelled, snap, ended>>

Abandon(w) ==
    /\ pc[w] = "waiting"
    /\ w \in ended
    /\ Goto(w, "lost")
    /\ UNCHANGED <<mutexVars, priority, low, cancelled, snap, locker, ended>>

\* The cleanup goroutine of an abandoned call gives the late acquisition back.
CleanupUnlock(w) ==
    /\ locker[w] = "acquired"
    /\ pc[w] # "waiting"
    /\ Unlock
    /\ locker' = [locker EXCEPT ![w] = "none"]
    /\ UNCHANGED <<priority, low, cancelled, snap, ended, pc>>

\* ctx.Err() is read again once the lock is held.
RecheckLive(c) ==
    /\ pc[c] = "checking"
    /\ c \notin ended
    /\ Goto(c, "won")
    /\ UNCHANGED <<mutexVars, priority, low, cancelled, snap, locker, ended>>

RecheckEnded(c) ==
    /\ pc[c] = "checking"
    /\ c \in ended
    /\ Unlock
    /\ Goto(c, "lost")
    /\ UNCHANGED <<priority, low, cancelled, snap, locker, ended>>

\* The deferred endPriority, with or without the lock.
EndPriority(c) ==
    /\ pc[c] \in {"won", "lost"}
    /\ priority' = priority - 1
    /\ Goto(c, IF pc[c] = "won" THEN "holding" ELSE "idle")
    /\ UNCHANGED <<mutexVars, low, cancelled, snap, locker, ended>>

\* The caller's deferred unlock().
ReleaseExclusive(c) ==
    /\ pc[c] = "holding"
    /\ Unlock
    /\ Goto(c, "idle")
    /\ UNCHANGED <<priority, low, cancelled, snap, locker, ended>>

-----------------------------------------------------------------------------
(* Low-priority readers.                                                    *)

LowCall(p) ==
    /\ pc[p] = "idle"
    /\ ended' = ended \ {p}
    /\ Goto(p, "polling")
    /\ UNCHANGED <<mutexVars, priority, low, cancelled, snap, locker>>

LowSeesNoPriority(p) ==
    /\ pc[p] = "polling"
    /\ priority = 0
    /\ Goto(p, "trying")
    /\ UNCHANGED <<mutexVars, priority, low, cancelled, snap, locker, ended>>

LowGivesUp(p) ==
    /\ pc[p] = "polling"
    /\ p \in ended
    /\ Goto(p, "idle")
    /\ UNCHANGED <<mutexVars, priority, low, cancelled, snap, locker, ended>>

\* TryRLock succeeds unless a writer holds or has announced itself.
LowTryRLock(p) ==
    /\ pc[p] = "trying"
    /\ \/ /\ writer = "free"
          /\ readers' = readers \cup {p}
          /\ Goto(p, "admitting")
       \/ /\ writer # "free"
          /\ Goto(p, "polling")
          /\ UNCHANGED readers
    /\ UNCHANGED <<writer, blocked, priority, low, cancelled, snap, locker, ended>>

\* Under mu: priority is read again and, if it is zero, the lease registers.
LowRegister(p) ==
    /\ pc[p] = "admitting"
    /\ priority = 0
    /\ low' = low \cup {p}
    /\ cancelled' = cancelled \ {p}
    /\ Goto(p, "leased")
    /\ UNCHANGED <<mutexVars, priority, snap, locker, ended>>

LowDecline(p) ==
    /\ pc[p] = "admitting"
    /\ priority > 0
    /\ Goto(p, "declining")
    /\ UNCHANGED <<mutexVars, priority, low, cancelled, snap, locker, ended>>

LowDeclineUnlock(p) ==
    /\ pc[p] = "declining"
    /\ RUnlock(p)
    /\ Goto(p, "polling")
    /\ UNCHANGED <<priority, low, cancelled, snap, locker, ended>>

\* The native read ended, by itself or because its context was cancelled, and
\* the caller releases: cancel(nil), RUnlock, and only then the registration.
LowFinish(p) ==
    /\ pc[p] = "leased"
    /\ Goto(p, "unlocking")
    /\ UNCHANGED <<mutexVars, priority, low, cancelled, snap, locker, ended>>

LowUnlock(p) ==
    /\ pc[p] = "unlocking"
    /\ RUnlock(p)
    /\ Goto(p, "unregistering")
    /\ UNCHANGED <<priority, low, cancelled, snap, locker, ended>>

LowUnregister(p) ==
    /\ pc[p] = "unregistering"
    /\ low' = low \ {p}
    /\ Goto(p, "idle")
    /\ UNCHANGED <<mutexVars, priority, cancelled, snap, locker, ended>>

-----------------------------------------------------------------------------
(* Ordinary readers.                                                        *)

\* AcquireShared parks behind a writer; TryShared is the first disjunct alone.
AcquireShared(s) ==
    /\ s \notin readers \cup blocked
    /\ \/ /\ writer = "free"
          /\ readers' = readers \cup {s}
          /\ UNCHANGED blocked
       \/ /\ writer # "free"
          /\ blocked' = blocked \cup {s}
          /\ UNCHANGED readers
    /\ UNCHANGED <<writer, priority, low, cancelled, snap, locker, ended, pc>>

ReleaseShared(s) ==
    /\ s \in readers
    /\ RUnlock(s)
    /\ UNCHANGED <<priority, low, cancelled, snap, locker, ended, pc>>

-----------------------------------------------------------------------------
\* The steps of a claim in progress, of its two entry points, of the goroutines
\* it may leave behind, and of a low-priority call that is not at its native work.
ClaimStep(c) ==
    \/ CancelReader(c) \/ ReadersPaused(c) \/ TryWins(c)
    \/ RecheckLive(c) \/ RecheckEnded(c) \/ EndPriority(c)

WaitCall(w) == ClaimStep(w) \/ StartLocker(w) \/ TakeAcquired(w) \/ Abandon(w)

TryCall(t) == ClaimStep(t) \/ Drained(t) \/ GiveUpPolling(t) \/ ReportBusy(t)

Locker(w) == LockerAnnounce(w) \/ LockerAcquire(w) \/ CleanupUnlock(w)

LowPoll(p) ==
    \/ LowSeesNoPriority(p) \/ LowGivesUp(p) \/ LowTryRLock(p)
    \/ LowRegister(p) \/ LowDecline(p) \/ LowDeclineUnlock(p)
    \/ LowUnlock(p) \/ LowUnregister(p)

Next ==
    \/ \E c \in Callers : EndContext(c)
    \/ \E c \in Claimants : Claim(c) \/ ReleaseExclusive(c)
    \/ \E w \in Waiters : WaitCall(w) \/ Locker(w)
    \/ \E t \in Triers : TryCall(t)
    \/ \E p \in Lows : LowCall(p) \/ LowFinish(p) \/ LowPoll(p)
    \/ \E s \in Sharers : AcquireShared(s) \/ ReleaseShared(s)

Spec == Init /\ [][Next]_vars

-----------------------------------------------------------------------------
(* Fairness.  The package's own code keeps running; a lease whose context is *)
(* cancelled is given back, which the doc of AcquireLowPrioritySharedContext *)
(* asks of its caller.                                                       *)

StepFairness ==
    /\ \A w \in Waiters : WF_vars(WaitCall(w)) /\ WF_vars(CleanupUnlock(w)) /\ WF_vars(LockerAcquire(w))
    /\ \A t \in Triers : WF_vars(TryCall(t))
    /\ \A p \in Lows : WF_vars(LowPoll(p)) /\ WF_vars(p \in cancelled /\ LowFinish(p))

\* Assumed only where a property says so: the holders finish their operation,
\* and a Mutex in starvation mode hands itself to a goroutine that keeps
\* waiting in Lock().
HolderFairness ==
    /\ \A c \in Claimants : WF_vars(ReleaseExclusive(c))
    /\ \A s \in Sharers : WF_vars(ReleaseShared(s))
    /\ \A p \in Lows : WF_vars(LowFinish(p))
    /\ \A w \in Waiters : SF_vars(LockerAnnounce(w))

FairSpec == Spec /\ StepFairness

-----------------------------------------------------------------------------
(* Properties.                                                               *)

TypeOK ==
    /\ writer \in {"free", "announced", "held"}
    /\ readers \subseteq Lows \cup Sharers
    /\ blocked \subseteq Sharers
    /\ priority \in Nat
    /\ low \subseteq Lows
    /\ cancelled \subseteq Lows
    /\ snap \in [Claimants -> SUBSET Lows]
    /\ locker \in [Waiters -> {"none", "started", "announced", "acquired"}]
    /\ ended \subseteq Callers
    /\ pc \in [Callers -> ClaimPc \cup LowPc \cup {"holding"}]

\* The write lock has exactly one party that will unlock it, whoever won it
\* and however its context ended: the caller, the select, or the cleanup
\* goroutine of an abandoned call.  None means a vault locked for ever; two
\* means an Unlock that frees somebody else's operation.
OneOwner ==
    /\ writer = "held" <=> (OwnerCalls # {} \/ OwnerLockers # {})
    /\ \A c, d \in OwnerCalls : c = d
    /\ \A v, w \in OwnerLockers : v = w
    /\ OwnerCalls = {} \/ OwnerLockers = {}

\* No reader of any kind, registered or still being admitted, is inside while
\* a party owns the vault exclusively.
ExclusiveExcludesReaders == writer = "held" => readers = {}

\* priority counts exactly the calls in progress: a return path that forgot
\* endPriority would keep every metadata fill out for good, one that ran it
\* twice would let fills in under a waiting backup.
PriorityCountsClaims == priority = Cardinality(Claiming)

\* Once a claimant has paused the readers it saw, every lease still at work has
\* been told to stop: none slipped in between its reading of low and its try.
ClaimReachesEveryLease ==
    \A c \in Claimants :
        pc[c] \in {"polling", "trying", "waiting"} =>
            \A p \in Lows : pc[p] = "leased" => p \in cancelled

\* A lease is only ever told to stop on behalf of a claim in progress, and none
\* is admitted while one is: fills and backups cannot chase each other.
LeasesRespectClaims ==
    [][ /\ \A p \in low' \ low : Claiming = {}
        /\ \A p \in cancelled' \ cancelled : Claiming # {} ]_vars

\* Scheduled work never waits for ordinary holders: its one attempt returns
\* even if nobody who holds the vault ever lets go.
TryReturns == \A t \in Triers : pc[t] = "pausing" ~> pc[t] \in {"holding", "idle"}

\* If holders finish, a waiting operation gets the vault or its context ends:
\* ordinary and low-priority readers that keep coming cannot starve it.
WaiterReturns == HolderFairness =>
    \A w \in Waiters : pc[w] = "pausing" ~> pc[w] \in {"holding", "idle"}

\* A fill that keeps asking is admitted once the claims stop and the vault
\* stays free of writers: no stale priority or cancelled lease keeps it out.
LowAdmittedInTheEnd ==
    \A p \in Lows :
        <>[](Claiming = {} /\ writer = "free") => (pc[p] = "polling" ~> pc[p] \in {"leased", "idle"})

\* Every call of the lock returns, each under the little it has to assume.
CallsReturn == TryReturns /\ WaiterReturns /\ LowAdmittedInTheEnd

-----------------------------------------------------------------------------
(* The promise this lock keeps.  Access is granted when the call returns; a  *)
(* lease lasts from its registration to its read unlock.                     *)

Inside(p) == pc[p] \in {"leased", "unlocking"}

Gate == INSTANCE VaultGate WITH
    claims <- Claiming,
    exclusive <- {c \in Claimants : pc[c] = "holding"},
    shared <- readers \cap Sharers,
    leases <- {p \in Lows : Inside(p)},
    revoked <- {p \in cancelled : Inside(p)}

\* Through every interleaving of claims, yields, cancellations and late
\* acquisitions, callers see the gate of VaultGate.
ImplementsGate == Gate!Spec
=============================================================================
