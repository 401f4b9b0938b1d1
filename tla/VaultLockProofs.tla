--------------------------- MODULE VaultLockProofs ---------------------------
(***************************************************************************)
(* Proofs about VaultLock for any finite set of exclusive callers and any  *)
(* sets of readers.  The inductive invariant adds to the safety properties *)
(* what each of them rests on: at most one writer has announced itself,    *)
(* the places where a low-priority reader holds its read lock and its      *)
(* registration, and what a claim still in pauseReaders has left to do.    *)
(***************************************************************************)
EXTENDS VaultLock, FiniteSetTheorems, TLAPS

\* A writer announced in the mutex is exactly one locker goroutine.
OneAnnounced ==
    /\ \A w \in Waiters : locker[w] = "announced" => writer = "announced"
    /\ \A v, w \in Waiters :
          locker[v] = "announced" /\ locker[w] = "announced" => v = w

\* A claim that has not tried yet has no locker goroutine from an earlier call.
TryWithoutLocker ==
    \A w \in Waiters : pc[w] \in {"pausing", "trying"} => locker[w] = "none"

\* Where a low-priority reader holds its read lock, and where its registration.
LowHolds ==
    \A p \in Lows :
        /\ pc[p] \in {"admitting", "declining", "leased", "unlocking"} => p \in readers
        /\ pc[p] \in {"leased", "unlocking", "unregistering"} <=> p \in low

\* Every claim has told every working lease to stop, or has it in its snapshot.
ClaimCovers ==
    \A c \in Claimants : pc[c] \in ClaimPc =>
        \A p \in Lows : pc[p] = "leased" =>
            p \in cancelled \/ (pc[c] = "pausing" /\ p \in snap[c])

IInv ==
    /\ TypeOK
    /\ OneAnnounced
    /\ TryWithoutLocker
    /\ OneOwner
    /\ ExclusiveExcludesReaders
    /\ PriorityCountsClaims
    /\ LowHolds
    /\ ClaimCovers

-----------------------------------------------------------------------------

LEMMA InitIInv == Init => IInv
<1> SUFFICES ASSUME Init PROVE IInv
  OBVIOUS
<1> USE DEF Init
<1>1. TypeOK
  BY DEF TypeOK, LowPc
<1>2. OneAnnounced /\ TryWithoutLocker /\ OneOwner
  BY KindsDisjoint DEF OneAnnounced, TryWithoutLocker, OneOwner, OwnerCalls,
     OwnerLockers, OwnerPc, Callers, Claimants
<1>3. ExclusiveExcludesReaders /\ LowHolds /\ ClaimCovers
  BY DEF ExclusiveExcludesReaders, LowHolds, ClaimCovers, ClaimPc, Callers
<1>4. PriorityCountsClaims
  <2>1. Claiming = {}
    BY DEF Claiming, ClaimPc, Callers
  <2> QED
    BY <2>1, FS_EmptySet DEF PriorityCountsClaims
<1> QED
  BY <1>1, <1>2, <1>3, <1>4 DEF IInv

\* Who owns or has announced itself in the write lock changes only where a step
\* changes the mutex, a locker goroutine, or a caller's claim to the lock.
MutexInv ==
    /\ OneAnnounced
    /\ TryWithoutLocker
    /\ OneOwner
    /\ ExclusiveExcludesReaders

LEMMA StepMutex == TypeOK /\ MutexInv /\ [Next]_vars => MutexInv'
<1> SUFFICES ASSUME TypeOK, MutexInv, [Next]_vars PROVE MutexInv'
  OBVIOUS
<1> USE KindsDisjoint DEF TypeOK, MutexInv, OneAnnounced, TryWithoutLocker, OneOwner,
        ExclusiveExcludesReaders, OwnerCalls, OwnerLockers, OwnerPc, mutexVars, Goto,
        Unlock, RUnlock, Claimants, Callers
<1>1. ASSUME NEW c \in Callers, EndContext(c) PROVE MutexInv'
  BY <1>1 DEF EndContext
<1>2. ASSUME NEW c \in Claimants, Claim(c) PROVE MutexInv'
  BY <1>2 DEF Claim
<1>3. ASSUME NEW c \in Claimants, ReleaseExclusive(c) PROVE MutexInv'
  <2>1. c \in OwnerCalls /\ OwnerCalls' = {} /\ OwnerLockers' = {}
    BY <1>3 DEF ReleaseExclusive
  <2> QED
    BY <1>3, <2>1 DEF ReleaseExclusive
<1>4. ASSUME NEW c \in Claimants, CancelReader(c) \/ ReadersPaused(c) PROVE MutexInv'
  BY <1>4 DEF CancelReader, ReadersPaused
<1>5. ASSUME NEW c \in Claimants, TryWins(c) PROVE MutexInv'
  <2>1. OwnerCalls' = {c} /\ OwnerLockers' = {}
    BY <1>5 DEF TryWins, CanLock
  <2> QED
    BY <1>5, <2>1 DEF TryWins, CanLock
<1>6. ASSUME NEW c \in Claimants, RecheckLive(c) \/ EndPriority(c) PROVE MutexInv'
  <2>1. OwnerCalls' = OwnerCalls /\ OwnerLockers' = OwnerLockers
    BY <1>6 DEF RecheckLive, EndPriority
  <2> QED
    BY <1>6, <2>1 DEF RecheckLive, EndPriority
<1>7. ASSUME NEW c \in Claimants, RecheckEnded(c) PROVE MutexInv'
  <2>1. c \in OwnerCalls /\ OwnerCalls' = {} /\ OwnerLockers' = {}
    BY <1>7 DEF RecheckEnded
  <2> QED
    BY <1>7, <2>1 DEF RecheckEnded
<1>8. ASSUME NEW w \in Waiters, StartLocker(w) \/ Abandon(w) PROVE MutexInv'
  BY <1>8 DEF StartLocker, Abandon
<1>9. ASSUME NEW w \in Waiters, TakeAcquired(w) PROVE MutexInv'
  <2>1. OwnerCalls' = {w} /\ OwnerLockers' = {}
    BY <1>9 DEF TakeAcquired
  <2> QED
    BY <1>9, <2>1 DEF TakeAcquired
<1>10. ASSUME NEW w \in Waiters, LockerAnnounce(w) PROVE MutexInv'
  BY <1>10 DEF LockerAnnounce
<1>11. ASSUME NEW w \in Waiters, LockerAcquire(w) PROVE MutexInv'
  <2>1. OwnerCalls' = {} /\ OwnerLockers' = {w}
    BY <1>11 DEF LockerAcquire
  <2> QED
    BY <1>11, <2>1 DEF LockerAcquire
<1>12. ASSUME NEW w \in Waiters, CleanupUnlock(w) PROVE MutexInv'
  <2>1. OwnerCalls' = {} /\ OwnerLockers' = {}
    BY <1>12 DEF CleanupUnlock
  <2> QED
    BY <1>12, <2>1 DEF CleanupUnlock
<1>13. ASSUME NEW t \in Triers, Drained(t) \/ GiveUpPolling(t) \/ ReportBusy(t)
       PROVE MutexInv'
  BY <1>13 DEF Drained, GiveUpPolling, ReportBusy
<1>14. ASSUME NEW p \in Lows, LowCall(p) \/ LowFinish(p) \/ LowPoll(p) PROVE MutexInv'
  <2>1. OwnerCalls' = OwnerCalls /\ UNCHANGED <<writer, locker>>
    BY <1>14 DEF LowCall, LowFinish, LowPoll, LowSeesNoPriority, LowGivesUp, LowTryRLock,
       LowRegister, LowDecline, LowDeclineUnlock, LowUnlock, LowUnregister
  <2>2. readers' \subseteq readers \/ writer = "free"
    BY <1>14 DEF LowCall, LowFinish, LowPoll, LowSeesNoPriority, LowGivesUp, LowTryRLock,
       LowRegister, LowDecline, LowDeclineUnlock, LowUnlock, LowUnregister
  <2>3. \A w \in Waiters : pc'[w] = pc[w]
    BY <1>14 DEF LowCall, LowFinish, LowPoll, LowSeesNoPriority, LowGivesUp, LowTryRLock,
       LowRegister, LowDecline, LowDeclineUnlock, LowUnlock, LowUnregister
  <2> QED
    BY <2>1, <2>2, <2>3
<1>15. ASSUME NEW s \in Sharers, AcquireShared(s) \/ ReleaseShared(s) PROVE MutexInv'
  BY <1>15 DEF AcquireShared, ReleaseShared
<1>16. CASE UNCHANGED vars
  BY <1>16 DEF vars
<1> QED
  BY <1>1, <1>2, <1>3, <1>4, <1>5, <1>6, <1>7, <1>8, <1>9, <1>10, <1>11, <1>12,
     <1>13, <1>14, <1>15, <1>16
  DEF Next, WaitCall, TryCall, ClaimStep, Locker

\* A claim is counted from beginPriority to endPriority, and by nothing else.
LEMMA StepPriority ==
    TypeOK /\ PriorityCountsClaims /\ [Next]_vars => PriorityCountsClaims'
<1> SUFFICES ASSUME TypeOK, PriorityCountsClaims, [Next]_vars
             PROVE PriorityCountsClaims'
  OBVIOUS
<1> USE KindsDisjoint DEF TypeOK, PriorityCountsClaims, mutexVars, Goto, ClaimPc, LowPc,
        Unlock, Claimants, Callers
<1>0. IsFiniteSet(Claiming)
  BY CallersFinite, FS_Subset DEF Claiming
<1>1. ASSUME NEW c \in Claimants, Claim(c) PROVE PriorityCountsClaims'
  <2>1. c \notin Claiming /\ Claiming' = Claiming \cup {c} /\ priority' = priority + 1
    BY <1>1 DEF Claim, Claiming
  <2>2. Cardinality(Claiming \cup {c}) = Cardinality(Claiming) + 1
    BY <1>0, <2>1, FS_AddElement
  <2> QED
    BY <2>1, <2>2
<1>2. ASSUME NEW c \in Claimants, EndPriority(c) PROVE PriorityCountsClaims'
  <2>1. c \in Claiming /\ Claiming' = Claiming \ {c} /\ priority' = priority - 1
    BY <1>2 DEF EndPriority, Claiming
  <2>2. Cardinality(Claiming \ {c}) = Cardinality(Claiming) - 1
    BY <1>0, <2>1, FS_RemoveElement
  <2> QED
    BY <2>1, <2>2
<1>3. ASSUME Claiming' = Claiming, priority' = priority PROVE PriorityCountsClaims'
  BY <1>3
<1> USE DEF Claiming
<1>4. ASSUME NEW c \in Claimants, ReleaseExclusive(c) PROVE PriorityCountsClaims'
  BY <1>3, <1>4 DEF ReleaseExclusive
<1>5. ASSUME NEW c \in Claimants,
             \/ CancelReader(c) \/ ReadersPaused(c) \/ TryWins(c)
             \/ RecheckLive(c) \/ RecheckEnded(c)
      PROVE PriorityCountsClaims'
  BY <1>3, <1>5 DEF CancelReader, ReadersPaused, TryWins, RecheckLive, RecheckEnded
<1>6. ASSUME NEW w \in Waiters, StartLocker(w) \/ TakeAcquired(w) \/ Abandon(w)
      PROVE PriorityCountsClaims'
  BY <1>3, <1>6 DEF StartLocker, TakeAcquired, Abandon
<1>7. ASSUME NEW w \in Waiters, Locker(w) PROVE PriorityCountsClaims'
  BY <1>3, <1>7 DEF Locker, LockerAnnounce, LockerAcquire, CleanupUnlock
<1>8. ASSUME NEW t \in Triers, Drained(t) \/ GiveUpPolling(t) \/ ReportBusy(t)
      PROVE PriorityCountsClaims'
  BY <1>3, <1>8 DEF Drained, GiveUpPolling, ReportBusy
<1>9. ASSUME NEW p \in Lows, LowCall(p) \/ LowFinish(p) \/ LowPoll(p)
      PROVE PriorityCountsClaims'
  BY <1>3, <1>9 DEF LowCall, LowFinish, LowPoll, LowSeesNoPriority, LowGivesUp,
     LowTryRLock, LowRegister, LowDecline, LowDeclineUnlock, LowUnlock, LowUnregister
<1>10. ASSUME NEW s \in Sharers, AcquireShared(s) \/ ReleaseShared(s)
       PROVE PriorityCountsClaims'
  BY <1>3, <1>10 DEF AcquireShared, ReleaseShared
<1>11. ASSUME NEW c \in Callers, EndContext(c) PROVE PriorityCountsClaims'
  BY <1>3, <1>11 DEF EndContext
<1>12. CASE UNCHANGED vars
  BY <1>3, <1>12 DEF vars
<1> QED
  BY <1>1, <1>2, <1>4, <1>5, <1>6, <1>7, <1>8, <1>9, <1>10, <1>11, <1>12
  DEF Next, WaitCall, TryCall, ClaimStep

\* With no priority counted there is no claim in progress.
LEMMA NoPriorityNoClaim ==
    TypeOK /\ PriorityCountsClaims /\ priority = 0 => Claiming = {}
<1> SUFFICES ASSUME TypeOK, PriorityCountsClaims, priority = 0 PROVE Claiming = {}
  OBVIOUS
<1>1. IsFiniteSet(Claiming)
  BY CallersFinite, FS_Subset DEF Claiming
<1> QED
  BY <1>1, FS_EmptySet DEF PriorityCountsClaims

\* Every step keeps the types.
LEMMA StepType == TypeOK /\ PriorityCountsClaims /\ [Next]_vars => TypeOK'
<1> SUFFICES ASSUME TypeOK, PriorityCountsClaims, [Next]_vars PROVE TypeOK'
  OBVIOUS
<1> USE DEF TypeOK, mutexVars, Goto, ClaimPc, LowPc, Unlock, RUnlock, Claimants, Callers
<1>1. ASSUME NEW c \in Callers, EndContext(c) PROVE TypeOK'
  BY <1>1 DEF EndContext
<1>2. ASSUME NEW c \in Claimants, Claim(c) \/ ReleaseExclusive(c) PROVE TypeOK'
  BY <1>2 DEF Claim, ReleaseExclusive
<1>3. ASSUME NEW c \in Claimants, ClaimStep(c) PROVE TypeOK'
  <2>1. CASE EndPriority(c)
    <3>1. c \in Claiming
      BY <2>1 DEF EndPriority, Claiming
    <3>2. priority > 0
      BY <3>1, NoPriorityNoClaim
    <3> QED
      BY <2>1, <3>2 DEF EndPriority
  <2> QED
    BY <1>3, <2>1 DEF ClaimStep, CancelReader, ReadersPaused, TryWins, RecheckLive,
       RecheckEnded
<1>4. ASSUME NEW w \in Waiters, StartLocker(w) \/ TakeAcquired(w) \/ Abandon(w)
      PROVE TypeOK'
  BY <1>4 DEF StartLocker, TakeAcquired, Abandon
<1>5. ASSUME NEW w \in Waiters, Locker(w) PROVE TypeOK'
  BY <1>5 DEF Locker, LockerAnnounce, LockerAcquire, CleanupUnlock
<1>6. ASSUME NEW t \in Triers, Drained(t) \/ GiveUpPolling(t) \/ ReportBusy(t)
      PROVE TypeOK'
  BY <1>6 DEF Drained, GiveUpPolling, ReportBusy
<1>7. ASSUME NEW p \in Lows, LowCall(p) \/ LowFinish(p) PROVE TypeOK'
  BY <1>7 DEF LowCall, LowFinish
<1>8. ASSUME NEW p \in Lows, LowPoll(p) PROVE TypeOK'
  BY <1>8 DEF LowPoll, LowSeesNoPriority, LowGivesUp, LowTryRLock, LowRegister,
     LowDecline, LowDeclineUnlock, LowUnlock, LowUnregister
<1>9. ASSUME NEW s \in Sharers, AcquireShared(s) \/ ReleaseShared(s) PROVE TypeOK'
  BY <1>9 DEF AcquireShared, ReleaseShared
<1>10. CASE UNCHANGED vars
  BY <1>10 DEF vars
<1> QED
  BY <1>1, <1>2, <1>3, <1>4, <1>5, <1>6, <1>7, <1>8, <1>9, <1>10
  DEF Next, WaitCall, TryCall

\* Leases: the registration outlives the read lock, and a lease registers only
\* when no claim could miss it.
LeaseInv == LowHolds /\ ClaimCovers

LEMMA StepLease ==
    TypeOK /\ PriorityCountsClaims /\ LeaseInv /\ [Next]_vars => LeaseInv'
<1> SUFFICES ASSUME TypeOK, PriorityCountsClaims, LeaseInv, [Next]_vars
             PROVE LeaseInv'
  OBVIOUS
<1> USE KindsDisjoint DEF TypeOK, LeaseInv, LowHolds, ClaimCovers, mutexVars, Goto,
        ClaimPc, LowPc, Unlock, RUnlock, Claimants, Callers
<1>1. ASSUME NEW c \in Callers, EndContext(c) PROVE LeaseInv'
  BY <1>1 DEF EndContext
<1>2. ASSUME NEW c \in Claimants, Claim(c) \/ ReleaseExclusive(c) PROVE LeaseInv'
  BY <1>2 DEF Claim, ReleaseExclusive
<1>3. ASSUME NEW c \in Claimants, CancelReader(c) \/ ReadersPaused(c) PROVE LeaseInv'
  BY <1>3 DEF CancelReader, ReadersPaused
<1>4. ASSUME NEW c \in Claimants,
             TryWins(c) \/ RecheckLive(c) \/ RecheckEnded(c) \/ EndPriority(c)
      PROVE LeaseInv'
  BY <1>4 DEF TryWins, RecheckLive, RecheckEnded, EndPriority
<1>5. ASSUME NEW w \in Waiters, StartLocker(w) \/ TakeAcquired(w) \/ Abandon(w)
      PROVE LeaseInv'
  BY <1>5 DEF StartLocker, TakeAcquired, Abandon
<1>6. ASSUME NEW w \in Waiters, Locker(w) PROVE LeaseInv'
  BY <1>6 DEF Locker, LockerAnnounce, LockerAcquire, CleanupUnlock
<1>7. ASSUME NEW t \in Triers, Drained(t) \/ GiveUpPolling(t) \/ ReportBusy(t)
      PROVE LeaseInv'
  BY <1>7 DEF Drained, GiveUpPolling, ReportBusy
<1>8. ASSUME NEW p \in Lows, LowCall(p) \/ LowFinish(p) PROVE LeaseInv'
  BY <1>8 DEF LowCall, LowFinish
<1>9. ASSUME NEW p \in Lows, LowRegister(p) PROVE LeaseInv'
  <2>1. Claiming = {}
    BY <1>9, NoPriorityNoClaim DEF LowRegister
  <2>2. \A c \in Claimants : pc'[c] \notin ClaimPc
    BY <1>9, <2>1 DEF LowRegister, Claiming
  <2>3. LowHolds'
    BY <1>9 DEF LowRegister
  <2> QED
    BY <2>2, <2>3
<1>10. ASSUME NEW p \in Lows,
              \/ LowSeesNoPriority(p) \/ LowGivesUp(p) \/ LowTryRLock(p) \/ LowDecline(p)
              \/ LowDeclineUnlock(p) \/ LowUnlock(p) \/ LowUnregister(p)
       PROVE LeaseInv'
  BY <1>10 DEF LowSeesNoPriority, LowGivesUp, LowTryRLock, LowDecline,
     LowDeclineUnlock, LowUnlock, LowUnregister
<1>11. ASSUME NEW s \in Sharers, AcquireShared(s) \/ ReleaseShared(s) PROVE LeaseInv'
  BY <1>11 DEF AcquireShared, ReleaseShared
<1>12. CASE UNCHANGED vars
  BY <1>12 DEF vars
<1> QED
  BY <1>1, <1>2, <1>3, <1>4, <1>5, <1>6, <1>7, <1>8, <1>9, <1>10, <1>11, <1>12
  DEF Next, WaitCall, TryCall, ClaimStep, LowPoll

LEMMA Inductive == Spec => []IInv
<1>1. IInv /\ [Next]_vars => IInv'
  BY StepType, StepMutex, StepPriority, StepLease DEF IInv, MutexInv, LeaseInv
<1> QED
  BY <1>1, InitIInv, PTL DEF Spec

-----------------------------------------------------------------------------

\* The program is well typed: each call is at a known place of its entry point.
THEOREM TypeCorrect == Spec => []TypeOK
<1>1. IInv => TypeOK
  BY DEF IInv
<1> QED
  BY <1>1, Inductive, PTL
\* The write lock always has exactly one party that will unlock it.
THEOREM LockIsOwned == Spec => []OneOwner
<1>1. IInv => OneOwner
  BY DEF IInv
<1> QED
  BY <1>1, Inductive, PTL

\* No reader of any kind is inside while a party owns the vault exclusively.
THEOREM ReadersExcluded == Spec => []ExclusiveExcludesReaders
<1>1. IInv => ExclusiveExcludesReaders
  BY DEF IInv
<1> QED
  BY <1>1, Inductive, PTL

\* The priority counter is the number of claims in progress, on every path.
THEOREM PriorityIsExact == Spec => []PriorityCountsClaims
<1>1. IInv => PriorityCountsClaims
  BY DEF IInv
<1> QED
  BY <1>1, Inductive, PTL

\* A claim past pauseReaders has told every working lease to stop.
THEOREM EveryLeaseTold == Spec => []ClaimReachesEveryLease
<1>1. IInv => ClaimReachesEveryLease
  BY DEF IInv, ClaimCovers, ClaimReachesEveryLease, ClaimPc
<1> QED
  BY <1>1, Inductive, PTL

\* Leases are admitted without, and told to stop only with, a claim in progress.
THEOREM LeasesAndClaims == Spec => LeasesRespectClaims
<1> DEFINE Respects ==
      /\ \A p \in low' \ low : Claiming = {}
      /\ \A p \in cancelled' \ cancelled : Claiming # {}
<1>1. IInv /\ [Next]_vars => [Respects]_vars
  <2> SUFFICES ASSUME IInv, Next PROVE Respects
    BY DEF vars
  <2>1. \A p \in low' \ low : Claiming = {}
    <3>1. ASSUME NEW p \in Lows, LowRegister(p) PROVE Claiming = {}
      BY <3>1, NoPriorityNoClaim DEF LowRegister, IInv
    <3>2. CASE \E p \in Lows : LowRegister(p)
      BY <3>1, <3>2
    <3>3. CASE ~ \E p \in Lows : LowRegister(p)
      <4>1. low' \subseteq low
        BY <3>3 DEF Next, WaitCall, TryCall, ClaimStep, Locker, LowPoll, EndContext, Claim,
           CancelReader, ReadersPaused, Drained, GiveUpPolling, TryWins, StartLocker,
           ReportBusy, LockerAnnounce, LockerAcquire, TakeAcquired, Abandon, CleanupUnlock,
           RecheckLive, RecheckEnded, EndPriority, ReleaseExclusive, LowCall,
           LowSeesNoPriority, LowGivesUp, LowTryRLock, LowDecline, LowDeclineUnlock,
           LowFinish, LowUnlock, LowUnregister, AcquireShared, ReleaseShared
      <4> QED
        BY <4>1
    <3> QED
      BY <3>2, <3>3
  <2>2. \A p \in cancelled' \ cancelled : Claiming # {}
    <3>1. ASSUME NEW c \in Claimants, CancelReader(c) PROVE Claiming # {}
      BY <3>1 DEF CancelReader, Claiming, ClaimPc
    <3>2. CASE \E c \in Claimants : CancelReader(c)
      BY <3>1, <3>2
    <3>3. CASE ~ \E c \in Claimants : CancelReader(c)
      <4>1. cancelled' \subseteq cancelled
        BY <3>3 DEF Next, WaitCall, TryCall, ClaimStep, Locker, LowPoll, EndContext, Claim,
           ReadersPaused, Drained, GiveUpPolling, TryWins, StartLocker, Claimants,
           ReportBusy, LockerAnnounce, LockerAcquire, TakeAcquired, Abandon, CleanupUnlock,
           RecheckLive, RecheckEnded, EndPriority, ReleaseExclusive, LowCall,
           LowSeesNoPriority, LowGivesUp, LowTryRLock, LowDecline, LowDeclineUnlock,
           LowRegister, LowFinish, LowUnlock, LowUnregister, AcquireShared, ReleaseShared
      <4> QED
        BY <4>1
    <3> QED
      BY <3>2, <3>3
  <2> QED
    BY <2>1, <2>2
<1> QED
  BY <1>1, Inductive, PTL DEF Spec, LeasesRespectClaims

-----------------------------------------------------------------------------
(* The refinement: every step of the lock is a step of the abstract gate or  *)
(* changes nothing a caller can see.                                         *)

Holding == {c \in Claimants : pc[c] = "holding"}
Sharing == readers \cap Sharers
Leased == {p \in Lows : Inside(p)}
Revoked == {p \in cancelled : Inside(p)}

GateVars == <<Claiming, Holding, Sharing, Leased, Revoked>>

LEMMA InitGate == Init => Gate!Init
BY DEF Init, Gate!Init, Claiming, ClaimPc, Inside, Callers, Claimants

\* While any caller or goroutine owns the lock and is not the holder itself,
\* nobody holds; while nobody owns it, nobody holds.
LEMMA NotHolding ==
    ASSUME IInv,
           \/ writer # "held"
           \/ \E c \in Claimants : pc[c] \in {"checking", "won"}
           \/ \E w \in Waiters : locker[w] = "acquired"
    PROVE  Holding = {}
BY DEF IInv, OneOwner, OwnerCalls, OwnerLockers, OwnerPc, Holding

LEMMA StepGate == IInv /\ [Next]_vars => [Gate!Next]_GateVars
<1> SUFFICES ASSUME IInv, [Next]_vars PROVE Gate!Next \/ UNCHANGED GateVars
  BY DEF GateVars
<1> USE KindsDisjoint DEF GateVars, Holding, Sharing, Leased, Revoked, Claiming, Inside,
        IInv, TypeOK, mutexVars, Goto, ClaimPc, LowPc, Claimants, Callers
<1>1. ASSUME NEW c \in Callers, EndContext(c) PROVE UNCHANGED GateVars
  BY <1>1 DEF EndContext
<1>2. ASSUME NEW c \in Claimants, Claim(c) PROVE Gate!Ask(c)
  BY <1>2 DEF Claim, Gate!Ask
<1>3. ASSUME NEW c \in Claimants, ReleaseExclusive(c) PROVE Gate!Release(c)
  <2>1. Holding = {c}
    BY <1>3 DEF ReleaseExclusive, OneOwner, OwnerCalls, OwnerPc
  <2>2. Holding' = {} /\ UNCHANGED <<Claiming, Leased, Revoked>>
    BY <1>3, <2>1 DEF ReleaseExclusive
  <2>3. Sharing' = Sharing \cup blocked /\ blocked \in SUBSET Sharers
    BY <1>3 DEF ReleaseExclusive, Unlock
  <2> QED
    BY <2>1, <2>2, <2>3 DEF Gate!Release
<1>4. ASSUME NEW c \in Claimants, CancelReader(c) PROVE Gate!Next \/ UNCHANGED GateVars
  <2>1. PICK p \in snap[c] : cancelled' = cancelled \cup {p}
    BY <1>4 DEF CancelReader
  <2>2. c \in Claiming /\ UNCHANGED <<Claiming, Holding, Sharing, Leased>> /\ p \in Lows
    BY <1>4, <2>1 DEF CancelReader
  <2>3. CASE Inside(p)
    <3>1. Revoked' = Revoked \cup {p} /\ p \in Leased
      BY <1>4, <2>1, <2>2, <2>3 DEF CancelReader
    <3>2. Gate!Revoke(p)
      BY <2>2, <3>1 DEF Gate!Revoke
    <3> QED
      BY <2>2, <3>2 DEF Gate!Next
  <2>4. CASE ~Inside(p)
    BY <1>4, <2>1, <2>2, <2>4 DEF CancelReader
  <2> QED
    BY <2>3, <2>4
<1>5. ASSUME NEW c \in Claimants, ReadersPaused(c) \/ TryWins(c) \/ RecheckLive(c)
      PROVE UNCHANGED GateVars
  BY <1>5 DEF ReadersPaused, TryWins, RecheckLive
<1>6. ASSUME NEW c \in Claimants, RecheckEnded(c) PROVE Gate!Enter
  <2>1. Holding = {}
    BY <1>6, NotHolding DEF RecheckEnded
  <2>2. UNCHANGED <<Claiming, Holding, Leased, Revoked>>
    BY <1>6 DEF RecheckEnded
  <2>3. Sharing' = Sharing \cup blocked /\ blocked \in SUBSET Sharers
    BY <1>6 DEF RecheckEnded, Unlock
  <2> QED
    BY <2>1, <2>2, <2>3 DEF Gate!Enter
<1>7. ASSUME NEW c \in Claimants, EndPriority(c) PROVE Gate!Grant(c) \/ Gate!Refuse(c)
  <2>1. CASE pc[c] = "won"
    <3>1. Holding = {}
      BY <2>1, NotHolding
    <3>2. writer = "held"
      BY <2>1 DEF OneOwner, OwnerCalls, OwnerPc
    <3>3. Sharing = {} /\ Leased = {}
      BY <3>2 DEF ExclusiveExcludesReaders, LowHolds
    <3>4. /\ c \in Claiming /\ Claiming' = Claiming \ {c}
          /\ Holding' = Holding \cup {c}
          /\ UNCHANGED <<Sharing, Leased, Revoked>>
      BY <1>7, <2>1 DEF EndPriority
    <3> QED
      BY <3>1, <3>3, <3>4 DEF Gate!Grant
  <2>2. CASE pc[c] = "lost"
    BY <1>7, <2>2 DEF EndPriority, Gate!Refuse
  <2> QED
    BY <1>7, <2>1, <2>2 DEF EndPriority
<1>8. ASSUME NEW w \in Waiters, StartLocker(w) \/ TakeAcquired(w) \/ Abandon(w)
      PROVE UNCHANGED GateVars
  BY <1>8 DEF StartLocker, TakeAcquired, Abandon
<1>9. ASSUME NEW w \in Waiters, LockerAnnounce(w) \/ LockerAcquire(w)
      PROVE UNCHANGED GateVars
  BY <1>9 DEF LockerAnnounce, LockerAcquire
<1>10. ASSUME NEW w \in Waiters, CleanupUnlock(w) PROVE Gate!Enter
  <2>1. Holding = {}
    BY <1>10, NotHolding DEF CleanupUnlock
  <2>2. UNCHANGED <<Claiming, Holding, Leased, Revoked>>
    BY <1>10 DEF CleanupUnlock
  <2>3. Sharing' = Sharing \cup blocked /\ blocked \in SUBSET Sharers
    BY <1>10 DEF CleanupUnlock, Unlock
  <2> QED
    BY <2>1, <2>2, <2>3 DEF Gate!Enter
<1>11. ASSUME NEW t \in Triers, Drained(t) \/ GiveUpPolling(t) \/ ReportBusy(t)
       PROVE UNCHANGED GateVars
  BY <1>11 DEF Drained, GiveUpPolling, ReportBusy
<1>12. ASSUME NEW p \in Lows, LowRegister(p) PROVE Gate!Lease(p)
  <2>1. Claiming = {}
    BY <1>12, NoPriorityNoClaim DEF LowRegister
  <2>2. Holding = {}
    BY <1>12 DEF LowRegister, LowHolds, OneOwner, OwnerCalls, OwnerPc,
       ExclusiveExcludesReaders
  <2>3. UNCHANGED <<Claiming, Holding, Sharing>>
    BY <1>12 DEF LowRegister
  <2>4. Leased' = Leased \cup {p} /\ Revoked' = Revoked
    BY <1>12 DEF LowRegister
  <2> QED
    BY <2>1, <2>2, <2>3, <2>4 DEF Gate!Lease
<1>13. ASSUME NEW p \in Lows, LowUnlock(p) PROVE Gate!Return(p)
  <2>1. UNCHANGED <<Claiming, Holding, Sharing>>
    BY <1>13 DEF LowUnlock, RUnlock
  <2>2. Leased' = Leased \ {p} /\ Revoked' = Revoked \ {p}
    BY <1>13 DEF LowUnlock
  <2> QED
    BY <2>1, <2>2 DEF Gate!Return
<1>14. ASSUME NEW p \in Lows,
              \/ LowCall(p) \/ LowFinish(p) \/ LowSeesNoPriority(p) \/ LowGivesUp(p)
              \/ LowTryRLock(p) \/ LowDecline(p) \/ LowDeclineUnlock(p) \/ LowUnregister(p)
       PROVE UNCHANGED GateVars
  BY <1>14 DEF LowCall, LowFinish, LowSeesNoPriority, LowGivesUp, LowTryRLock, LowDecline,
     LowDeclineUnlock, LowUnregister, RUnlock
<1>15. ASSUME NEW s \in Sharers, AcquireShared(s)
       PROVE Gate!Enter \/ UNCHANGED GateVars
  <2>1. CASE writer = "free"
    <3>1. Holding = {}
      BY <2>1, NotHolding
    <3>2. UNCHANGED <<Claiming, Holding, Leased, Revoked>>
      BY <1>15 DEF AcquireShared
    <3>3. Sharing' = Sharing \cup {s}
      BY <1>15, <2>1 DEF AcquireShared
    <3> QED
      BY <3>1, <3>2, <3>3 DEF Gate!Enter
  <2>2. CASE writer # "free"
    BY <1>15, <2>2 DEF AcquireShared
  <2> QED
    BY <2>1, <2>2
<1>16. ASSUME NEW s \in Sharers, ReleaseShared(s) PROVE Gate!Leave(s)
  <2>1. Sharing' = Sharing \ {s}
    BY <1>16 DEF ReleaseShared, RUnlock
  <2>2. UNCHANGED <<Claiming, Holding, Leased, Revoked>>
    BY <1>16 DEF ReleaseShared
  <2> QED
    BY <2>1, <2>2 DEF Gate!Leave
<1>17. CASE UNCHANGED vars
  BY <1>17 DEF vars
<1> QED
  <2>1. CASE UNCHANGED vars
    BY <1>17, <2>1
  <2>2. CASE \E c \in Callers : EndContext(c)
    BY <1>1, <2>2
  <2>3. CASE \E c \in Claimants : Claim(c) \/ ReleaseExclusive(c)
    BY ONLY <1>2, <1>3, <2>3 DEF Gate!Next
  <2>4. ASSUME NEW c \in Claimants, ClaimStep(c) PROVE Gate!Next \/ UNCHANGED GateVars
    BY ONLY <1>4, <1>5, <1>6, <1>7, <2>4 DEF ClaimStep, Gate!Next
  <2>5. CASE \E w \in Waiters : WaitCall(w) \/ Locker(w)
    BY ONLY <1>8, <1>9, <1>10, <2>4, <2>5 DEF WaitCall, Locker, Gate!Next, Claimants
  <2>6. CASE \E t \in Triers : TryCall(t)
    BY ONLY <1>11, <2>4, <2>6 DEF TryCall, Claimants
  <2>7. CASE \E p \in Lows : LowCall(p) \/ LowFinish(p) \/ LowPoll(p)
    BY ONLY <1>12, <1>13, <1>14, <2>7 DEF LowPoll, Gate!Next
  <2>8. CASE \E s \in Sharers : AcquireShared(s) \/ ReleaseShared(s)
    BY ONLY <1>15, <1>16, <2>8 DEF Gate!Next
  <2> QED
    BY ONLY <2>1, <2>2, <2>3, <2>5, <2>6, <2>7, <2>8, [Next]_vars DEF Next

\* For any callers, the vault lock is an implementation of the vault gate.
THEOREM GateImplemented == Spec => ImplementsGate
<1> USE DEF GateVars, Holding, Sharing, Leased, Revoked
<1>1. Init => Gate!Init
  BY InitGate
<1>2. IInv /\ [Next]_vars => [Gate!Next]_(Gate!vars)
  BY StepGate DEF Gate!vars
<1> QED
  BY <1>1, <1>2, Inductive, PTL DEF Spec, ImplementsGate, Gate!Spec
=============================================================================
