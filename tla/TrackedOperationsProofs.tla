----------------------- MODULE TrackedOperationsProofs -----------------------
(***************************************************************************)
(* Proofs about TrackedOperations for any operations, vaults, jobs and     *)
(* requests. The invariant says, for every place a worker can be at, what  *)
(* the row and the runtime entry of its operation are, which locks and     *)
(* gates it has, and what can no longer begin behind it.                   *)
(***************************************************************************)
EXTENDS TrackedOperations, TLAPS

Before == {"idle", "checked", "admitted", "refused", "using", "claimed", "try", "start"}
Waiting == {"gate", "hold", "poll", "lock", "commit", "cancelled", "activate"}
AtWork == {"verify", "native", "policies", "publish", "delete"}
After == {"release", "forget", "ended"}

\* The row and the entry of an operation follow its worker.
RowsKnown == \A o \in Ops :
    /\ pc[o] \in Before => row[o] = "none" /\ entry[o] = "none"
    /\ pc[o] \in Waiting => row[o] = "queued" /\ entry[o] # "none"
    /\ pc[o] \in AtWork => row[o] = "running" /\ entry[o] # "none"
    /\ pc[o] = "save" => Active(o) /\ entry[o] # "none"
    /\ pc[o] \in After => (Active(o) => o \in unsaved) /\ (o \in unsaved => entry[o] # "none")
    /\ o \in unsaved => pc[o] \in After

\* Which operations come to which place.
KindsKnown == \A o \in Ops :
    /\ pc[o] \in {"checked", "admitted"} => Kind[o] \in Tracked
    /\ pc[o] = "using" => Kind[o] = "backup"
    /\ pc[o] \in {"claimed", "try", "start"} => Kind[o] = "scheduled"
    /\ Kind[o] = "scheduled" => pc[o] \in Claims \cup {"idle", "ended"}
    /\ pc[o] \in {"gate", "hold", "policies"} => Kind[o] = "delete_job"
    /\ pc[o] = "publish" => Kind[o] = "delete_repository"
    /\ pc[o] \in {"poll", "delete"} => Kind[o] \in Deletions
    /\ pc[o] \in {"commit", "cancelled"} => Kind[o] \in Irrevocable

\* A job deletion that holds the definition gate is alone with the job: no admission is
\* at it, and once the poll has found the job idle it stays so.
Holding == {"poll", "lock", "commit", "cancelled", "activate", "verify", "policies", "delete",
            "save", "release"}
Alone == {"lock", "commit", "cancelled", "activate", "verify", "policies", "delete"}
Gated(o) ==
    /\ pc[o] = "using" => o \in readers[JobOf[o]]
    /\ Kind[o] = "delete_job" =>
           /\ pc[o] \in Holding \cup {"hold"} => writer[JobOf[o]] = o
           /\ pc[o] \in Holding => readers[JobOf[o]] = {}
           /\ pc[o] \in Alone => ~JobActive(JobOf[o])
GatesKnown == \A o \in Ops : Gated(o)

\* Work in one vault has that vault's lock; the removal and the scheduled task keep it
\* to their end.
Locked(o) ==
    /\ Kind[o] # "delete_job" =>
           /\ pc[o] \in {"poll", "lock"} => want[o] = {VaultOf[o]}
           /\ pc[o] \in {"commit", "cancelled", "activate"} \cup AtWork => lock[VaultOf[o]] = o
    /\ pc[o] = "start" => lock[VaultOf[o]] = o
LocksKnown == \A o \in Ops : Locked(o)

\* The cancel gate. What cannot be stopped runs only behind a closed gate; until then it
\* ends interrupted.
Cancelled(o) ==
    /\ o \in accepted <=> o \in ended
    /\ o \in accepted => pc[o] \notin Before /\ entry[o] \in {"accepted", "none"}
    /\ Kind[o] \in Irrevocable /\ pc[o] \in {"activate"} \cup AtWork => entry[o] = "closed"
CancelsKnown == \A o \in Ops : Cancelled(o)

\* How far shutdown has come.
StopKnown ==
    /\ stage \in {"joining", "closed"} =>
           /\ \A o \in Ops : pc[o] \notin {"checked", "admitted"}
           /\ \A q \in Requests : request[q] \notin {"waiting", "working"}
    /\ stage = "closed" => \A o \in Ops : ~Worker(o)

IInv ==
    /\ TypeOK /\ RowsKnown /\ KindsKnown /\ GatesKnown /\ LocksKnown /\ CancelsKnown
    /\ StopKnown

\* If every job is deleted by one request only, its job is there until it is gone by it,
\* and what has not passed the closed gate ends interrupted.
OneDeletionPerJob ==
    \A o,
       p \in Ops : Kind[o] = "delete_job" /\ Kind[p] = "delete_job" /\ JobOf[o] = JobOf[p] => o = p
Answered(o) ==
    /\ Kind[o] = "delete_job" /\ pc[o] \in {"checked", "admitted"} \cup Waiting \cup AtWork =>
           JobOf[o] \in jobs
    /\ Kind[o] \in Irrevocable =>
           /\ pc[o] = "save" =>
                  entry[o] = "closed" \/ (row[o] = "queued" /\ result[o] = "interrupted")
           /\ pc[o] \in After =>
                  \/ row[o] \in {"queued", "interrupted"}
                  \/ entry[o] \in {"closed", "none"} /\ o \notin accepted
AnswersKnown == \A o \in Ops : Answered(o)

-----------------------------------------------------------------------------
(* Each part of the invariant is kept by every step.                         *)

\* The maps over the operations, for the proofs that need nothing else of TypeOK.
LEMMA Maps ==
    TypeOK =>
        /\ row \in [Ops -> {"none", "queued", "running", "success", "failed", "interrupted"}]
        /\ pc \in [Ops -> RequestSide \cup Claims \cup
                          {"using", "gate", "hold", "poll", "lock", "commit", "cancelled",
                           "activate", "policies", "publish", "delete", "ended"}]
        /\ entry \in [Ops -> {"none", "idle", "inflight", "accepted", "closed"}]
        /\ result \in [Ops -> {"none", "success", "failed", "interrupted"}]
BY DEF TypeOK

\* The variables stay in their ranges.
LEMMA TypesKept == IInv /\ Next => TypeOK'
<1> SUFFICES ASSUME IInv, Next PROVE TypeOK' OBVIOUS
<1>1. TypeOK /\ KindsKnown BY DEF IInv
<1> USE DEF Goto, Conclude, StatusOfCancel, data, gates, runtime
<1>2. ASSUME NEW o \in Ops, Ask(o) PROVE TypeOK'
  BY <1>1, <1>2, Maps DEF TypeOK, Claims, RequestSide, CloseGate, Ask
<1>3. ASSUME NEW o \in Ops, UseDefinition(o) PROVE TypeOK'
  BY <1>1, <1>3, Maps DEF TypeOK, Claims, RequestSide, CloseGate, UseDefinition
<1>4. ASSUME NEW o \in Ops, ClaimVault(o) PROVE TypeOK'
  BY <1>1, <1>4, Maps DEF TypeOK, Claims, RequestSide, CloseGate, ClaimVault
<1>5. ASSUME NEW o \in Ops, BeginCancel(o) PROVE TypeOK'
  BY <1>1, <1>5, Maps DEF TypeOK, Claims, RequestSide, CloseGate, BeginCancel
<1>6. ASSUME NEW o \in Ops, BeginBackground(o) PROVE TypeOK'
  BY <1>1, <1>6, Maps DEF TypeOK, Claims, RequestSide, CloseGate, BeginBackground
<1>7. ASSUME NEW o \in Ops, Queue(o) PROVE TypeOK'
  <2>1. want' \in [Ops -> SUBSET Vaults]
    BY <1>1, <1>7, RecordsAssumption DEF Queue, TypeOK
  <2>2. /\ row' \in [Ops -> {"none", "queued", "running", "success", "failed", "interrupted"}]
        /\ entry' \in [Ops -> {"none", "idle", "inflight", "accepted", "closed"}]
    BY <1>1, <1>7, Maps DEF Queue
  <2>3. PICK c \in {"refused", "gate", "poll", "lock"} : pc' = [pc EXCEPT ![o] = c]
    BY <1>7 DEF Queue
  <2> QED BY <1>1, <1>7, <2>1, <2>2, <2>3 DEF Queue, TypeOK, RequestSide
<1>8. ASSUME NEW o \in Ops, AdmitBackup(o) PROVE TypeOK'
  <2>1. JobOf[o] \in Jobs /\ VaultOf[o] \in Vaults
    BY <1>1, <1>8, RecordsAssumption DEF AdmitBackup, KindsKnown
  <2>2. /\ readers' \in [Jobs -> SUBSET Ops]
        /\ want' \in [Ops -> SUBSET Vaults]
    BY <1>1, <1>8, <2>1 DEF AdmitBackup, TypeOK
  <2>3. /\ row' \in [Ops -> {"none", "queued", "running", "success", "failed", "interrupted"}]
        /\ entry' \in [Ops -> {"none", "idle", "inflight", "accepted", "closed"}]
        /\ pc'[o] \in {"lock", "refused"} /\ pc' = [pc EXCEPT ![o] = pc'[o]]
    BY <1>1, <1>8, Maps DEF AdmitBackup
  <2> QED BY <1>1, <1>8, <2>2, <2>3 DEF AdmitBackup, TypeOK, RequestSide
<1>9. ASSUME NEW o \in Ops, AnnounceDeletion(o) PROVE TypeOK'
  BY <1>1, <1>9, Maps DEF TypeOK, Claims, RequestSide, CloseGate, AnnounceDeletion
<1>10. ASSUME NEW o \in Ops, HoldDefinition(o) PROVE TypeOK'
  BY <1>1, <1>10, Maps DEF TypeOK, Claims, RequestSide, CloseGate, HoldDefinition
<1>11. ASSUME NEW o \in Ops, JobIdle(o) PROVE TypeOK'
  BY <1>1, <1>11, Maps DEF TypeOK, Claims, RequestSide, CloseGate, LocksOfJob, JobIdle
<1>12. ASSUME NEW o \in Ops, VaultIdle(o) PROVE TypeOK'
  BY <1>1, <1>12, Maps DEF TypeOK, Claims, RequestSide, CloseGate, VaultIdle
<1>13. ASSUME NEW o \in Ops, TakeLock(o) PROVE TypeOK'
  BY <1>1, <1>13, Maps DEF TypeOK, Claims, RequestSide, CloseGate, NextToLock, TakeLock
<1>14. ASSUME NEW o \in Ops, StopWaiting(o) PROVE TypeOK'
  BY <1>1, <1>14, Maps DEF TypeOK, Claims, RequestSide, CloseGate, StopWaiting
<1>15. ASSUME NEW o \in Ops, StartWithoutCancel(o) PROVE TypeOK'
  BY <1>1, <1>15, Maps DEF TypeOK, Claims, RequestSide, CloseGate, StartWithoutCancel
<1>16. ASSUME NEW o \in Ops, AwaitCancel(o) PROVE TypeOK'
  BY <1>1, <1>16, Maps DEF TypeOK, Claims, RequestSide, CloseGate, AwaitCancel
<1>17. ASSUME NEW o \in Ops, Activate(o) PROVE TypeOK'
  BY <1>1, <1>17, Maps DEF TypeOK, Claims, RequestSide, CloseGate, Activate
<1>18. ASSUME NEW o \in Ops, AdmitNative(o) PROVE TypeOK'
  BY <1>1, <1>18, Maps DEF TypeOK, Claims, RequestSide, CloseGate, AdmitNative
<1>19. ASSUME NEW o \in Ops, EndTask(o) PROVE TypeOK'
  BY <1>1, <1>19, Maps DEF TypeOK, Claims, RequestSide, CloseGate, EndTask
<1>20. ASSUME NEW o \in Ops, EndAlteration(o) PROVE TypeOK'
  BY <1>1, <1>20, Maps DEF TypeOK, Claims, RequestSide, CloseGate, EndAlteration
<1>21. ASSUME NEW o \in Ops, VerifyJobDeletion(o) PROVE TypeOK'
  BY <1>1, <1>21, Maps DEF TypeOK, Claims, RequestSide, CloseGate, VerifyJobDeletion
<1>22. ASSUME NEW o \in Ops, DeletePolicies(o) PROVE TypeOK'
  BY <1>1, <1>22, Maps DEF TypeOK, Claims, RequestSide, CloseGate, DeletePolicies
<1>23. ASSUME NEW o \in Ops, DeleteJob(o) PROVE TypeOK'
  <2>1. /\ jobs' \subseteq Jobs /\ targets' \in [Jobs -> SUBSET Vaults]
        /\ vaults' \subseteq Vaults
    BY <1>1, <1>23 DEF DeleteJob, TypeOK
  <2>2. /\ result' \in [Ops -> {"none", "success", "failed", "interrupted"}]
        /\ pc' = [pc EXCEPT ![o] = "save"]
    BY <1>1, <1>23, Maps DEF DeleteJob
  <2> QED BY <1>1, <1>23, <2>1, <2>2 DEF DeleteJob, TypeOK, Claims
<1>24. ASSUME NEW o \in Ops, VerifyRemoval(o) PROVE TypeOK'
  BY <1>1, <1>24, Maps DEF TypeOK, Claims, RequestSide, CloseGate, VerifyRemoval
<1>25. ASSUME NEW o \in Ops, PublishProfile(o) PROVE TypeOK'
  BY <1>1, <1>25, Maps DEF TypeOK, Claims, RequestSide, CloseGate, PublishProfile
<1>26. ASSUME NEW o \in Ops, DeleteVault(o) PROVE TypeOK'
  BY <1>1, <1>26, Maps DEF TypeOK, Claims, RequestSide, CloseGate, DeleteVault
<1>27. ASSUME NEW o \in Ops, Save(o) PROVE TypeOK'
  BY <1>1, <1>27, Maps DEF TypeOK, Claims, RequestSide, CloseGate, Save
<1>28. ASSUME NEW o \in Ops, Release(o) PROVE TypeOK'
  BY <1>1, <1>28, Maps DEF TypeOK, Claims, RequestSide, CloseGate, Release
<1>29. ASSUME NEW o \in Ops, Forget(o) PROVE TypeOK'
  BY <1>1, <1>29, Maps DEF TypeOK, Claims, RequestSide, CloseGate, Forget
<1>30. ASSUME NEW o \in Ops, TakeSlot(o) PROVE TypeOK'
  BY <1>1, <1>30, Maps DEF TypeOK, Claims, RequestSide, CloseGate, TakeSlot
<1>31. ASSUME NEW o \in Ops, TryLock(o) PROVE TypeOK'
  BY <1>1, <1>31, Maps DEF TypeOK, Claims, RequestSide, CloseGate, TryLock
<1>32. ASSUME NEW o \in Ops, StartTask(o) PROVE TypeOK'
  BY <1>1, <1>32, Maps DEF TypeOK, Claims, RequestSide, CloseGate, StartTask
<1>33. ASSUME NEW o \in Ops, AcceptCancel(o) PROVE TypeOK'
  BY <1>1, <1>33, Maps DEF TypeOK, Claims, RequestSide, CloseGate, AcceptCancel
<1>34. ASSUME NEW q \in Requests, Arrive(q) PROVE TypeOK'
  BY <1>1, <1>34, Maps DEF TypeOK, Claims, RequestSide, CloseGate, Arrive
<1>35. ASSUME NEW q \in Requests, LockForRequest(q) PROVE TypeOK'
  BY <1>1, <1>35, Maps DEF TypeOK, Claims, RequestSide, CloseGate, LockForRequest
<1>36. ASSUME NEW q \in Requests, Answer(q) PROVE TypeOK'
  BY <1>1, <1>36, Maps DEF TypeOK, Claims, RequestSide, CloseGate, Answer
<1>37. CASE BeginStop
  BY <1>1, <1>37, Maps DEF TypeOK, Claims, RequestSide, CloseGate, BeginStop
<1>38. CASE CloseListener
  BY <1>1, <1>38, Maps DEF TypeOK, Claims, RequestSide, CloseGate, CloseListener
<1>39. CASE StopProducers
  BY <1>1, <1>39, Maps DEF TypeOK, Claims, RequestSide, CloseGate, StopProducers
<1>40. CASE CloseDatabase
  BY <1>1, <1>40, Maps DEF TypeOK, Claims, RequestSide, CloseGate, CloseDatabase
<1>41. CASE Deadline
  BY <1>1, <1>41, Maps DEF TypeOK, Claims, RequestSide, CloseGate, Deadline
<1> QED
  BY <1>2, <1>3, <1>4, <1>5, <1>6, <1>7, <1>8, <1>9, <1>10, <1>11, <1>12, <1>13, <1>14, <1>15,
     <1>16, <1>17, <1>18, <1>19, <1>20, <1>21, <1>22, <1>23, <1>24, <1>25, <1>26, <1>27, <1>28,
     <1>29, <1>30, <1>31, <1>32, <1>33, <1>34, <1>35, <1>36, <1>37, <1>38, <1>39, <1>40, <1>41
     DEF Next, Step, Shutdown

\* The rows and the entries follow the workers.
LEMMA RowsKept == IInv /\ Next => RowsKnown'
<1> SUFFICES ASSUME IInv, Next PROVE RowsKnown' OBVIOUS
<1>1. TypeOK /\ RowsKnown /\ KindsKnown BY DEF IInv
<1> USE DEF Goto, Conclude, StatusOfCancel, data, gates, runtime
<1>2. ASSUME NEW o \in Ops, Ask(o) PROVE RowsKnown'
  BY <1>1, <1>2, Maps DEF RowsKnown, Active, Before, Waiting, AtWork, After, CloseGate, Ask
<1>3. ASSUME NEW o \in Ops, UseDefinition(o) PROVE RowsKnown'
  BY <1>1, <1>3, Maps DEF RowsKnown, Active, Before, Waiting, AtWork, After, CloseGate,
     UseDefinition
<1>4. ASSUME NEW o \in Ops, ClaimVault(o) PROVE RowsKnown'
  BY <1>1, <1>4, Maps DEF RowsKnown, Active, Before, Waiting, AtWork, After, CloseGate,
     ClaimVault
<1>5. ASSUME NEW o \in Ops, BeginCancel(o) PROVE RowsKnown'
  BY <1>1, <1>5, Maps DEF RowsKnown, Active, Before, Waiting, AtWork, After, CloseGate,
     BeginCancel
<1>6. ASSUME NEW o \in Ops, BeginBackground(o) PROVE RowsKnown'
  BY <1>1, <1>6, Maps DEF RowsKnown, Active, Before, Waiting, AtWork, After, CloseGate,
     BeginBackground
<1>7. ASSUME NEW o \in Ops, Queue(o) PROVE RowsKnown'
  BY <1>1, <1>7, Maps DEF RowsKnown, Active, Before, Waiting, AtWork, After, CloseGate, Queue
<1>8. ASSUME NEW o \in Ops, AdmitBackup(o) PROVE RowsKnown'
  BY <1>1, <1>8, Maps DEF RowsKnown, Active, Before, Waiting, AtWork, After, CloseGate,
     AdmitBackup
<1>9. ASSUME NEW o \in Ops, AnnounceDeletion(o) PROVE RowsKnown'
  BY <1>1, <1>9, Maps DEF RowsKnown, Active, Before, Waiting, AtWork, After, CloseGate,
     AnnounceDeletion
<1>10. ASSUME NEW o \in Ops, HoldDefinition(o) PROVE RowsKnown'
  BY <1>1, <1>10, Maps DEF RowsKnown, Active, Before, Waiting, AtWork, After, CloseGate,
     HoldDefinition
<1>11. ASSUME NEW o \in Ops, JobIdle(o) PROVE RowsKnown'
  BY <1>1, <1>11, Maps DEF RowsKnown, Active, Before, Waiting, AtWork, After, CloseGate, JobIdle
<1>12. ASSUME NEW o \in Ops, VaultIdle(o) PROVE RowsKnown'
  BY <1>1, <1>12, Maps DEF RowsKnown, Active, Before, Waiting, AtWork, After, CloseGate,
     VaultIdle
<1>13. ASSUME NEW o \in Ops, TakeLock(o) PROVE RowsKnown'
  BY <1>1, <1>13, Maps DEF RowsKnown, Active, Before, Waiting, AtWork, After, CloseGate,
     TakeLock
<1>14. ASSUME NEW o \in Ops, StopWaiting(o) PROVE RowsKnown'
  BY <1>1, <1>14, Maps DEF RowsKnown, Active, Before, Waiting, AtWork, After, CloseGate,
     StopWaiting
<1>15. ASSUME NEW o \in Ops, StartWithoutCancel(o) PROVE RowsKnown'
  BY <1>1, <1>15, Maps DEF RowsKnown, Active, Before, Waiting, AtWork, After, CloseGate,
     StartWithoutCancel
<1>16. ASSUME NEW o \in Ops, AwaitCancel(o) PROVE RowsKnown'
  BY <1>1, <1>16, Maps DEF RowsKnown, Active, Before, Waiting, AtWork, After, CloseGate,
     AwaitCancel
<1>17. ASSUME NEW o \in Ops, Activate(o) PROVE RowsKnown'
  BY <1>1, <1>17, Maps DEF RowsKnown, Active, Before, Waiting, AtWork, After, CloseGate,
     Activate
<1>18. ASSUME NEW o \in Ops, AdmitNative(o) PROVE RowsKnown'
  BY <1>1, <1>18, Maps DEF RowsKnown, Active, Before, Waiting, AtWork, After, CloseGate,
     AdmitNative
<1>19. ASSUME NEW o \in Ops, EndTask(o) PROVE RowsKnown'
  BY <1>1, <1>19, Maps DEF RowsKnown, Active, Before, Waiting, AtWork, After, CloseGate, EndTask
<1>20. ASSUME NEW o \in Ops, EndAlteration(o) PROVE RowsKnown'
  BY <1>1, <1>20, Maps DEF RowsKnown, Active, Before, Waiting, AtWork, After, CloseGate,
     EndAlteration
<1>21. ASSUME NEW o \in Ops, VerifyJobDeletion(o) PROVE RowsKnown'
  BY <1>1, <1>21, Maps DEF RowsKnown, Active, Before, Waiting, AtWork, After, CloseGate,
     VerifyJobDeletion
<1>22. ASSUME NEW o \in Ops, DeletePolicies(o) PROVE RowsKnown'
  BY <1>1, <1>22, Maps DEF RowsKnown, Active, Before, Waiting, AtWork, After, CloseGate,
     DeletePolicies
<1>23. ASSUME NEW o \in Ops, DeleteJob(o) PROVE RowsKnown'
  BY <1>1, <1>23, Maps DEF RowsKnown, Active, Before, Waiting, AtWork, After, CloseGate,
     DeleteJob
<1>24. ASSUME NEW o \in Ops, VerifyRemoval(o) PROVE RowsKnown'
  BY <1>1, <1>24, Maps DEF RowsKnown, Active, Before, Waiting, AtWork, After, CloseGate,
     VerifyRemoval
<1>25. ASSUME NEW o \in Ops, PublishProfile(o) PROVE RowsKnown'
  BY <1>1, <1>25, Maps DEF RowsKnown, Active, Before, Waiting, AtWork, After, CloseGate,
     PublishProfile
<1>26. ASSUME NEW o \in Ops, DeleteVault(o) PROVE RowsKnown'
  BY <1>1, <1>26, Maps DEF RowsKnown, Active, Before, Waiting, AtWork, After, CloseGate,
     DeleteVault
<1>27. ASSUME NEW o \in Ops, Save(o) PROVE RowsKnown'
  BY <1>1, <1>27, Maps DEF RowsKnown, Active, Before, Waiting, AtWork, After, CloseGate, Save
<1>28. ASSUME NEW o \in Ops, Release(o) PROVE RowsKnown'
  BY <1>1, <1>28, Maps DEF RowsKnown, Active, Before, Waiting, AtWork, After, CloseGate, Release
<1>29. ASSUME NEW o \in Ops, Forget(o) PROVE RowsKnown'
  BY <1>1, <1>29, Maps DEF RowsKnown, Active, Before, Waiting, AtWork, After, CloseGate, Forget
<1>30. ASSUME NEW o \in Ops, TakeSlot(o) PROVE RowsKnown'
  BY <1>1, <1>30, Maps DEF RowsKnown, Active, Before, Waiting, AtWork, After, CloseGate,
     TakeSlot
<1>31. ASSUME NEW o \in Ops, TryLock(o) PROVE RowsKnown'
  BY <1>1, <1>31, Maps DEF RowsKnown, Active, Before, Waiting, AtWork, After, CloseGate, TryLock
<1>32. ASSUME NEW o \in Ops, StartTask(o) PROVE RowsKnown'
  BY <1>1, <1>32, Maps DEF RowsKnown, Active, Before, Waiting, AtWork, After, CloseGate,
     StartTask
<1>33. ASSUME NEW o \in Ops, AcceptCancel(o) PROVE RowsKnown'
  BY <1>1, <1>33, Maps DEF RowsKnown, Active, Before, Waiting, AtWork, After, CloseGate,
     AcceptCancel
<1>34. ASSUME NEW q \in Requests, Arrive(q) PROVE RowsKnown'
  BY <1>1, <1>34, Maps DEF RowsKnown, Active, Before, Waiting, AtWork, After, CloseGate, Arrive
<1>35. ASSUME NEW q \in Requests, LockForRequest(q) PROVE RowsKnown'
  BY <1>1, <1>35, Maps DEF RowsKnown, Active, Before, Waiting, AtWork, After, CloseGate,
     LockForRequest
<1>36. ASSUME NEW q \in Requests, Answer(q) PROVE RowsKnown'
  BY <1>1, <1>36, Maps DEF RowsKnown, Active, Before, Waiting, AtWork, After, CloseGate, Answer
<1>37. CASE BeginStop
  BY <1>1, <1>37, Maps DEF RowsKnown, Active, Before, Waiting, AtWork, After, CloseGate,
     BeginStop
<1>38. CASE CloseListener
  BY <1>1, <1>38, Maps DEF RowsKnown, Active, Before, Waiting, AtWork, After, CloseGate,
     CloseListener
<1>39. CASE StopProducers
  BY <1>1, <1>39, Maps DEF RowsKnown, Active, Before, Waiting, AtWork, After, CloseGate,
     StopProducers
<1>40. CASE CloseDatabase
  BY <1>1, <1>40, Maps DEF RowsKnown, Active, Before, Waiting, AtWork, After, CloseGate,
     CloseDatabase
<1>41. CASE Deadline
  BY <1>1, <1>41, Maps DEF RowsKnown, Active, Before, Waiting, AtWork, After, CloseGate,
     Deadline
<1> QED
  BY <1>2, <1>3, <1>4, <1>5, <1>6, <1>7, <1>8, <1>9, <1>10, <1>11, <1>12, <1>13, <1>14, <1>15,
     <1>16, <1>17, <1>18, <1>19, <1>20, <1>21, <1>22, <1>23, <1>24, <1>25, <1>26, <1>27, <1>28,
     <1>29, <1>30, <1>31, <1>32, <1>33, <1>34, <1>35, <1>36, <1>37, <1>38, <1>39, <1>40, <1>41
     DEF Next, Step, Shutdown

\* No operation comes to a place that is not its kind's.
LEMMA KindsKept == IInv /\ Next => KindsKnown'
<1> SUFFICES ASSUME IInv, Next PROVE KindsKnown' OBVIOUS
<1>1. TypeOK /\ KindsKnown BY DEF IInv
<1> USE DEF Goto, Conclude, StatusOfCancel, data, gates, runtime
<1>2. ASSUME NEW o \in Ops, Ask(o) PROVE KindsKnown'
  BY <1>1, <1>2, Maps, KindsAssumption DEF KindsKnown, Claims, Kinds, Tracked, Tasks,
     Alterations, Deletions, Irrevocable, Ask
<1>3. ASSUME NEW o \in Ops, UseDefinition(o) PROVE KindsKnown'
  BY <1>1, <1>3, Maps, KindsAssumption DEF KindsKnown, Claims, Kinds, Tracked, Tasks,
     Alterations, Deletions, Irrevocable, UseDefinition
<1>4. ASSUME NEW o \in Ops, ClaimVault(o) PROVE KindsKnown'
  BY <1>1, <1>4, Maps, KindsAssumption DEF KindsKnown, Claims, Kinds, Tracked, Tasks,
     Alterations, Deletions, Irrevocable, ClaimVault
<1>5. ASSUME NEW o \in Ops, BeginCancel(o) PROVE KindsKnown'
  BY <1>1, <1>5, Maps, KindsAssumption DEF KindsKnown, Claims, Kinds, Tracked, Tasks,
     Alterations, Deletions, Irrevocable, BeginCancel
<1>6. ASSUME NEW o \in Ops, BeginBackground(o) PROVE KindsKnown'
  BY <1>1, <1>6, Maps, KindsAssumption DEF KindsKnown, Claims, Kinds, Tracked, Tasks,
     Alterations, Deletions, Irrevocable, BeginBackground
<1>7. ASSUME NEW o \in Ops, Queue(o) PROVE KindsKnown'
  BY <1>1, <1>7, Maps, KindsAssumption DEF KindsKnown, Claims, Kinds, Tracked, Tasks,
     Alterations, Deletions, Irrevocable, Queue
<1>8. ASSUME NEW o \in Ops, AdmitBackup(o) PROVE KindsKnown'
  BY <1>1, <1>8, Maps, KindsAssumption DEF KindsKnown, Claims, Kinds, Tracked, Tasks,
     Alterations, Deletions, Irrevocable, AdmitBackup
<1>9. ASSUME NEW o \in Ops, AnnounceDeletion(o) PROVE KindsKnown'
  BY <1>1, <1>9, Maps, KindsAssumption DEF KindsKnown, Claims, Kinds, Tracked, Tasks,
     Alterations, Deletions, Irrevocable, AnnounceDeletion
<1>10. ASSUME NEW o \in Ops, HoldDefinition(o) PROVE KindsKnown'
  BY <1>1, <1>10, Maps, KindsAssumption DEF KindsKnown, Claims, Kinds, Tracked, Tasks,
     Alterations, Deletions, Irrevocable, HoldDefinition
<1>11. ASSUME NEW o \in Ops, JobIdle(o) PROVE KindsKnown'
  BY <1>1, <1>11, Maps, KindsAssumption DEF KindsKnown, Claims, Kinds, Tracked, Tasks,
     Alterations, Deletions, Irrevocable, JobIdle
<1>12. ASSUME NEW o \in Ops, VaultIdle(o) PROVE KindsKnown'
  BY <1>1, <1>12, Maps, KindsAssumption DEF KindsKnown, Claims, Kinds, Tracked, Tasks,
     Alterations, Deletions, Irrevocable, VaultIdle
<1>13. ASSUME NEW o \in Ops, TakeLock(o) PROVE KindsKnown'
  BY <1>1, <1>13, Maps, KindsAssumption DEF KindsKnown, Claims, Kinds, Tracked, Tasks,
     Alterations, Deletions, Irrevocable, TakeLock
<1>14. ASSUME NEW o \in Ops, StopWaiting(o) PROVE KindsKnown'
  BY <1>1, <1>14, Maps, KindsAssumption DEF KindsKnown, Claims, Kinds, Tracked, Tasks,
     Alterations, Deletions, Irrevocable, StopWaiting
<1>15. ASSUME NEW o \in Ops, StartWithoutCancel(o) PROVE KindsKnown'
  BY <1>1, <1>15, Maps, KindsAssumption DEF KindsKnown, Claims, Kinds, Tracked, Tasks,
     Alterations, Deletions, Irrevocable, StartWithoutCancel
<1>16. ASSUME NEW o \in Ops, AwaitCancel(o) PROVE KindsKnown'
  BY <1>1, <1>16, Maps, KindsAssumption DEF KindsKnown, Claims, Kinds, Tracked, Tasks,
     Alterations, Deletions, Irrevocable, AwaitCancel
<1>17. ASSUME NEW o \in Ops, Activate(o) PROVE KindsKnown'
  BY <1>1, <1>17, Maps, KindsAssumption DEF KindsKnown, Claims, Kinds, Tracked, Tasks,
     Alterations, Deletions, Irrevocable, Activate
<1>18. ASSUME NEW o \in Ops, AdmitNative(o) PROVE KindsKnown'
  BY <1>1, <1>18, Maps, KindsAssumption DEF KindsKnown, Claims, Kinds, Tracked, Tasks,
     Alterations, Deletions, Irrevocable, AdmitNative
<1>19. ASSUME NEW o \in Ops, EndTask(o) PROVE KindsKnown'
  BY <1>1, <1>19, Maps, KindsAssumption DEF KindsKnown, Claims, Kinds, Tracked, Tasks,
     Alterations, Deletions, Irrevocable, EndTask
<1>20. ASSUME NEW o \in Ops, EndAlteration(o) PROVE KindsKnown'
  BY <1>1, <1>20, Maps, KindsAssumption DEF KindsKnown, Claims, Kinds, Tracked, Tasks,
     Alterations, Deletions, Irrevocable, EndAlteration
<1>21. ASSUME NEW o \in Ops, VerifyJobDeletion(o) PROVE KindsKnown'
  BY <1>1, <1>21, Maps, KindsAssumption DEF KindsKnown, Claims, Kinds, Tracked, Tasks,
     Alterations, Deletions, Irrevocable, VerifyJobDeletion
<1>22. ASSUME NEW o \in Ops, DeletePolicies(o) PROVE KindsKnown'
  BY <1>1, <1>22, Maps, KindsAssumption DEF KindsKnown, Claims, Kinds, Tracked, Tasks,
     Alterations, Deletions, Irrevocable, DeletePolicies
<1>23. ASSUME NEW o \in Ops, DeleteJob(o) PROVE KindsKnown'
  BY <1>1, <1>23, Maps, KindsAssumption DEF KindsKnown, Claims, Kinds, Tracked, Tasks,
     Alterations, Deletions, Irrevocable, DeleteJob
<1>24. ASSUME NEW o \in Ops, VerifyRemoval(o) PROVE KindsKnown'
  BY <1>1, <1>24, Maps, KindsAssumption DEF KindsKnown, Claims, Kinds, Tracked, Tasks,
     Alterations, Deletions, Irrevocable, VerifyRemoval
<1>25. ASSUME NEW o \in Ops, PublishProfile(o) PROVE KindsKnown'
  BY <1>1, <1>25, Maps, KindsAssumption DEF KindsKnown, Claims, Kinds, Tracked, Tasks,
     Alterations, Deletions, Irrevocable, PublishProfile
<1>26. ASSUME NEW o \in Ops, DeleteVault(o) PROVE KindsKnown'
  BY <1>1, <1>26, Maps, KindsAssumption DEF KindsKnown, Claims, Kinds, Tracked, Tasks,
     Alterations, Deletions, Irrevocable, DeleteVault
<1>27. ASSUME NEW o \in Ops, Save(o) PROVE KindsKnown'
  BY <1>1, <1>27, Maps, KindsAssumption DEF KindsKnown, Claims, Kinds, Tracked, Tasks,
     Alterations, Deletions, Irrevocable, Save
<1>28. ASSUME NEW o \in Ops, Release(o) PROVE KindsKnown'
  BY <1>1, <1>28, Maps, KindsAssumption DEF KindsKnown, Claims, Kinds, Tracked, Tasks,
     Alterations, Deletions, Irrevocable, Release
<1>29. ASSUME NEW o \in Ops, Forget(o) PROVE KindsKnown'
  BY <1>1, <1>29, Maps, KindsAssumption DEF KindsKnown, Claims, Kinds, Tracked, Tasks,
     Alterations, Deletions, Irrevocable, Forget
<1>30. ASSUME NEW o \in Ops, TakeSlot(o) PROVE KindsKnown'
  BY <1>1, <1>30, Maps, KindsAssumption DEF KindsKnown, Claims, Kinds, Tracked, Tasks,
     Alterations, Deletions, Irrevocable, TakeSlot
<1>31. ASSUME NEW o \in Ops, TryLock(o) PROVE KindsKnown'
  BY <1>1, <1>31, Maps, KindsAssumption DEF KindsKnown, Claims, Kinds, Tracked, Tasks,
     Alterations, Deletions, Irrevocable, TryLock
<1>32. ASSUME NEW o \in Ops, StartTask(o) PROVE KindsKnown'
  BY <1>1, <1>32, Maps, KindsAssumption DEF KindsKnown, Claims, Kinds, Tracked, Tasks,
     Alterations, Deletions, Irrevocable, StartTask
<1>33. ASSUME NEW o \in Ops, AcceptCancel(o) PROVE KindsKnown'
  BY <1>1, <1>33, Maps, KindsAssumption DEF KindsKnown, Claims, Kinds, Tracked, Tasks,
     Alterations, Deletions, Irrevocable, AcceptCancel
<1>34. ASSUME NEW q \in Requests, Arrive(q) PROVE KindsKnown'
  BY <1>1, <1>34, Maps, KindsAssumption DEF KindsKnown, Claims, Kinds, Tracked, Tasks,
     Alterations, Deletions, Irrevocable, Arrive
<1>35. ASSUME NEW q \in Requests, LockForRequest(q) PROVE KindsKnown'
  BY <1>1, <1>35, Maps, KindsAssumption DEF KindsKnown, Claims, Kinds, Tracked, Tasks,
     Alterations, Deletions, Irrevocable, LockForRequest
<1>36. ASSUME NEW q \in Requests, Answer(q) PROVE KindsKnown'
  BY <1>1, <1>36, Maps, KindsAssumption DEF KindsKnown, Claims, Kinds, Tracked, Tasks,
     Alterations, Deletions, Irrevocable, Answer
<1>37. CASE BeginStop
  BY <1>1, <1>37, Maps, KindsAssumption DEF KindsKnown, Claims, Kinds, Tracked, Tasks,
     Alterations, Deletions, Irrevocable, BeginStop
<1>38. CASE CloseListener
  BY <1>1, <1>38, Maps, KindsAssumption DEF KindsKnown, Claims, Kinds, Tracked, Tasks,
     Alterations, Deletions, Irrevocable, CloseListener
<1>39. CASE StopProducers
  BY <1>1, <1>39, Maps, KindsAssumption DEF KindsKnown, Claims, Kinds, Tracked, Tasks,
     Alterations, Deletions, Irrevocable, StopProducers
<1>40. CASE CloseDatabase
  BY <1>1, <1>40, Maps, KindsAssumption DEF KindsKnown, Claims, Kinds, Tracked, Tasks,
     Alterations, Deletions, Irrevocable, CloseDatabase
<1>41. CASE Deadline
  BY <1>1, <1>41, Maps, KindsAssumption DEF KindsKnown, Claims, Kinds, Tracked, Tasks,
     Alterations, Deletions, Irrevocable, Deadline
<1> QED
  BY <1>2, <1>3, <1>4, <1>5, <1>6, <1>7, <1>8, <1>9, <1>10, <1>11, <1>12, <1>13, <1>14, <1>15,
     <1>16, <1>17, <1>18, <1>19, <1>20, <1>21, <1>22, <1>23, <1>24, <1>25, <1>26, <1>27, <1>28,
     <1>29, <1>30, <1>31, <1>32, <1>33, <1>34, <1>35, <1>36, <1>37, <1>38, <1>39, <1>40, <1>41
     DEF Next, Step, Shutdown

\* A step of one operation leaves the others where they are.
OpStep(o) == Ask(o) \/ UseDefinition(o) \/ ClaimVault(o) \/ BeginCancel(o) \/ Step(o)
LEMMA OnlyOwn ==
    ASSUME TypeOK, NEW o \in Ops, OpStep(o), NEW p \in Ops, p # o
    PROVE  /\ pc'[p] = pc[p] /\ row'[p] = row[p] /\ entry'[p] = entry[p]
           /\ result'[p] = result[p] /\ want'[p] = want[p]
           /\ p \in accepted' <=> p \in accepted
           /\ p \in ended' <=> p \in ended
<1> USE DEF Goto, Conclude, data, gates, runtime, CloseGate
<1>1. want \in [Ops -> SUBSET Vaults] BY DEF TypeOK
<1>2. CASE Ask(o) \/ UseDefinition(o) \/ ClaimVault(o) \/ BeginCancel(o) \/ BeginBackground(o)
           \/ Queue(o) \/ AdmitBackup(o)
  BY <1>1, <1>2, Maps DEF Ask, UseDefinition, ClaimVault, BeginCancel, BeginBackground, Queue,
     AdmitBackup
<1>3. CASE AnnounceDeletion(o) \/ HoldDefinition(o) \/ JobIdle(o) \/ VaultIdle(o) \/ TakeLock(o)
           \/ StopWaiting(o)
  BY <1>1, <1>3, Maps DEF AnnounceDeletion, HoldDefinition, JobIdle, VaultIdle, TakeLock,
     StopWaiting
<1>4. CASE StartWithoutCancel(o) \/ AwaitCancel(o) \/ Activate(o) \/ AdmitNative(o)
           \/ EndTask(o) \/ EndAlteration(o)
  BY <1>1, <1>4, Maps DEF StartWithoutCancel, AwaitCancel, Activate, AdmitNative, EndTask,
     EndAlteration
<1>5. CASE VerifyJobDeletion(o) \/ DeletePolicies(o) \/ DeleteJob(o) \/ VerifyRemoval(o)
           \/ PublishProfile(o) \/ DeleteVault(o)
  BY <1>1, <1>5, Maps DEF VerifyJobDeletion, DeletePolicies, DeleteJob, VerifyRemoval,
     PublishProfile, DeleteVault
<1>6. CASE Save(o) \/ Release(o) \/ Forget(o) \/ TakeSlot(o) \/ TryLock(o) \/ StartTask(o)
           \/ AcceptCancel(o)
  BY <1>1, <1>6, Maps DEF Save, Release, Forget, TakeSlot, TryLock, StartTask, AcceptCancel
<1> QED BY <1>2, <1>3, <1>4, <1>5, <1>6 DEF OpStep, Step

\* Every other step leaves all of them where they are.
LEMMA NobodysStep ==
    ASSUME Next
    PROVE  (\E o \in Ops : OpStep(o)) \/ UNCHANGED <<pc, row, entry, result, want, ended,
       accepted>>
<1> USE DEF runtime
<1>1. ASSUME NEW q \in Requests, Arrive(q) \/ LockForRequest(q) \/ Answer(q)
      PROVE  UNCHANGED <<pc, row, entry, result, want, ended, accepted>>
  BY <1>1 DEF Arrive, LockForRequest, Answer
<1>2. BeginStop \/ Deadline \/ Shutdown => UNCHANGED <<pc, row, entry, result, want, ended,
   accepted>>
  BY DEF BeginStop, Deadline, Shutdown, CloseListener, StopProducers, CloseDatabase
<1> QED BY <1>1, <1>2 DEF Next, OpStep

\* Only the admission of a backup brings new work to a job.
LEMMA JobWork ==
    ASSUME IInv, Next, NEW j \in Jobs, JobActive(j)'
    PROVE  JobActive(j) \/ \E o \in Ops : AdmitBackup(o) /\ JobOf[o] = j
<1>1. PICK r \in Ops : JobOf[r] = j /\ Kind[r] # "delete_job" /\ Active(r)' BY DEF JobActive
<1>2. Kind[r] = "backup" BY <1>1, RecordsAssumption
<1>3. TypeOK /\ RowsKnown /\ KindsKnown BY DEF IInv
<1>4. ASSUME ~Active(r) PROVE AdmitBackup(r)
  <2>1. row'[r] # row[r] BY <1>1, <1>4 DEF Active
  <2>2. OpStep(r) BY <1>3, <2>1, OnlyOwn, NobodysStep
  <2>3. /\ ~Queue(r) /\ ~StartTask(r)
    BY <1>2, <1>3 DEF KindsKnown, Tracked, Tasks, Alterations, Deletions, Queue, StartTask
  <2>4. ~Activate(r) BY <1>3, <1>4 DEF RowsKnown, Waiting, Active, Activate
  <2>5. ~Save(r) BY <1>1, <1>3, <2>1, Maps DEF Save, Active
  <2>6. AdmitBackup(r) \/ Queue(r) \/ StartTask(r) \/ Activate(r) \/ Save(r) \/ row' = row
    BY <2>2 DEF OpStep, Step, Ask, UseDefinition, ClaimVault, BeginCancel, BeginBackground,
       AnnounceDeletion, HoldDefinition, JobIdle, VaultIdle, TakeLock, StopWaiting,
       StartWithoutCancel, AwaitCancel, AdmitNative, EndTask, EndAlteration, VerifyJobDeletion,
       DeletePolicies, DeleteJob, VerifyRemoval, PublishProfile, DeleteVault, Release, Forget,
       TakeSlot, TryLock, AcceptCancel
  <2> QED BY <2>1, <2>3, <2>4, <2>5, <2>6
<1> QED BY <1>1, <1>4 DEF JobActive

\* Shutdown waits for whom it says it waits for.
LEMMA StopKept == IInv /\ Next => StopKnown'
<1> SUFFICES ASSUME IInv, Next PROVE StopKnown' OBVIOUS
<1>1. TypeOK /\ StopKnown BY DEF IInv
<1> USE DEF Goto, Conclude, StatusOfCancel, data, gates, runtime
<1>2. ASSUME NEW o \in Ops, Ask(o) PROVE StopKnown'
  BY <1>1, <1>2, Maps DEF StopKnown, Worker, RequestSide, Ask
<1>3. ASSUME NEW o \in Ops, UseDefinition(o) PROVE StopKnown'
  BY <1>1, <1>3, Maps DEF StopKnown, Worker, RequestSide, UseDefinition
<1>4. ASSUME NEW o \in Ops, ClaimVault(o) PROVE StopKnown'
  BY <1>1, <1>4, Maps DEF StopKnown, Worker, RequestSide, ClaimVault
<1>5. ASSUME NEW o \in Ops, BeginCancel(o) PROVE StopKnown'
  BY <1>1, <1>5, Maps DEF StopKnown, Worker, RequestSide, BeginCancel
<1>6. ASSUME NEW o \in Ops, BeginBackground(o) PROVE StopKnown'
  BY <1>1, <1>6, Maps DEF StopKnown, Worker, RequestSide, BeginBackground
<1>7. ASSUME NEW o \in Ops, Queue(o) PROVE StopKnown'
  BY <1>1, <1>7, Maps DEF StopKnown, Worker, RequestSide, Queue
<1>8. ASSUME NEW o \in Ops, AdmitBackup(o) PROVE StopKnown'
  BY <1>1, <1>8, Maps DEF StopKnown, Worker, RequestSide, AdmitBackup
<1>9. ASSUME NEW o \in Ops, AnnounceDeletion(o) PROVE StopKnown'
  BY <1>1, <1>9, Maps DEF StopKnown, Worker, RequestSide, AnnounceDeletion
<1>10. ASSUME NEW o \in Ops, HoldDefinition(o) PROVE StopKnown'
  BY <1>1, <1>10, Maps DEF StopKnown, Worker, RequestSide, HoldDefinition
<1>11. ASSUME NEW o \in Ops, JobIdle(o) PROVE StopKnown'
  BY <1>1, <1>11, Maps DEF StopKnown, Worker, RequestSide, JobIdle
<1>12. ASSUME NEW o \in Ops, VaultIdle(o) PROVE StopKnown'
  BY <1>1, <1>12, Maps DEF StopKnown, Worker, RequestSide, VaultIdle
<1>13. ASSUME NEW o \in Ops, TakeLock(o) PROVE StopKnown'
  BY <1>1, <1>13, Maps DEF StopKnown, Worker, RequestSide, TakeLock
<1>14. ASSUME NEW o \in Ops, StopWaiting(o) PROVE StopKnown'
  BY <1>1, <1>14, Maps DEF StopKnown, Worker, RequestSide, StopWaiting
<1>15. ASSUME NEW o \in Ops, StartWithoutCancel(o) PROVE StopKnown'
  BY <1>1, <1>15, Maps DEF StopKnown, Worker, RequestSide, StartWithoutCancel
<1>16. ASSUME NEW o \in Ops, AwaitCancel(o) PROVE StopKnown'
  BY <1>1, <1>16, Maps DEF StopKnown, Worker, RequestSide, AwaitCancel
<1>17. ASSUME NEW o \in Ops, Activate(o) PROVE StopKnown'
  BY <1>1, <1>17, Maps DEF StopKnown, Worker, RequestSide, Activate
<1>18. ASSUME NEW o \in Ops, AdmitNative(o) PROVE StopKnown'
  BY <1>1, <1>18, Maps DEF StopKnown, Worker, RequestSide, AdmitNative
<1>19. ASSUME NEW o \in Ops, EndTask(o) PROVE StopKnown'
  BY <1>1, <1>19, Maps DEF StopKnown, Worker, RequestSide, EndTask
<1>20. ASSUME NEW o \in Ops, EndAlteration(o) PROVE StopKnown'
  BY <1>1, <1>20, Maps DEF StopKnown, Worker, RequestSide, EndAlteration
<1>21. ASSUME NEW o \in Ops, VerifyJobDeletion(o) PROVE StopKnown'
  BY <1>1, <1>21, Maps DEF StopKnown, Worker, RequestSide, VerifyJobDeletion
<1>22. ASSUME NEW o \in Ops, DeletePolicies(o) PROVE StopKnown'
  BY <1>1, <1>22, Maps DEF StopKnown, Worker, RequestSide, DeletePolicies
<1>23. ASSUME NEW o \in Ops, DeleteJob(o) PROVE StopKnown'
  BY <1>1, <1>23, Maps DEF StopKnown, Worker, RequestSide, DeleteJob
<1>24. ASSUME NEW o \in Ops, VerifyRemoval(o) PROVE StopKnown'
  BY <1>1, <1>24, Maps DEF StopKnown, Worker, RequestSide, VerifyRemoval
<1>25. ASSUME NEW o \in Ops, PublishProfile(o) PROVE StopKnown'
  BY <1>1, <1>25, Maps DEF StopKnown, Worker, RequestSide, PublishProfile
<1>26. ASSUME NEW o \in Ops, DeleteVault(o) PROVE StopKnown'
  BY <1>1, <1>26, Maps DEF StopKnown, Worker, RequestSide, DeleteVault
<1>27. ASSUME NEW o \in Ops, Save(o) PROVE StopKnown'
  BY <1>1, <1>27, Maps DEF StopKnown, Worker, RequestSide, Save
<1>28. ASSUME NEW o \in Ops, Release(o) PROVE StopKnown'
  BY <1>1, <1>28, Maps DEF StopKnown, Worker, RequestSide, Release
<1>29. ASSUME NEW o \in Ops, Forget(o) PROVE StopKnown'
  BY <1>1, <1>29, Maps DEF StopKnown, Worker, RequestSide, Forget
<1>30. ASSUME NEW o \in Ops, TakeSlot(o) PROVE StopKnown'
  BY <1>1, <1>30, Maps DEF StopKnown, Worker, RequestSide, TakeSlot
<1>31. ASSUME NEW o \in Ops, TryLock(o) PROVE StopKnown'
  BY <1>1, <1>31, Maps DEF StopKnown, Worker, RequestSide, TryLock
<1>32. ASSUME NEW o \in Ops, StartTask(o) PROVE StopKnown'
  BY <1>1, <1>32, Maps DEF StopKnown, Worker, RequestSide, StartTask
<1>33. ASSUME NEW o \in Ops, AcceptCancel(o) PROVE StopKnown'
  BY <1>1, <1>33, Maps DEF StopKnown, Worker, RequestSide, AcceptCancel
<1>34. ASSUME NEW q \in Requests, Arrive(q) PROVE StopKnown'
  BY <1>1, <1>34, Maps DEF StopKnown, Worker, RequestSide, Arrive
<1>35. ASSUME NEW q \in Requests, LockForRequest(q) PROVE StopKnown'
  BY <1>1, <1>35, Maps DEF StopKnown, Worker, RequestSide, LockForRequest
<1>36. ASSUME NEW q \in Requests, Answer(q) PROVE StopKnown'
  BY <1>1, <1>36, Maps DEF StopKnown, Worker, RequestSide, Answer
<1>37. CASE BeginStop
  BY <1>1, <1>37, Maps DEF StopKnown, Worker, RequestSide, BeginStop
<1>38. CASE CloseListener
  BY <1>1, <1>38, Maps DEF StopKnown, Worker, RequestSide, CloseListener
<1>39. CASE StopProducers
  BY <1>1, <1>39, Maps DEF StopKnown, Worker, RequestSide, Drained, StopProducers
<1>40. CASE CloseDatabase
  BY <1>1, <1>40, Maps DEF StopKnown, Worker, RequestSide, CloseDatabase
<1>41. CASE Deadline
  BY <1>1, <1>41, Maps DEF StopKnown, Worker, RequestSide, Deadline
<1> QED
  BY <1>2, <1>3, <1>4, <1>5, <1>6, <1>7, <1>8, <1>9, <1>10, <1>11, <1>12, <1>13, <1>14, <1>15,
     <1>16, <1>17, <1>18, <1>19, <1>20, <1>21, <1>22, <1>23, <1>24, <1>25, <1>26, <1>27, <1>28,
     <1>29, <1>30, <1>31, <1>32, <1>33, <1>34, <1>35, <1>36, <1>37, <1>38, <1>39, <1>40, <1>41
     DEF Next, Step, Shutdown

\* Who has a gate or a lock keeps it until the end of its worker.
LEMMA GateKept ==
    ASSUME TypeOK, Next, NEW j \in Jobs, NEW o \in Ops
    PROVE  /\ writer[j] = o => writer'[j] = o \/ Release(o)
           /\ writer[j] = o /\ readers[j] = {} => readers'[j] = {}
           /\ o \in readers[j] => o \in readers'[j] \/ AdmitBackup(o)
<1> USE DEF Goto, Conclude, data, gates, runtime
<1>1. writer \in [Jobs -> Ops \cup {Free}] /\ readers \in [Jobs -> SUBSET Ops] BY DEF TypeOK
<1>2. o # Free BY NamesAssumption
<1>3. ASSUME NEW r \in Ops, UseDefinition(r) \/ AdmitBackup(r) \/ AnnounceDeletion(r)
             \/ Release(r)
      PROVE  /\ writer[j] = o => writer'[j] = o \/ Release(o)
             /\ writer[j] = o /\ readers[j] = {} => readers'[j] = {}
             /\ o \in readers[j] => o \in readers'[j] \/ AdmitBackup(o)
  BY <1>1, <1>2, <1>3, RecordsAssumption DEF UseDefinition, AdmitBackup, AnnounceDeletion,
     Release
<1>4. \/ \E r \in Ops : UseDefinition(r) \/ AdmitBackup(r) \/ AnnounceDeletion(r) \/ Release(r)
      \/ UNCHANGED <<writer, readers>>
  <2>1. ASSUME NEW r \in Ops, OpStep(r), ~UseDefinition(r), ~AdmitBackup(r),
               ~AnnounceDeletion(r), ~Release(r)
        PROVE  UNCHANGED <<writer, readers>>
    BY <2>1 DEF OpStep, Step, Ask, ClaimVault, BeginCancel, BeginBackground, Queue,
       HoldDefinition, JobIdle, VaultIdle, TakeLock, StopWaiting, StartWithoutCancel,
       AwaitCancel, Activate, AdmitNative, EndTask, EndAlteration, VerifyJobDeletion,
       DeletePolicies, DeleteJob, VerifyRemoval, PublishProfile, DeleteVault, Save, Forget,
       TakeSlot, TryLock, StartTask, AcceptCancel
  <2>2. ASSUME NEW q \in Requests, Arrive(q) \/ LockForRequest(q) \/ Answer(q)
        PROVE  UNCHANGED <<writer, readers>>
    BY <2>2 DEF Arrive, LockForRequest, Answer
  <2>3. BeginStop \/ Deadline \/ Shutdown => UNCHANGED <<writer, readers>>
    BY DEF BeginStop, Deadline, Shutdown, CloseListener, StopProducers, CloseDatabase
  <2> QED BY <2>1, <2>2, <2>3 DEF Next, OpStep
<1> QED BY <1>3, <1>4

\* The same for the lock of a vault.
LEMMA LockKept ==
    ASSUME TypeOK, Next, NEW v \in Vaults, NEW o \in Ops, lock[v] = o
    PROVE  lock'[v] = o \/ Release(o)
<1> USE DEF Goto, Conclude, data, gates, runtime
<1>1. lock \in [Vaults -> Ops \cup Requests \cup {Free}] BY DEF TypeOK
<1>2. o # Free /\ o \notin Requests BY NamesAssumption
<1>3. ASSUME NEW r \in Ops, TakeLock(r) \/ TryLock(r) \/ Release(r)
      PROVE  lock'[v] = o \/ Release(o)
  BY <1>1, <1>2, <1>3 DEF TakeLock, TryLock, Release, NextToLock
<1>4. ASSUME NEW q \in Requests, Arrive(q) \/ LockForRequest(q) \/ Answer(q)
      PROVE  lock'[v] = o
  BY <1>1, <1>2, <1>4 DEF Arrive, LockForRequest, Answer
<1>5. ASSUME NEW r \in Ops, OpStep(r), ~TakeLock(r), ~TryLock(r), ~Release(r) PROVE lock' = lock
  BY <1>5 DEF OpStep, Step, Ask, UseDefinition, ClaimVault, BeginCancel, BeginBackground, Queue,
     AdmitBackup, AnnounceDeletion, HoldDefinition, JobIdle, VaultIdle, StopWaiting,
     StartWithoutCancel, AwaitCancel, Activate, AdmitNative, EndTask, EndAlteration,
     VerifyJobDeletion, DeletePolicies, DeleteJob, VerifyRemoval, PublishProfile, DeleteVault,
     Save, Forget, TakeSlot, StartTask, AcceptCancel
<1>6. BeginStop \/ Deadline \/ Shutdown => lock' = lock
  BY DEF BeginStop, Deadline, Shutdown, CloseListener, StopProducers, CloseDatabase
<1> QED BY <1>3, <1>4, <1>5, <1>6 DEF Next, OpStep

\* A job deletion that has the gate stays alone with the job.
LEMMA GatesKept == IInv /\ Next => GatesKnown'
<1> SUFFICES ASSUME IInv, Next, NEW p \in Ops PROVE Gated(p)'
  BY DEF GatesKnown
<1>1. TypeOK /\ RowsKnown /\ KindsKnown /\ GatesKnown /\ Gated(p) BY DEF IInv, GatesKnown
<1>2. JobOf[p] \in Jobs =>
          /\ writer[JobOf[p]] = p => writer'[JobOf[p]] = p \/ Release(p)
          /\ writer[JobOf[p]] = p /\ readers[JobOf[p]] = {} => readers'[JobOf[p]] = {}
          /\ p \in readers[JobOf[p]] => p \in readers'[JobOf[p]] \/ AdmitBackup(p)
  BY <1>1, GateKept
<1>3. /\ Kind[p] = "delete_job" => JobOf[p] \in Jobs
      /\ pc[p] = "using" => Kind[p] = "backup" /\ JobOf[p] \in Jobs
  BY <1>1, RecordsAssumption DEF KindsKnown
<1>4. Kind[p] = "delete_job" /\ pc[p] \in Holding /\ ~JobActive(JobOf[p]) => ~JobActive(JobOf[p])'
  <2> SUFFICES ASSUME Kind[p] = "delete_job", pc[p] \in Holding, ~JobActive(JobOf[p]),
                      JobActive(JobOf[p])'
               PROVE  FALSE OBVIOUS
  <2>1. PICK r \in Ops : AdmitBackup(r) /\ JobOf[r] = JobOf[p] BY <1>3, JobWork
  <2>2. r \in readers[JobOf[r]] BY <1>1, <2>1 DEF GatesKnown, Gated, AdmitBackup
  <2>3. readers[JobOf[p]] = {} BY <1>1 DEF Gated
  <2> QED BY <2>1, <2>2, <2>3
<1>5. ASSUME NEW o \in Ops, OpStep(o), p # o PROVE Gated(p)'
  <2>1. pc'[p] = pc[p] BY <1>1, <1>5, OnlyOwn
  <2>2. ~Release(p) /\ ~AdmitBackup(p)
    <3>1. pc'[p] # pc[p] \/ ~(Release(p) \/ AdmitBackup(p))
      BY <1>1, Maps DEF Release, AdmitBackup, Goto
    <3> QED BY <2>1, <3>1
  <2> QED BY <1>1, <1>2, <1>3, <1>4, <2>1, <2>2 DEF Gated, Holding, Alone
<1>6. CASE UNCHANGED <<pc, row, entry, result, want, ended, accepted>>
  <2>1. pc'[p] = pc[p] BY <1>6
  <2>2. ~Release(p) /\ ~AdmitBackup(p)
    <3>1. pc'[p] # pc[p] \/ ~(Release(p) \/ AdmitBackup(p))
      BY <1>1, Maps DEF Release, AdmitBackup, Goto
    <3> QED BY <2>1, <3>1
  <2> QED BY <1>1, <1>2, <1>3, <1>4, <2>1, <2>2 DEF Gated, Holding, Alone
<1> USE DEF Goto, Conclude, StatusOfCancel, data, gates, runtime
<1>7. CASE Ask(p)
  BY <1>1, <1>2, <1>3, <1>4, <1>7, Maps DEF Gated, Holding, Alone, Ask
<1>8. CASE UseDefinition(p)
  <2>1. Kind[p] = "backup" /\ JobOf[p] \in Jobs BY <1>8, RecordsAssumption DEF UseDefinition
  <2>2. p \in readers'[JobOf[p]] \/ pc'[p] = "refused"
    BY <1>1, <1>8, <2>1, Maps DEF UseDefinition, TypeOK
  <2> QED BY <2>1, <2>2 DEF Gated
<1>9. CASE ClaimVault(p)
  BY <1>1, <1>2, <1>3, <1>4, <1>9, Maps DEF Gated, Holding, Alone, ClaimVault
<1>10. CASE BeginCancel(p)
  BY <1>1, <1>2, <1>3, <1>4, <1>10, Maps DEF Gated, Holding, Alone, BeginCancel
<1>11. CASE BeginBackground(p)
  BY <1>1, <1>2, <1>3, <1>4, <1>11, Maps DEF Gated, Holding, Alone, BeginBackground
<1>12. CASE Queue(p)
  BY <1>1, <1>2, <1>3, <1>4, <1>12, Maps DEF Gated, Holding, Alone, Tracked, Queue
<1>13. CASE AdmitBackup(p)
  BY <1>1, <1>2, <1>3, <1>4, <1>13, Maps DEF Gated, Holding, Alone, AdmitBackup
<1>14. CASE AnnounceDeletion(p)
  <2>1. Kind[p] = "delete_job" /\ JobOf[p] \in Jobs
    BY <1>1, <1>3, <1>14 DEF AnnounceDeletion, KindsKnown
  <2>2. writer'[JobOf[p]] = p /\ pc'[p] = "hold"
    BY <1>1, <1>14, <2>1, Maps DEF AnnounceDeletion, TypeOK
  <2> QED BY <2>1, <2>2 DEF Gated, Holding, Alone
<1>15. CASE HoldDefinition(p)
  BY <1>1, <1>2, <1>3, <1>4, <1>15, Maps DEF Gated, Holding, Alone, GateHeld, HoldDefinition
<1>16. CASE JobIdle(p)
  BY <1>1, <1>2, <1>3, <1>4, <1>16, Maps DEF Gated, Holding, Alone, JobIdle
<1>17. CASE VaultIdle(p)
  BY <1>1, <1>2, <1>3, <1>4, <1>17, Maps DEF Gated, Holding, Alone, VaultIdle
<1>18. CASE TakeLock(p)
  BY <1>1, <1>2, <1>3, <1>4, <1>18, Maps DEF Gated, Holding, Alone, TakeLock
<1>19. CASE StopWaiting(p)
  BY <1>1, <1>2, <1>3, <1>4, <1>19, Maps DEF Gated, Holding, Alone, StopWaiting
<1>20. CASE StartWithoutCancel(p)
  BY <1>1, <1>2, <1>3, <1>4, <1>20, Maps DEF Gated, Holding, Alone, StartWithoutCancel
<1>21. CASE AwaitCancel(p)
  BY <1>1, <1>2, <1>3, <1>4, <1>21, Maps DEF Gated, Holding, Alone, AwaitCancel
<1>22. CASE Activate(p)
  BY <1>1, <1>2, <1>3, <1>4, <1>22, Maps DEF Gated, Holding, Alone, Activate
<1>23. CASE AdmitNative(p)
  BY <1>1, <1>2, <1>3, <1>4, <1>23, Maps DEF Gated, Holding, Alone, Deletions, AdmitNative
<1>24. CASE EndTask(p)
  BY <1>1, <1>2, <1>3, <1>4, <1>24, Maps DEF Gated, Holding, Alone, Irrevocable, Deletions,
     EndTask
<1>25. CASE EndAlteration(p)
  BY <1>1, <1>2, <1>3, <1>4, <1>25, Maps DEF Gated, Holding, Alone, Alterations, EndAlteration
<1>26. CASE VerifyJobDeletion(p)
  BY <1>1, <1>2, <1>3, <1>4, <1>26, Maps DEF Gated, Holding, Alone, VerifyJobDeletion
<1>27. CASE DeletePolicies(p)
  BY <1>1, <1>2, <1>3, <1>4, <1>27, Maps DEF Gated, Holding, Alone, DeletePolicies
<1>28. CASE DeleteJob(p)
  BY <1>1, <1>2, <1>3, <1>4, <1>28, Maps DEF Gated, Holding, Alone, DeleteJob
<1>29. CASE VerifyRemoval(p)
  BY <1>1, <1>2, <1>3, <1>4, <1>29, Maps DEF Gated, Holding, Alone, VerifyRemoval
<1>30. CASE PublishProfile(p)
  BY <1>1, <1>2, <1>3, <1>4, <1>30, Maps DEF Gated, Holding, Alone, KindsKnown, PublishProfile
<1>31. CASE DeleteVault(p)
  BY <1>1, <1>2, <1>3, <1>4, <1>31, Maps DEF Gated, Holding, Alone, DeleteVault
<1>32. CASE Save(p)
  BY <1>1, <1>2, <1>3, <1>4, <1>32, Maps DEF Gated, Holding, Alone, Save
<1>33. CASE Release(p)
  BY <1>1, <1>2, <1>3, <1>4, <1>33, Maps DEF Gated, Holding, Alone, Release
<1>34. CASE Forget(p)
  BY <1>1, <1>2, <1>3, <1>4, <1>34, Maps DEF Gated, Holding, Alone, Forget
<1>35. CASE TakeSlot(p)
  BY <1>1, <1>2, <1>3, <1>4, <1>35, Maps DEF Gated, Holding, Alone, TakeSlot
<1>36. CASE TryLock(p)
  BY <1>1, <1>2, <1>3, <1>4, <1>36, Maps DEF Gated, Holding, Alone, TryLock
<1>37. CASE StartTask(p)
  BY <1>1, <1>2, <1>3, <1>4, <1>37, Maps DEF Gated, Holding, Alone, KindsKnown, StartTask
<1>38. CASE AcceptCancel(p)
  BY <1>1, <1>2, <1>3, <1>4, <1>38, Maps DEF Gated, Holding, Alone, AcceptCancel
<1> QED
  BY NobodysStep, <1>5, <1>6, <1>7, <1>8, <1>9, <1>10, <1>11, <1>12, <1>13, <1>14, <1>15, <1>16,
     <1>17, <1>18, <1>19, <1>20, <1>21, <1>22, <1>23, <1>24, <1>25, <1>26, <1>27, <1>28, <1>29,
     <1>30, <1>31, <1>32, <1>33, <1>34, <1>35, <1>36, <1>37, <1>38 DEF OpStep, Step

\* Who works in a vault has its lock.
LEMMA LocksKept == IInv /\ Next => LocksKnown'
<1> SUFFICES ASSUME IInv, Next, NEW p \in Ops PROVE Locked(p)'
  BY DEF LocksKnown
<1>1. TypeOK /\ KindsKnown /\ LocksKnown /\ Locked(p) BY DEF IInv, LocksKnown
<1>2. VaultOf[p] \in Vaults /\ lock[VaultOf[p]] = p => lock'[VaultOf[p]] = p \/ Release(p)
  BY <1>1, LockKept
<1>3. /\ Kind[p] # "delete_job" => VaultOf[p] \in Vaults
      /\ pc[p] \in {"claimed", "try", "start"} => Kind[p] = "scheduled"
      /\ pc[p] \in {"commit", "cancelled"} => Kind[p] \in Irrevocable
      /\ pc[p] = "poll" => Kind[p] \in Deletions
  BY <1>1, RecordsAssumption DEF KindsKnown
<1>4. /\ want \in [Ops -> SUBSET Vaults] /\ lock \in [Vaults -> Ops \cup Requests \cup {Free}]
      /\ Irrevocable = {"delete", "settings", "delete_job", "delete_repository"}
  BY <1>1 DEF TypeOK, Irrevocable, Alterations, Deletions
<1>5. ASSUME NEW o \in Ops, OpStep(o), p # o PROVE Locked(p)'
  <2>1. pc'[p] = pc[p] /\ want'[p] = want[p] BY <1>1, <1>5, OnlyOwn
  <2>2. ~Release(p)
    <3>1. pc'[p] # pc[p] \/ ~Release(p) BY <1>1, Maps DEF Release, Goto
    <3> QED BY <2>1, <3>1
  <2> QED BY <1>1, <1>2, <1>3, <2>1, <2>2 DEF Locked
<1>6. CASE UNCHANGED <<pc, row, entry, result, want, ended, accepted>>
  <2>1. pc'[p] = pc[p] /\ want'[p] = want[p] BY <1>6
  <2>2. ~Release(p)
    <3>1. pc'[p] # pc[p] \/ ~Release(p) BY <1>1, Maps DEF Release, Goto
    <3> QED BY <2>1, <3>1
  <2> QED BY <1>1, <1>2, <1>3, <2>1, <2>2 DEF Locked
<1> USE DEF Goto, Conclude, StatusOfCancel, data, gates, runtime
<1>7. CASE Ask(p)
  BY <1>1, <1>2, <1>3, <1>4, <1>7, Maps DEF Locked, AtWork, Ask
<1>8. CASE UseDefinition(p)
  BY <1>1, <1>2, <1>3, <1>4, <1>8, Maps DEF Locked, AtWork, UseDefinition
<1>9. CASE ClaimVault(p)
  BY <1>1, <1>2, <1>3, <1>4, <1>9, Maps DEF Locked, AtWork, ClaimVault
<1>10. CASE BeginCancel(p)
  BY <1>1, <1>2, <1>3, <1>4, <1>10, Maps DEF Locked, AtWork, BeginCancel
<1>11. CASE BeginBackground(p)
  BY <1>1, <1>2, <1>3, <1>4, <1>11, Maps DEF Locked, AtWork, BeginBackground
<1>12. CASE Queue(p)
  BY <1>1, <1>2, <1>3, <1>4, <1>12, Maps DEF Locked, AtWork, Queue
<1>13. CASE AdmitBackup(p)
  BY <1>1, <1>2, <1>3, <1>4, <1>13, Maps DEF Locked, AtWork, AdmitBackup
<1>14. CASE AnnounceDeletion(p)
  BY <1>1, <1>2, <1>3, <1>4, <1>14, Maps DEF Locked, AtWork, AnnounceDeletion
<1>15. CASE HoldDefinition(p)
  BY <1>1, <1>2, <1>3, <1>4, <1>15, Maps DEF Locked, AtWork, KindsKnown, HoldDefinition
<1>16. CASE JobIdle(p)
  BY <1>1, <1>2, <1>3, <1>4, <1>16, Maps DEF Locked, AtWork, JobIdle
<1>17. CASE VaultIdle(p)
  BY <1>1, <1>2, <1>3, <1>4, <1>17, Maps DEF Locked, AtWork, VaultIdle
<1>18. CASE TakeLock(p)
  BY <1>1, <1>2, <1>3, <1>4, <1>18, Maps DEF Locked, AtWork, NextToLock, TakeLock
<1>19. CASE StopWaiting(p)
  BY <1>1, <1>2, <1>3, <1>4, <1>19, Maps DEF Locked, AtWork, StopWaiting
<1>20. CASE StartWithoutCancel(p)
  BY <1>1, <1>2, <1>3, <1>4, <1>20, Maps DEF Locked, AtWork, StartWithoutCancel
<1>21. CASE AwaitCancel(p)
  BY <1>1, <1>2, <1>3, <1>4, <1>21, Maps DEF Locked, AtWork, AwaitCancel
<1>22. CASE Activate(p)
  BY <1>1, <1>2, <1>3, <1>4, <1>22, Maps DEF Locked, AtWork, Activate
<1>23. CASE AdmitNative(p)
  BY <1>1, <1>2, <1>3, <1>4, <1>23, Maps DEF Locked, AtWork, AdmitNative
<1>24. CASE EndTask(p)
  BY <1>1, <1>2, <1>3, <1>4, <1>24, Maps DEF Locked, AtWork, EndTask
<1>25. CASE EndAlteration(p)
  BY <1>1, <1>2, <1>3, <1>4, <1>25, Maps DEF Locked, AtWork, EndAlteration
<1>26. CASE VerifyJobDeletion(p)
  BY <1>1, <1>2, <1>3, <1>4, <1>26, Maps DEF Locked, AtWork, VerifyJobDeletion
<1>27. CASE DeletePolicies(p)
  BY <1>1, <1>2, <1>3, <1>4, <1>27, Maps DEF Locked, AtWork, DeletePolicies
<1>28. CASE DeleteJob(p)
  BY <1>1, <1>2, <1>3, <1>4, <1>28, Maps DEF Locked, AtWork, DeleteJob
<1>29. CASE VerifyRemoval(p)
  BY <1>1, <1>2, <1>3, <1>4, <1>29, Maps DEF Locked, AtWork, VerifyRemoval
<1>30. CASE PublishProfile(p)
  BY <1>1, <1>2, <1>3, <1>4, <1>30, Maps DEF Locked, AtWork, PublishProfile
<1>31. CASE DeleteVault(p)
  BY <1>1, <1>2, <1>3, <1>4, <1>31, Maps DEF Locked, AtWork, DeleteVault
<1>32. CASE Save(p)
  BY <1>1, <1>2, <1>3, <1>4, <1>32, Maps DEF Locked, AtWork, Save
<1>33. CASE Release(p)
  BY <1>1, <1>2, <1>3, <1>4, <1>33, Maps DEF Locked, AtWork, Release
<1>34. CASE Forget(p)
  BY <1>1, <1>2, <1>3, <1>4, <1>34, Maps DEF Locked, AtWork, Forget
<1>35. CASE TakeSlot(p)
  BY <1>1, <1>2, <1>3, <1>4, <1>35, Maps DEF Locked, AtWork, TakeSlot
<1>36. CASE TryLock(p)
  BY <1>1, <1>2, <1>3, <1>4, <1>36, Maps DEF Locked, AtWork, TryLock
<1>37. CASE StartTask(p)
  BY <1>1, <1>2, <1>3, <1>4, <1>37, Maps DEF Locked, AtWork, StartTask
<1>38. CASE AcceptCancel(p)
  BY <1>1, <1>2, <1>3, <1>4, <1>38, Maps DEF Locked, AtWork, AcceptCancel
<1> QED
  BY NobodysStep, <1>5, <1>6, <1>7, <1>8, <1>9, <1>10, <1>11, <1>12, <1>13, <1>14, <1>15, <1>16,
     <1>17, <1>18, <1>19, <1>20, <1>21, <1>22, <1>23, <1>24, <1>25, <1>26, <1>27, <1>28, <1>29,
     <1>30, <1>31, <1>32, <1>33, <1>34, <1>35, <1>36, <1>37, <1>38 DEF OpStep, Step

\* Nothing closes the gate behind an accepted cancel.
LEMMA CancelsKept == IInv /\ Next => CancelsKnown'
<1> SUFFICES ASSUME IInv, Next, NEW p \in Ops PROVE Cancelled(p)'
  BY DEF CancelsKnown
<1>1. TypeOK /\ RowsKnown /\ KindsKnown /\ CancelsKnown /\ Cancelled(p)
  BY DEF IInv, CancelsKnown
<1>2. ASSUME NEW o \in Ops, OpStep(o), p # o PROVE Cancelled(p)'
  BY <1>1, <1>2, OnlyOwn DEF Cancelled
<1>3. CASE UNCHANGED <<pc, row, entry, result, want, ended, accepted>>
  BY <1>1, <1>3 DEF Cancelled
<1> USE DEF Goto, Conclude, StatusOfCancel, data, gates, runtime
<1>4. CASE Ask(p)
  BY <1>1, <1>4, Maps DEF Cancelled, Before, AtWork, Ask
<1>5. CASE UseDefinition(p)
  BY <1>1, <1>5, Maps DEF Cancelled, Before, AtWork, UseDefinition
<1>6. CASE ClaimVault(p)
  BY <1>1, <1>6, Maps DEF Cancelled, Before, AtWork, ClaimVault
<1>7. CASE BeginCancel(p)
  BY <1>1, <1>7, Maps DEF Cancelled, Before, AtWork, BeginCancel
<1>8. CASE BeginBackground(p)
  BY <1>1, <1>8, Maps DEF Cancelled, Before, AtWork, BeginBackground
<1>9. CASE Queue(p)
  BY <1>1, <1>9, Maps DEF Cancelled, Before, AtWork, Queue
<1>10. CASE AdmitBackup(p)
  BY <1>1, <1>10, Maps DEF Cancelled, Before, AtWork, AdmitBackup
<1>11. CASE AnnounceDeletion(p)
  BY <1>1, <1>11, Maps DEF Cancelled, Before, AtWork, AnnounceDeletion
<1>12. CASE HoldDefinition(p)
  BY <1>1, <1>12, Maps DEF Cancelled, Before, AtWork, HoldDefinition
<1>13. CASE JobIdle(p)
  BY <1>1, <1>13, Maps DEF Cancelled, Before, AtWork, JobIdle
<1>14. CASE VaultIdle(p)
  BY <1>1, <1>14, Maps DEF Cancelled, Before, AtWork, VaultIdle
<1>15. CASE TakeLock(p)
  BY <1>1, <1>15, Maps DEF Cancelled, Before, AtWork, TakeLock
<1>16. CASE StopWaiting(p)
  BY <1>1, <1>16, Maps DEF Cancelled, Before, AtWork, StopWaiting
<1>17. CASE StartWithoutCancel(p)
  BY <1>1, <1>17, Maps DEF Cancelled, Before, AtWork, StartWithoutCancel
<1>18. CASE AwaitCancel(p)
  BY <1>1, <1>18, Maps DEF Cancelled, Before, AtWork, AwaitCancel
<1>19. CASE Activate(p)
  BY <1>1, <1>19, Maps DEF Cancelled, Before, AtWork, Activate
<1>20. CASE AdmitNative(p)
  BY <1>1, <1>20, Maps DEF Cancelled, Before, AtWork, AdmitNative
<1>21. CASE EndTask(p)
  BY <1>1, <1>21, Maps DEF Cancelled, Before, AtWork, CloseGate, EndTask
<1>22. CASE EndAlteration(p)
  BY <1>1, <1>22, Maps DEF Cancelled, Before, AtWork, EndAlteration
<1>23. CASE VerifyJobDeletion(p)
  BY <1>1, <1>23, Maps DEF Cancelled, Before, AtWork, VerifyJobDeletion
<1>24. CASE DeletePolicies(p)
  BY <1>1, <1>24, Maps DEF Cancelled, Before, AtWork, DeletePolicies
<1>25. CASE DeleteJob(p)
  BY <1>1, <1>25, Maps DEF Cancelled, Before, AtWork, DeleteJob
<1>26. CASE VerifyRemoval(p)
  BY <1>1, <1>26, Maps DEF Cancelled, Before, AtWork, VerifyRemoval
<1>27. CASE PublishProfile(p)
  BY <1>1, <1>27, Maps DEF Cancelled, Before, AtWork, PublishProfile
<1>28. CASE DeleteVault(p)
  BY <1>1, <1>28, Maps DEF Cancelled, Before, AtWork, DeleteVault
<1>29. CASE Save(p)
  BY <1>1, <1>29, Maps DEF Cancelled, Before, AtWork, CloseGate, Save
<1>30. CASE Release(p)
  BY <1>1, <1>30, Maps DEF Cancelled, Before, AtWork, Release
<1>31. CASE Forget(p)
  BY <1>1, <1>31, Maps DEF Cancelled, Before, AtWork, Forget
<1>32. CASE TakeSlot(p)
  BY <1>1, <1>32, Maps DEF Cancelled, Before, AtWork, TakeSlot
<1>33. CASE TryLock(p)
  BY <1>1, <1>33, Maps DEF Cancelled, Before, AtWork, TryLock
<1>34. CASE StartTask(p)
  BY <1>1, <1>34, Maps DEF Cancelled, Before, AtWork, KindsKnown, Irrevocable, Alterations,
     Deletions, StartTask
<1>35. CASE AcceptCancel(p)
  BY <1>1, <1>35, Maps DEF Cancelled, Before, AtWork, RowsKnown, AcceptCancel
<1> QED
  BY NobodysStep, <1>2, <1>3, <1>4, <1>5, <1>6, <1>7, <1>8, <1>9, <1>10, <1>11, <1>12, <1>13,
     <1>14, <1>15, <1>16, <1>17, <1>18, <1>19, <1>20, <1>21, <1>22, <1>23, <1>24, <1>25, <1>26,
     <1>27, <1>28, <1>29, <1>30, <1>31, <1>32, <1>33, <1>34, <1>35 DEF OpStep, Step

\* A job or a vault goes by its deletion.
LEMMA Deleted ==
    ASSUME Next
    PROVE  /\ \A j \in jobs \ jobs' : \E o \in Ops : DeleteJob(o) /\ JobOf[o] = j
           /\ \A v \in vaults \ vaults' : \E o \in Ops : DeleteVault(o) /\ VaultOf[o] = v
<1> USE DEF Goto, Conclude, data, gates, runtime
<1>1. ASSUME NEW o \in Ops, DeleteJob(o)
      PROVE  jobs \ jobs' \subseteq {JobOf[o]} /\ vaults' = vaults
  BY <1>1 DEF DeleteJob
<1>2. ASSUME NEW o \in Ops, DeleteVault(o)
      PROVE  vaults \ vaults' \subseteq {VaultOf[o]} /\ jobs' = jobs
  BY <1>2 DEF DeleteVault
<1>3. ASSUME NEW o \in Ops, OpStep(o), ~DeleteJob(o), ~DeleteVault(o)
      PROVE  jobs' = jobs /\ vaults' = vaults
  BY <1>3 DEF OpStep, Step, Ask, UseDefinition, ClaimVault, BeginCancel, BeginBackground, Queue,
     AdmitBackup, AnnounceDeletion, HoldDefinition, JobIdle, VaultIdle, TakeLock, StopWaiting,
     StartWithoutCancel, AwaitCancel, Activate, AdmitNative, EndTask, EndAlteration,
     VerifyJobDeletion, DeletePolicies, VerifyRemoval, PublishProfile, Save, Release, Forget,
     TakeSlot, TryLock, StartTask, AcceptCancel
<1>4. ASSUME NEW q \in Requests, Arrive(q) \/ LockForRequest(q) \/ Answer(q)
      PROVE  jobs' = jobs /\ vaults' = vaults
  BY <1>4 DEF Arrive, LockForRequest, Answer
<1>5. BeginStop \/ Deadline \/ Shutdown => jobs' = jobs /\ vaults' = vaults
  BY DEF BeginStop, Deadline, Shutdown, CloseListener, StopProducers, CloseDatabase
<1> QED BY <1>1, <1>2, <1>3, <1>4, <1>5 DEF Next, OpStep

\* What was cancelled in time ends interrupted.
LEMMA AnswersKept ==
    ASSUME OneDeletionPerJob
    PROVE  IInv /\ AnswersKnown /\ Next => AnswersKnown'
<1> SUFFICES ASSUME IInv, AnswersKnown, Next, NEW p \in Ops PROVE Answered(p)'
  BY DEF AnswersKnown
<1>1. TypeOK /\ RowsKnown /\ KindsKnown /\ GatesKnown /\ CancelsKnown /\ Answered(p)
  BY DEF IInv, AnswersKnown
<1>2. Kind[p] = "delete_job" /\ JobOf[p] \in jobs => JobOf[p] \in jobs' \/ DeleteJob(p)
  BY Deleted, OneDeletionPerJob DEF OneDeletionPerJob, DeleteJob
<1>3. Irrevocable = {"delete", "settings", "delete_job", "delete_repository"}
  BY DEF Irrevocable, Alterations, Deletions
<1>4. ASSUME NEW o \in Ops, OpStep(o), p # o PROVE Answered(p)'
  <2>1. /\ pc'[p] = pc[p] /\ row'[p] = row[p] /\ entry'[p] = entry[p] /\ result'[p] = result[p]
        /\ p \in accepted' <=> p \in accepted
    BY <1>1, <1>4, OnlyOwn
  <2>2. ~DeleteJob(p)
    <3>1. pc'[p] # pc[p] \/ ~DeleteJob(p) BY <1>1, Maps DEF DeleteJob, Goto, Conclude
    <3> QED BY <2>1, <3>1
  <2> QED BY <1>1, <1>2, <2>1, <2>2 DEF Answered
<1>5. CASE UNCHANGED <<pc, row, entry, result, want, ended, accepted>>
  <2>1. /\ pc'[p] = pc[p] /\ row'[p] = row[p] /\ entry'[p] = entry[p] /\ result'[p] = result[p]
        /\ p \in accepted' <=> p \in accepted
    BY <1>5
  <2>2. ~DeleteJob(p)
    <3>1. pc'[p] # pc[p] \/ ~DeleteJob(p) BY <1>1, Maps DEF DeleteJob, Goto, Conclude
    <3> QED BY <2>1, <3>1
  <2> QED BY <1>1, <1>2, <2>1, <2>2 DEF Answered
<1> USE DEF Goto, Conclude, StatusOfCancel, data, gates, runtime
<1>6. CASE Ask(p)
  BY <1>1, <1>2, <1>3, <1>6, Maps DEF Answered, Waiting, AtWork, After, CloseGate, Ask
<1>7. CASE UseDefinition(p)
  BY <1>1, <1>2, <1>3, <1>7, Maps DEF Answered, Waiting, AtWork, After, CloseGate, UseDefinition
<1>8. CASE ClaimVault(p)
  BY <1>1, <1>2, <1>3, <1>8, Maps DEF Answered, Waiting, AtWork, After, CloseGate, ClaimVault
<1>9. CASE BeginCancel(p)
  BY <1>1, <1>2, <1>3, <1>9, Maps DEF Answered, Waiting, AtWork, After, CloseGate, BeginCancel
<1>10. CASE BeginBackground(p)
  BY <1>1, <1>2, <1>3, <1>10, Maps DEF Answered, Waiting, AtWork, After, CloseGate,
     BeginBackground
<1>11. CASE Queue(p)
  BY <1>1, <1>2, <1>3, <1>11, Maps DEF Answered, Waiting, AtWork, After, CloseGate, Queue
<1>12. CASE AdmitBackup(p)
  BY <1>1, <1>2, <1>3, <1>12, Maps DEF Answered, Waiting, AtWork, After, CloseGate, AdmitBackup
<1>13. CASE AnnounceDeletion(p)
  BY <1>1, <1>2, <1>3, <1>13, Maps DEF Answered, Waiting, AtWork, After, CloseGate,
     AnnounceDeletion
<1>14. CASE HoldDefinition(p)
  BY <1>1, <1>2, <1>3, <1>14, Maps DEF Answered, Waiting, AtWork, After, CloseGate,
     HoldDefinition
<1>15. CASE JobIdle(p)
  BY <1>1, <1>2, <1>3, <1>15, Maps DEF Answered, Waiting, AtWork, After, CloseGate, JobIdle
<1>16. CASE VaultIdle(p)
  BY <1>1, <1>2, <1>3, <1>16, Maps DEF Answered, Waiting, AtWork, After, CloseGate, VaultIdle
<1>17. CASE TakeLock(p)
  BY <1>1, <1>2, <1>3, <1>17, Maps DEF Answered, Waiting, AtWork, After, CloseGate, TakeLock
<1>18. CASE StopWaiting(p)
  BY <1>1, <1>2, <1>3, <1>18, Maps DEF Answered, Waiting, AtWork, After, CloseGate, RowsKnown,
     StopWaiting
<1>19. CASE StartWithoutCancel(p)
  BY <1>1, <1>2, <1>3, <1>19, Maps DEF Answered, Waiting, AtWork, After, CloseGate,
     StartWithoutCancel
<1>20. CASE AwaitCancel(p)
  BY <1>1, <1>2, <1>3, <1>20, Maps DEF Answered, Waiting, AtWork, After, CloseGate, RowsKnown,
     AwaitCancel
<1>21. CASE Activate(p)
  BY <1>1, <1>2, <1>3, <1>21, Maps DEF Answered, Waiting, AtWork, After, CloseGate, Activate
<1>22. CASE AdmitNative(p)
  BY <1>1, <1>2, <1>3, <1>22, Maps DEF Answered, Waiting, AtWork, After, CloseGate,
     CancelsKnown, Cancelled, AdmitNative
<1>23. CASE EndTask(p)
  BY <1>1, <1>2, <1>3, <1>23, Maps DEF Answered, Waiting, AtWork, After, CloseGate, EndTask
<1>24. CASE EndAlteration(p)
  BY <1>1, <1>2, <1>3, <1>24, Maps DEF Answered, Waiting, AtWork, After, CloseGate,
     CancelsKnown, Cancelled, EndAlteration
<1>25. CASE VerifyJobDeletion(p)
  BY <1>1, <1>2, <1>3, <1>25, Maps DEF Answered, Waiting, AtWork, After, CloseGate,
     CancelsKnown, Cancelled, VerifyJobDeletion
<1>26. CASE DeletePolicies(p)
  BY <1>1, <1>2, <1>3, <1>26, Maps DEF Answered, Waiting, AtWork, After, CloseGate,
     CancelsKnown, Cancelled, DeletePolicies
<1>27. CASE DeleteJob(p)
  BY <1>1, <1>2, <1>3, <1>27, Maps DEF Answered, Waiting, AtWork, After, CloseGate,
     CancelsKnown, Cancelled, DeleteJob
<1>28. CASE VerifyRemoval(p)
  BY <1>1, <1>2, <1>3, <1>28, Maps DEF Answered, Waiting, AtWork, After, CloseGate,
     CancelsKnown, Cancelled, VerifyRemoval
<1>29. CASE PublishProfile(p)
  BY <1>1, <1>2, <1>3, <1>29, Maps DEF Answered, Waiting, AtWork, After, CloseGate,
     CancelsKnown, Cancelled, PublishProfile
<1>30. CASE DeleteVault(p)
  BY <1>1, <1>2, <1>3, <1>30, Maps DEF Answered, Waiting, AtWork, After, CloseGate,
     CancelsKnown, Cancelled, DeleteVault
<1>31. CASE Save(p)
  BY <1>1, <1>2, <1>3, <1>31, Maps DEF Answered, Waiting, AtWork, After, CloseGate, RowsKnown,
     CancelsKnown, Cancelled, Active, Save
<1>32. CASE Release(p)
  BY <1>1, <1>2, <1>3, <1>32, Maps DEF Answered, Waiting, AtWork, After, CloseGate, Release
<1>33. CASE Forget(p)
  BY <1>1, <1>2, <1>3, <1>33, Maps DEF Answered, Waiting, AtWork, After, CloseGate, Forget
<1>34. CASE TakeSlot(p)
  BY <1>1, <1>2, <1>3, <1>34, Maps DEF Answered, Waiting, AtWork, After, CloseGate, KindsKnown,
     TakeSlot
<1>35. CASE TryLock(p)
  BY <1>1, <1>2, <1>3, <1>35, Maps DEF Answered, Waiting, AtWork, After, CloseGate, KindsKnown,
     TryLock
<1>36. CASE StartTask(p)
  BY <1>1, <1>2, <1>3, <1>36, Maps DEF Answered, Waiting, AtWork, After, CloseGate, KindsKnown,
     StartTask
<1>37. CASE AcceptCancel(p)
  BY <1>1, <1>2, <1>3, <1>37, Maps DEF Answered, Waiting, AtWork, After, CloseGate, AcceptCancel
<1> QED
  BY NobodysStep, <1>4, <1>5, <1>6, <1>7, <1>8, <1>9, <1>10, <1>11, <1>12, <1>13, <1>14, <1>15,
     <1>16, <1>17, <1>18, <1>19, <1>20, <1>21, <1>22, <1>23, <1>24, <1>25, <1>26, <1>27, <1>28,
     <1>29, <1>30, <1>31, <1>32, <1>33, <1>34, <1>35, <1>36, <1>37 DEF OpStep, Step

-----------------------------------------------------------------------------
(* The theorems.                                                             *)

\* The invariant holds before the first request.
LEMMA InvAtStart == Init => IInv /\ AnswersKnown
<1> SUFFICES ASSUME Init PROVE IInv /\ AnswersKnown OBVIOUS
<1>1. TypeOK BY VaultsAssumption DEF Init, TypeOK, RequestSide
<1>2. RowsKnown /\ KindsKnown
  BY DEF Init, RowsKnown, KindsKnown, Before, Waiting, AtWork, After
<1>3. GatesKnown BY DEF Init, GatesKnown, Gated, Holding, Alone
<1>4. LocksKnown BY DEF Init, LocksKnown, Locked, AtWork
<1>5. CancelsKnown BY DEF Init, CancelsKnown, Cancelled, AtWork
<1>6. StopKnown BY DEF Init, StopKnown
<1>7. AnswersKnown BY DEF Init, AnswersKnown, Answered, Waiting, AtWork, After
<1> QED BY <1>1, <1>2, <1>3, <1>4, <1>5, <1>6, <1>7 DEF IInv

\* A stuttering step keeps it.
LEMMA Stuttering ==
    ASSUME UNCHANGED vars
    PROVE  (IInv => IInv') /\ (AnswersKnown => AnswersKnown')
<1> USE DEF vars, data, gates, runtime
<1>1. (TypeOK => TypeOK') /\ (StopKnown => StopKnown') BY DEF TypeOK, StopKnown, Worker
<1>2. (RowsKnown => RowsKnown') /\ (KindsKnown => KindsKnown')
  BY DEF RowsKnown, KindsKnown, Active
<1>3. GatesKnown => GatesKnown' BY DEF GatesKnown, Gated, JobActive, Active
<1>4. (LocksKnown => LocksKnown') /\ (CancelsKnown => CancelsKnown')
  BY DEF LocksKnown, Locked, CancelsKnown, Cancelled
<1>5. AnswersKnown => AnswersKnown' BY DEF AnswersKnown, Answered
<1> QED BY <1>1, <1>2, <1>3, <1>4, <1>5 DEF IInv

\* Every step of the specification keeps it.
LEMMA InvKept == IInv /\ [Next]_vars => IInv'
BY Stuttering, TypesKept, RowsKept, KindsKept, GatesKept, LocksKept, CancelsKept, StopKept
   DEF IInv

\* So it always holds.
LEMMA AlwaysInv == Spec => []IInv
BY InvAtStart, InvKept, PTL DEF Spec

\* The type invariant.
THEOREM TypeCorrect == Spec => []TypeOK
<1>1. IInv => TypeOK BY DEF IInv
<1> QED BY <1>1, AlwaysInv, PTL

\* However many last writes fail, an active row has its runtime entry and a worker that
\* has everything it took, or that could not save its last status; and the database is
\* closed behind everybody (startTrackedOperation, finishWithCause, shutdownInOrder).
THEOREM UnfinishedOwned == Spec => []UnfinishedIsOwned
<1>1. IInv => UnfinishedIsOwned
  <2> SUFFICES ASSUME IInv PROVE UnfinishedIsOwned OBVIOUS
  <2>1. TypeOK /\ RowsKnown /\ StopKnown BY DEF IInv
  <2>2. ASSUME NEW o \in Ops, Active(o) PROVE entry[o] # "none" /\ (Engaged(o) \/ o \in unsaved)
    <3>1. pc[o] \notin Before BY <2>1, <2>2 DEF RowsKnown, Active
    <3>2. pc[o] \in Waiting \cup AtWork \cup {"save"} \cup After
      BY <2>1, <3>1, Maps DEF Before, Waiting, AtWork, After, RequestSide, Claims
    <3>3. CASE pc[o] \in After BY <2>1, <2>2, <3>3 DEF RowsKnown
    <3>4. CASE pc[o] \notin After
      <4>1. Engaged(o)
        BY <3>2, <3>4 DEF Engaged, Worker, RequestSide, Waiting, AtWork
      <4> QED BY <2>1, <3>2, <3>4, <4>1 DEF RowsKnown
    <3> QED BY <3>3, <3>4
  <2>3. ASSUME stage = "closed", NEW o \in Ops PROVE pc[o] \in Over
    BY <2>1, <2>3 DEF StopKnown, Worker, RequestSide, Over
  <2> QED BY <2>1, <2>2, <2>3 DEF UnfinishedIsOwned, StopKnown
<1> QED BY <1>1, AlwaysInv, PTL

\* What waits or is at work has an active row, or is a scheduled task that has its vault.
LEMMA EngagedIsActive ==
    ASSUME IInv, NEW o \in Ops, Engaged(o)
    PROVE  Active(o) \/ (pc[o] = "start" /\ Kind[o] = "scheduled" /\ lock[VaultOf[o]] = o)
<1>1. TypeOK /\ RowsKnown /\ KindsKnown /\ Locked(o) BY DEF IInv, LocksKnown
<1>2. CASE pc[o] = "start" BY <1>1, <1>2 DEF KindsKnown, Locked
<1>3. CASE pc[o] # "start"
  <2>1. pc[o] \in Waiting \cup AtWork \cup {"save"}
    BY <1>1, <1>3, Maps DEF Engaged, Worker, RequestSide, Waiting, AtWork, Claims
  <2> QED BY <1>1, <2>1 DEF RowsKnown, Active
<1> QED BY <1>2, <1>3

\* From the deletion of a job's first native policy on no backup of the job is anywhere,
\* so the job's own transaction cannot refuse any more (deleteJobInBackground,
\* acquireJobDefinitionUse, JobHasOtherActiveWork).
THEOREM CleanupAlone == Spec => []CleanupNotOvertaken
<1>1. IInv => CleanupNotOvertaken
  <2> SUFFICES ASSUME IInv, NEW o \in Ops,
                      Kind[o] = "delete_job", pc[o] \in {"policies", "delete"}
               PROVE  /\ ~JobActive(JobOf[o])
                      /\ \A r \in Ops : Kind[r] = "backup" /\ JobOf[r] = JobOf[o] =>
                             ~Engaged(r) /\ pc[r] # "using"
    BY DEF CleanupNotOvertaken
  <2>1. ~JobActive(JobOf[o]) /\ readers[JobOf[o]] = {}
    BY DEF IInv, GatesKnown, Gated, Holding, Alone
  <2>2. ASSUME NEW r \in Ops, Kind[r] = "backup", JobOf[r] = JobOf[o]
        PROVE  ~Engaged(r) /\ pc[r] # "using"
    <3>1. pc[r] # "using" BY <2>1, <2>2 DEF IInv, GatesKnown, Gated
    <3>2. ~Active(r) BY <2>1, <2>2 DEF JobActive
    <3> QED BY <2>2, <3>1, <3>2, EngagedIsActive
  <2> QED BY <2>1, <2>2
<1> QED BY <1>1, AlwaysInv, PTL

\* When the row of a vault or a job goes, nothing else waits or works in it
\* (deleteRepository, DeleteJob and the locks held meanwhile).
THEOREM UsedIsKept == Spec => InUseIsKept
<1> DEFINE Kept ==
      /\ \A v \in vaults \ vaults', o \in Ops :
             Engaged(o) /\ Kind[o] # "delete_repository" =>
                 /\ VaultOf[o] # v
                 /\ Kind[o] = "delete_job" => v \notin targets[JobOf[o]]
      /\ \A j \in jobs \ jobs', o \in Ops :
             Engaged(o) /\ JobOf[o] = j => Kind[o] = "delete_job"
<1>1. IInv /\ [Next]_vars => [Kept]_vars
  <2> SUFFICES ASSUME IInv, Next PROVE Kept OBVIOUS
  <2>1. ASSUME NEW v \in vaults \ vaults', NEW o \in Ops, Engaged(o),
               Kind[o] # "delete_repository"
        PROVE  /\ VaultOf[o] # v
               /\ Kind[o] = "delete_job" => v \notin targets[JobOf[o]]
    <3>1. PICK d \in Ops : DeleteVault(d) /\ VaultOf[d] = v BY Deleted
    <3>2. ~VaultActive(v) BY <2>1, <3>1 DEF DeleteVault, Conclude, data
    <3>3. lock[v] = d /\ pc[d] = "delete"
      BY <3>1 DEF IInv, LocksKnown, Locked, DeleteVault, AtWork
    <3>4. CASE Active(o) BY <2>1, <3>2, <3>4 DEF VaultActive
    <3>5. CASE pc[o] = "start" /\ Kind[o] = "scheduled" /\ lock[VaultOf[o]] = o
      BY <3>3, <3>5
    <3> QED BY <2>1, <3>4, <3>5, EngagedIsActive
  <2>2. ASSUME NEW j \in jobs \ jobs', NEW o \in Ops, Engaged(o), JobOf[o] = j
        PROVE  Kind[o] = "delete_job"
    <3>1. PICK d \in Ops : DeleteJob(d) /\ JobOf[d] = j BY <2>2, Deleted
    <3>2. ~JobActive(j) BY <2>2, <3>1 DEF DeleteJob, data
    <3>3. Kind[o] # "scheduled"
      BY <2>2, <3>1, RecordsAssumption DEF DeleteJob
    <3> QED BY <2>2, <3>2, <3>3, EngagedIsActive DEF JobActive
  <2> QED BY <2>1, <2>2
<1> QED BY <1>1, AlwaysInv, PTL DEF Spec, InUseIsKept

\* Work that cannot be stopped once it has started does not start behind a cancel that
\* was answered "accepted" (startWithoutCancel, CloseCancel, Cancel).
NeverStarts ==
    \A o \in accepted : Kind[o] \in Irrevocable =>
        pc[o] \notin {"activate", "verify", "native", "policies", "publish", "delete"}
THEOREM CancelledNeverStarts == Spec => []NeverStarts
<1>1. IInv => NeverStarts
  BY DEF IInv, TypeOK, NeverStarts, CancelsKnown, Cancelled, RowsKnown, Waiting, AtWork
<1> QED BY <1>1, AlwaysInv, PTL

\* And it ends interrupted, not as a failure, where no second deletion of a job can find
\* the job gone (fail, notStarted).
THEOREM AcceptedCancelsHold ==
    ASSUME OneDeletionPerJob
    PROVE  Spec => []AcceptedCancelHolds
<1>1. IInv /\ AnswersKnown /\ [Next]_vars => AnswersKnown'
  BY Stuttering, AnswersKept, OneDeletionPerJob
<1>2. IInv /\ AnswersKnown => AcceptedCancelHolds
  <2> SUFFICES ASSUME IInv, AnswersKnown, NEW o \in accepted, Kind[o] \in Irrevocable
               PROVE  /\ row[o] \in {"queued", "interrupted"}
                      /\ pc[o] \notin {"activate", "verify", "native", "policies", "publish",
                         "delete"}
    BY DEF AcceptedCancelHolds
  <2>1. o \in Ops /\ TypeOK /\ RowsKnown /\ Cancelled(o) /\ Answered(o)
    BY DEF IInv, TypeOK, CancelsKnown, AnswersKnown
  <2>2. pc[o] \notin {"activate"} \cup AtWork
    BY <2>1 DEF Cancelled, RowsKnown, Waiting, AtWork
  <2>3. pc[o] \in {"gate", "hold", "poll", "lock", "commit", "cancelled", "save"} \cup After
    BY <2>1, <2>2, Maps DEF Cancelled, Before, AtWork, After, RequestSide, Claims
  <2>4. row[o] \in {"queued", "interrupted"}
    <3>1. CASE pc[o] \in Waiting BY <2>1, <3>1 DEF RowsKnown
    <3>2. CASE pc[o] = "save" BY <2>1, <3>2 DEF RowsKnown, Cancelled, Answered
    <3>3. CASE pc[o] \in After BY <2>1, <3>3 DEF Answered
    <3> QED BY <2>3, <3>1, <3>2, <3>3 DEF Waiting
  <2> QED BY <2>2, <2>4 DEF AtWork
<1> QED BY <1>1, <1>2, InvAtStart, AlwaysInv, PTL DEF Spec
=============================================================================
