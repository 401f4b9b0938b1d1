---------------------- MODULE BackupCoordinatorProofs ----------------------
(***************************************************************************)
(* Proofs about BackupCoordinator for any finite set of operations, any    *)
(* targets, limits and cancels, with and without failing writes.  The      *)
(* invariant says, for every place an operation can be in (a batch that is *)
(* being admitted, the queue, a run, a cancel, the rows Shutdown took),    *)
(* what its row, its slot, its vault and its entry in the runtime are.     *)
(***************************************************************************)
EXTENDS BackupCoordinator, FiniteSetTheorems, FunctionTheorems, SequenceTheorems, TLAPS

Live == {"queued", "running"}
BeforeWrite == {"activating", "restoring", "persisting"} \cup Executing
Runs == {o \in Operations : stage[o] \in InSlot}

\* The rows an admission has inserted and not yet published or refused.
Pending == IF admit \in {"checking", "publishing", "refusing"} THEN ToSet(batch) ELSE {}

\* The gate, and how far Shutdown has come.
Gates ==
    /\ admit \in {"idle", "writing"} => batch = <<>>
    /\ closed = (shutdown # "no")
    /\ closed => admit = "idle" /\ queue = <<>> /\ ready = {}
    /\ ~closed => drained = {} /\ shutdownHolds = {}
    /\ (finalizer = "none") = (shutdown \in {"no", "unlocking"})
    /\ shutdown = "returned" =>
           /\ dispatcher = "stopped" /\ finalizer = "done"
           /\ \A o \in Operations : stage[o] \notin InRun

\* An operation that is not yet published is known to nobody but its admission.
Untouched(o) ==
    /\ stage[o] = "none" /\ entry[o] = "absent" /\ cancelStage[o] = "none"
    /\ o \notin Queued /\ o \notin drained /\ o \notin cancelRequested
PendingKnown ==
    /\ \A o \in Operations : row[o] = "none" \/ o \in Pending => Untouched(o)
    /\ \A o \in Pending : row[o] = "queued"
    /\ \A o, p \in Pending : TargetOf[o] = TargetOf[p] => o = p
    /\ IsInjective(batch)

\* An operation that waits in the queue, or that Shutdown took out of it, has not run.
QueuedKnown ==
    /\ \A o \in Queued :
           /\ stage[o] = "none"
           /\ row[o] = "queued" \/ (row[o] = "interrupted" /\ cancelStage[o] = "dequeuing")
    /\ \A o \in drained : stage[o] = "none" /\ row[o] \in {"queued", "interrupted"}
    /\ finalizer = "removing" => \A o \in drained : row[o] = "interrupted"

\* A cancel that quarantined its task keeps it from ever running.
CancelsKnown ==
    /\ \A o \in quarantined : o \in cancelRequested /\ stage[o] = "none"
    /\ \A o \in Operations :
           /\ cancelStage[o] # "none" => entry[o] # "idle" /\ o \in cancelRequested
           /\ cancelStage[o] \in {"writing", "dequeuing", "cleaning"} => o \in quarantined
           /\ cancelStage[o] \in {"writing", "dequeuing"} => o \in Queued \/ o \in drained
           /\ cancelStage[o] \in {"dequeuing", "cleaning"} => row[o] = "interrupted"
           /\ cancelStage[o] = "cleaning" => o \in ended /\ o \notin Queued
    /\ \A o \in cancelHolds : cancelStage[o] = "cleaning"
    /\ \A o \in accepted : o \in ended

\* Who was stopped: a context ends only after a request or because of Shutdown, and an
\* operation that can still be cancelled is waiting if it has not been dispatched.
StopsKnown ==
    /\ \A o \in accepted :
           /\ o \in cancelRequested
           /\ stage[o] = "none" => row[o] = "interrupted" \/ o \in drained
    /\ \A o \in Operations :
           /\ taskErr[o] = "ended" => o \in cancelRequested \/ closed
           /\ o \in ended /\ stage[o] # "done" => o \in cancelRequested \/ closed
           /\ stage[o] = "none" /\ (entry[o] = "idle" \/ cancelStage[o] = "entered") =>
                  o \in Queued \/ o \in drained

\* What the row of a run says, and who still answers for a row that has not ended.
RowsKnown == \A o \in Operations :
    /\ stage[o] \in {"activating", "restoring"} => row[o] = "queued"
    /\ stage[o] \in Executing \cup {"persisting"} => row[o] = "running"
    /\ stage[o] \in {"unlocking", "freeing", "removing"} => o \in unwritten
       \/ row[o] \in Terminal
    /\ row[o] \in Live =>
           /\ \/ o \in Pending \/ o \in Queued \/ o \in orphaned \/ o \in unwritten
              \/ o \in drained /\ finalizer \in {"none", "writing"}
              \/ stage[o] \in BeforeWrite
           /\ entry[o] # "absent" \/ o \in Pending \/ o \in orphaned

\* Slots, vaults in use and targets follow the runs.
SlotsKnown ==
    /\ running = Cardinality(Runs)
    /\ \A o, p \in Runs : VaultOf(o) = VaultOf(p) => o = p
    /\ ~closed => \A v \in Vaults : v \in vaultActive <=> \E o \in Runs : VaultOf(o) = v
TargetsKnown ==
    /\ ~closed => \A o \in Queued \cup Runs : active[TargetOf[o]] = o
    /\ admit = "publishing" => \A o \in Pending : active[TargetOf[o]] = None

\* The vault lock has one owner.
ByRun(v) == \E o \in Operations : stage[o] \in Holding /\ VaultOf(o) = v
ByCancel(v) == \E o \in cancelHolds : VaultOf(o) = v
ByReserver(v) == reserver[v] = "acquired"
OneHolder(v) ==
    /\ (waiting[v] = "absent") <=> (reserver[v] = "none")
    /\ (holder[v] = "backup") <=>
           \/ ByRun(v) \/ ByCancel(v) \/ ByReserver(v)
           \/ v \in returning \/ v \in ready \/ v \in shutdownHolds
    /\ ByRun(v) => /\ ~ByCancel(v) /\ ~ByReserver(v) /\ v \notin returning
                   /\ v \notin ready /\ v \notin shutdownHolds
    /\ ByCancel(v) => /\ ~ByReserver(v) /\ v \notin returning
                      /\ v \notin ready /\ v \notin shutdownHolds
    /\ ByReserver(v) => v \notin returning /\ v \notin ready /\ v \notin shutdownHolds
    /\ v \in returning => v \notin ready /\ v \notin shutdownHolds
    /\ v \in ready => v \notin shutdownHolds
HoldersKnown ==
    /\ \A v \in Vaults : OneHolder(v)
    /\ \A o, p \in cancelHolds : VaultOf(o) = VaultOf(p) => o = p

\* A reservation answers a demand, and without failing writes a quarantined task that
\* is still queued has a cancel at work.
DemandKnown ==
    /\ \A v \in ready : \E o \in Queued : VaultOf(o) = v
    /\ ~WriteFailures => \A o \in Queued \cap quarantined : cancelStage[o] \in {"writing",
       "dequeuing"}

IInv ==
    /\ TypeOK /\ Gates /\ PendingKnown /\ QueuedKnown /\ CancelsKnown /\ RowsKnown
    /\ SlotsKnown /\ TargetsKnown /\ HoldersKnown /\ DemandKnown /\ StopsKnown
-----------------------------------------------------------------------------
\* A queue that holds every task once: what it becomes when a task leaves it, and when
\* others are appended.
LEMMA Positions ==
    ASSUME NEW S, NEW q \in Seq(S)
    PROVE  /\ \A i \in 1..Len(q) : q[i] \in S /\ q[i] \in ToSet(q)
           /\ \A x \in ToSet(q) : x \in S /\ \E i \in 1..Len(q) : q[i] = x
           /\ Len(q) \in Nat /\ DOMAIN q = 1..Len(q)
BY ElementOfSeq, LenProperties DEF ToSet

\* In a sequence without repetitions the first position of a value is its only one.
LEMMA FirstPosition ==
    ASSUME NEW S, NEW q \in Seq(S), IsInjective(q), NEW j \in 1..Len(q)
    PROVE  RemoveFirst(q, q[j]) = RemoveAt(q, j)
<1> DEFINE I == {i \in 1..Len(q) : q[i] = q[j]}
<1>1. I = {j} BY Positions DEF IsInjective
<1>2. Min(I) = j BY <1>1, LenProperties DEF Min
<1> QED BY <1>1, <1>2 DEF RemoveFirst, SelectInSeq

\* What stands where after the element at a position is gone.
LEMMA RemoveAtPosition ==
    ASSUME NEW S, NEW q \in Seq(S), NEW j \in 1..Len(q)
    PROVE  /\ RemoveAt(q, j) \in Seq(S)
           /\ Len(RemoveAt(q, j)) = Len(q) - 1
           /\ \A i \in 1..(Len(q) - 1) :
                 RemoveAt(q, j)[i] = IF i < j THEN q[i] ELSE q[i + 1]
<1> DEFINE a == SubSeq(q, 1, j - 1)
           b == SubSeq(q, j + 1, Len(q))
<1>1. Len(q) \in Nat /\ \A i \in 1..Len(q) : q[i] \in S BY Positions
<1>2. /\ a \in Seq(S) /\ Len(a) = j - 1 /\ \A i \in 1..(j - 1) : a[i] = q[i]
  <2>1. \A i \in 1..(j - 1) : q[i] \in S BY <1>1
  <2>2. a \in Seq(S) /\ Len(a) = (IF 1 <= j - 1 THEN (j - 1) - 1 + 1 ELSE 0)
        /\ \A i \in 1..((j - 1) - 1 + 1) : a[i] = q[1 + i - 1]
    BY <1>1, <2>1, SubSeqProperties
  <2> QED BY <1>1, <2>2
<1>3. /\ b \in Seq(S) /\ Len(b) = Len(q) - j /\ \A i \in 1..(Len(q) - j) : b[i] = q[j + i]
  <2>1. \A i \in (j + 1)..Len(q) : q[i] \in S BY <1>1
  <2>2. b \in Seq(S) /\ Len(b) = (IF j + 1 <= Len(q) THEN Len(q) - (j + 1) + 1 ELSE 0)
        /\ \A i \in 1..(Len(q) - (j + 1) + 1) : b[i] = q[(j + 1) + i - 1]
    BY <1>1, <2>1, SubSeqProperties
  <2> QED BY <1>1, <2>2
<1> HIDE DEF a, b
<1>4. /\ a \o b \in Seq(S) /\ Len(a \o b) = Len(a) + Len(b)
      /\ \A i \in 1..(Len(a) + Len(b)) :
            (a \o b)[i] = IF i <= Len(a) THEN a[i] ELSE b[i - Len(a)]
  BY <1>2, <1>3, ConcatProperties
<1>5. RemoveAt(q, j) = a \o b BY DEF RemoveAt, a, b
<1>6. j \in Nat /\ j >= 1 /\ j <= Len(q) BY <1>1
<1>7. Len(a) + Len(b) = Len(q) - 1 BY <1>1, <1>2, <1>3, <1>6
<1>8. ASSUME NEW i \in 1..(Len(q) - 1)
      PROVE  (a \o b)[i] = IF i < j THEN q[i] ELSE q[i + 1]
  <2>1. (a \o b)[i] = IF i <= j - 1 THEN a[i] ELSE b[i - (j - 1)]
    BY <1>2, <1>4, <1>7
  <2>2. CASE i < j
    <3>1. i \in 1..(j - 1) BY <1>6, <2>2
    <3> QED BY <1>2, <2>1, <2>2, <3>1
  <2>3. CASE ~(i < j)
    <3>1. i - (j - 1) \in 1..(Len(q) - j) /\ j + (i - (j - 1)) = i + 1
      BY <1>1, <1>6, <2>3
    <3>2. ~(i <= j - 1) BY <1>6, <2>3
    <3> QED BY <1>3, <2>1, <2>3, <3>1, <3>2
  <2> QED BY <2>2, <2>3
<1> QED BY <1>4, <1>5, <1>7, <1>8

\* A task that leaves the queue is gone from it, and the others stay.
LEMMA Leaving ==
    ASSUME NEW S, NEW q \in Seq(S), IsInjective(q), NEW x \in ToSet(q)
    PROVE  LET r == RemoveFirst(q, x) IN
           r \in Seq(S) /\ IsInjective(r) /\ ToSet(r) = ToSet(q) \ {x}
<1>1. PICK j \in 1..Len(q) : q[j] = x BY Positions
<1> DEFINE r == RemoveAt(q, j)
<1>2. RemoveFirst(q, x) = r BY <1>1, FirstPosition
<1>3. /\ r \in Seq(S) /\ Len(r) = Len(q) - 1
      /\ \A i \in 1..(Len(q) - 1) : r[i] = IF i < j THEN q[i] ELSE q[i + 1]
  BY RemoveAtPosition
<1> HIDE DEF r
<1>4. Len(q) \in Nat /\ DOMAIN q = 1..Len(q) /\ DOMAIN r = 1..(Len(q) - 1)
  BY <1>3, LenProperties
<1>5. \A i, k \in 1..Len(q) : q[i] = q[k] => i = k BY <1>4 DEF IsInjective
<1>6. IsInjective(r) BY <1>3, <1>4, <1>5 DEF IsInjective
<1>7. ASSUME NEW y \in ToSet(r) PROVE y \in ToSet(q) \ {x}
  <2>1. PICK i \in 1..(Len(q) - 1) : r[i] = y BY <1>4 DEF ToSet
  <2>2. i + 1 \in 1..Len(q) /\ i \in 1..Len(q) BY <1>4
  <2>3. PICK k \in 1..Len(q) : y = q[k] /\ k # j BY <1>3, <1>4, <2>1, <2>2
  <2> QED BY <1>1, <1>4, <1>5, <2>3 DEF ToSet
<1>8. ASSUME NEW y \in ToSet(q) \ {x} PROVE y \in ToSet(r)
  <2>1. PICK k \in 1..Len(q) : q[k] = y BY <1>4 DEF ToSet
  <2>2. k # j BY <1>1, <2>1
  <2>3. CASE k < j
    <3>1. k \in 1..(Len(q) - 1) /\ r[k] = y BY <1>3, <1>4, <2>1, <2>3
    <3> QED BY <1>4, <3>1 DEF ToSet
  <2>4. CASE k > j
    <3>1. k - 1 \in 1..(Len(q) - 1) /\ r[k - 1] = y BY <1>3, <1>4, <2>1, <2>4
    <3> QED BY <1>4, <3>1 DEF ToSet
  <2> QED BY <2>2, <2>3, <2>4, <1>4
<1> QED BY <1>2, <1>3, <1>6, <1>7, <1>8

\* Tasks that are appended join the ones that wait.
LEMMA Joining ==
    ASSUME NEW S, NEW q \in Seq(S), NEW b \in Seq(S), IsInjective(q), IsInjective(b),
           ToSet(q) \cap ToSet(b) = {}
    PROVE  /\ q \o b \in Seq(S) /\ IsInjective(q \o b)
           /\ ToSet(q \o b) = ToSet(q) \cup ToSet(b)
<1> DEFINE r == q \o b
<1>1. /\ r \in Seq(S) /\ Len(r) = Len(q) + Len(b)
      /\ \A i \in 1..(Len(q) + Len(b)) : r[i] = IF i <= Len(q) THEN q[i] ELSE b[i - Len(q)]
  BY ConcatProperties
<1> HIDE DEF r
<1>2. /\ Len(q) \in Nat /\ Len(b) \in Nat /\ DOMAIN q = 1..Len(q) /\ DOMAIN b = 1..Len(b)
      /\ DOMAIN r = 1..(Len(q) + Len(b))
  BY <1>1, LenProperties
<1>3. \A i, k \in 1..Len(q) : q[i] = q[k] => i = k BY <1>2 DEF IsInjective
<1>4. \A i, k \in 1..Len(b) : b[i] = b[k] => i = k BY <1>2 DEF IsInjective
<1>5. \A i \in 1..Len(q), k \in 1..Len(b) : q[i] # b[k] BY <1>2 DEF ToSet
<1>6. IsInjective(r)
  <2> SUFFICES ASSUME NEW i \in DOMAIN r, NEW k \in DOMAIN r, r[i] = r[k] PROVE i = k
    BY DEF IsInjective
  <2>1. CASE i <= Len(q) /\ k <= Len(q) BY <1>1, <1>2, <1>3, <2>1
  <2>2. CASE i > Len(q) /\ k > Len(q)
    <3>1. i - Len(q) \in 1..Len(b) /\ k - Len(q) \in 1..Len(b) BY <1>2, <2>2
    <3>2. b[i - Len(q)] = b[k - Len(q)] BY <1>1, <1>2, <2>2
    <3>3. i - Len(q) = k - Len(q) BY <1>4, <3>1, <3>2
    <3> QED BY <1>2, <3>3
  <2>3. CASE i <= Len(q) /\ k > Len(q) BY <1>1, <1>2, <1>5, <2>3
  <2>4. CASE i > Len(q) /\ k <= Len(q) BY <1>1, <1>2, <1>5, <2>4
  <2> QED BY <1>2, <2>1, <2>2, <2>3, <2>4
<1>7. ASSUME NEW y \in ToSet(r) PROVE y \in ToSet(q) \cup ToSet(b)
  <2>1. PICK i \in 1..(Len(q) + Len(b)) : r[i] = y BY <1>2 DEF ToSet
  <2>2. CASE i <= Len(q)
    <3>1. i \in 1..Len(q) /\ y = q[i] BY <1>1, <1>2, <2>1, <2>2
    <3> QED BY <1>2, <3>1 DEF ToSet
  <2>3. CASE i > Len(q)
    <3>1. i - Len(q) \in 1..Len(b) /\ y = b[i - Len(q)] BY <1>1, <1>2, <2>1, <2>3
    <3> QED BY <1>2, <3>1 DEF ToSet
  <2> QED BY <1>2, <2>2, <2>3
<1>8. ASSUME NEW y \in ToSet(q) PROVE y \in ToSet(r)
  <2>1. PICK i \in 1..Len(q) : q[i] = y BY <1>2 DEF ToSet
  <2>2. i \in DOMAIN r /\ r[i] = y BY <1>1, <1>2, <2>1
  <2> QED BY <2>2 DEF ToSet
<1>9. ASSUME NEW y \in ToSet(b) PROVE y \in ToSet(r)
  <2>1. PICK i \in 1..Len(b) : b[i] = y BY <1>2 DEF ToSet
  <2>2. Len(q) + i \in DOMAIN r /\ r[Len(q) + i] = y BY <1>1, <1>2, <2>1
  <2> QED BY <2>2 DEF ToSet
<1> QED BY <1>1, <1>6, <1>7, <1>8, <1>9 DEF r

\* The empty queue.
LEMMA NoTasks == ToSet(<<>>) = {} /\ IsInjective(<<>>) /\ \A S : <<>> \in Seq(S)
BY EmptySeq DEF ToSet, IsInjective

\* A batch is any order of the operations it is made of.
LEMMA BatchOf ==
    ASSUME NEW S \in SUBSET Operations, NEW b \in SetToSeqs(S)
    PROVE  b \in Seq(Operations) /\ IsInjective(b) /\ ToSet(b) = S
<1> DEFINE n == Cardinality(S)
<1>1. IsFiniteSet(S) /\ n \in Nat BY OperationsFinite, FS_Subset, FS_CardinalityType
<1>2. b \in [1..n -> S] /\ \A i, j \in 1..n : i # j => b[i] # b[j] BY DEF SetToSeqs
<1>3. b \in [1..n -> Operations] BY <1>2
<1>4. b \in Seq(Operations) BY <1>1, <1>3, SeqDef
<1>5. IsInjective(b) BY <1>2 DEF IsInjective
<1>6. b \in Injection(1..n, S) BY <1>2 DEF Injection, IsInjective
<1>7. IsFiniteSet(1..n) /\ Cardinality(1..n) = n BY <1>1, FS_Interval
<1>8. b \in Surjection(1..n, S)
    <2>1. IsFiniteSet(1..n) BY <1>7
  <2>2. Cardinality(1..n) = Cardinality(S) => b \in Surjection(1..n, S)
    BY <1>1, <1>6, FS_Injection
  <2> QED BY <1>7, <2>2
<1>9. DOMAIN b = 1..n /\ \A x \in S : \E i \in 1..n : b[i] = x
  BY <1>2, <1>8 DEF Surjection
<1>10. ToSet(b) = S
  <2>1. \A i \in 1..n : b[i] \in S BY <1>2
  <2> QED BY <1>9, <2>1 DEF ToSet
<1> QED BY <1>4, <1>5, <1>10

\* What each step does to the queue.
LEMMA QueueSteps ==
    ASSUME TypeOK, PendingKnown
    PROVE  /\ \A o \in Operations : TakeTask(o) => o \in Queued /\ ~Skipped(o)
           /\ \A o \in Operations : TakeTask(o) \/ CancelDequeue(o) =>
                  queue' \in Seq(Operations) /\ IsInjective(queue') /\ Queued' = Queued \ {o}
           /\ AdmitPublish =>
                  /\ queue' \in Seq(Operations) /\ IsInjective(queue')
                  /\ Queued' = Queued \cup ToSet(batch)
           /\ ShutdownBegin =>
                  queue' \in Seq(Operations) /\ IsInjective(queue') /\ Queued' = {}
           /\ Queued \subseteq Operations
<1>1. queue \in Seq(Operations) /\ IsInjective(queue) /\ batch \in Seq(Operations)
  BY DEF TypeOK
<1>2. \A o \in Operations : TakeTask(o) => o \in Queued /\ ~Skipped(o)
  BY <1>1, Positions DEF TakeTask, Head1, Queued
<1>3. ASSUME NEW o \in Operations, queue' = RemoveFirst(queue, o)
      PROVE  queue' \in Seq(Operations) /\ IsInjective(queue') /\ Queued' = Queued \ {o}
  <2>1. CASE o \in Queued BY <1>1, <1>3, <2>1, Leaving DEF Queued
  <2>2. CASE o \notin Queued
    <3>1. \A i \in 1..Len(queue) : queue[i] # o BY <1>1, <2>2, Positions DEF Queued
    <3>2. queue' = queue BY <1>3, <3>1 DEF RemoveFirst
    <3> QED BY <1>1, <2>2, <3>2 DEF Queued
  <2> QED BY <2>1, <2>2
<1>4. ASSUME AdmitPublish
      PROVE  /\ queue' \in Seq(Operations) /\ IsInjective(queue')
             /\ Queued' = Queued \cup ToSet(batch)
  <2>1. queue' = queue \o batch /\ Pending = ToSet(batch) BY <1>4 DEF AdmitPublish, Pending
  <2>2. IsInjective(batch) /\ Queued \cap ToSet(batch) = {}
    BY <1>1, <2>1, Positions DEF PendingKnown, Untouched
  <2> QED BY <1>1, <2>1, <2>2, Joining DEF Queued
<1>5. ShutdownBegin => queue' \in Seq(Operations) /\ IsInjective(queue') /\ Queued' = {}
  BY NoTasks DEF ShutdownBegin, Queued
<1> QED BY <1>1, <1>2, <1>3, <1>4, <1>5, Positions DEF TakeTask, CancelDequeue, Queued

\* What the transaction of an admission inserts.
LEMMA BatchSteps ==
    ASSUME AdmitRows
    PROVE  /\ batch' \in Seq(Operations) /\ IsInjective(batch')
           /\ \A o \in ToSet(batch') : o \in Operations /\ row[o] = "none"
           /\ row' = [o \in Operations |-> IF o \in ToSet(batch') THEN "queued" ELSE row[o]]
           /\ \A o, p \in ToSet(batch') : TargetOf[o] = TargetOf[p] => o = p
           /\ ToSet(batch') = {} => admit' = "ending"
           /\ admit' \in {"checking", "ending"}
<1>1. PICK S \in SUBSET {o \in Operations : row[o] = "none"} :
        /\ \A o, p \in S : o # p => VaultOf(o) # VaultOf(p)
        /\ batch' \in SetToSeqs(S)
        /\ row' = [o \in Operations |-> IF o \in S THEN "queued" ELSE row[o]]
        /\ admit' = IF S = {} THEN "ending" ELSE "checking"
  BY DEF AdmitRows
<1>2. batch' \in Seq(Operations) /\ IsInjective(batch') /\ ToSet(batch') = S
  BY <1>1, BatchOf
<1> QED BY <1>1, <1>2 DEF VaultOf

\* The batch of an admission: unknown rows when they are inserted, nothing afterwards.
LEMMA PendingSteps ==
    ASSUME TypeOK, Gates
    PROVE  /\ UNCHANGED <<admit, batch>> => Pending' = Pending
           /\ AdmitBegin \/ AdmitCheck \/ AdmitEnd => Pending' = Pending
           /\ AdmitPublish \/ AdmitRefuse => Pending = ToSet(batch) /\ Pending' = {}
           /\ AdmitRows =>
                 /\ Pending = {}
                 /\ \A o \in Pending' : o \in Operations /\ row[o] = "none"
                 /\ row' = [o \in Operations |-> IF o \in Pending' THEN "queued" ELSE row[o]]
                 /\ \A o, p \in Pending' : TargetOf[o] = TargetOf[p] => o = p
                 /\ IsInjective(batch')
           /\ Pending \subseteq Operations
<1>1. ASSUME AdmitRows PROVE Pending' = ToSet(batch') /\ Pending = {}
  <2>1. admit = "writing" BY <1>1 DEF AdmitRows
  <2>2. ToSet(batch') = {} => admit' = "ending" BY <1>1, BatchSteps
  <2>3. admit' = "checking" \/ (admit' = "ending" /\ ToSet(batch') = {})
    BY <1>1, BatchOf, NoTasks DEF AdmitRows
  <2> QED BY <2>1, <2>3 DEF Pending
<1>2. AdmitPublish \/ AdmitRefuse => Pending = ToSet(batch) /\ Pending' = {}
  BY DEF AdmitPublish, AdmitRefuse, Pending
<1>3. AdmitBegin \/ AdmitCheck \/ AdmitEnd => Pending' = Pending
  BY DEF AdmitBegin, AdmitCheck, AdmitEnd, Pending
<1>4. Pending \subseteq Operations BY Positions DEF Pending, TypeOK
<1>5. UNCHANGED <<admit, batch>> => Pending' = Pending BY DEF Pending
<1> QED BY <1>1, <1>2, <1>3, <1>4, <1>5, BatchSteps

\* The steps that leave every operation as it is.
operationVars == <<row, unwritten, orphaned, queue, active, vaultActive, running, admit, batch,
                   stage, taskErr, cancelVars, closed, drained, finalizer, entry>>
LEMMA OtherSteps ==
    ASSUME Next
    PROVE  \/ UNCHANGED <<operationVars, ready>>
           \/ \E v \in Vaults : UNCHANGED operationVars /\ ReserveFinish(v)
           \/ AdmitBegin \/ AdmitRows \/ AdmitCheck \/ AdmitPublish \/ AdmitRefuse \/ AdmitEnd
           \/ \E o \in Operations :
                 \/ TakeTask(o) \/ Run(o)
                 \/ CancelCall(o) \/ CancelStarted(o) \/ CancelQuarantine(o) \/ CancelWrite(o)
                 \/ CancelWriteFails(o) \/ CancelDequeue(o) \/ CancelCleanup(o)
           \/ ShutdownBegin \/ ShutdownUnlock \/ FinalizeWrite \/ FinalizeRemove
<1> USE DEF operationVars, dbVars, dispatchVars, admitVars, reserveVars, cancelVars, stopVars
<1>1. \A n \in Limits : SetLimit(n) => UNCHANGED <<operationVars, ready>> BY DEF SetLimit
<1>2. \A o \in Operations : StartReserve(o) => UNCHANGED <<operationVars, ready>>
  BY DEF StartReserve
<1>3. \A v \in Vaults : Reserving(v) \/ OtherTakes(v) \/ OtherReleases(v) =>
        UNCHANGED <<operationVars, ready>> \/ (UNCHANGED operationVars /\ ReserveFinish(v))
  BY DEF Reserving, ReserveTry, ReserveAcquire, ReserveAbandon, ReserveFinish, ReserveReturn,
     OtherTakes, OtherReleases
<1>4. DispatcherStop \/ ShutdownReturn => UNCHANGED <<operationVars, ready>>
  BY DEF DispatcherStop, ShutdownReturn
<1> HIDE DEF operationVars, dbVars, dispatchVars, admitVars, reserveVars, cancelVars, stopVars
<1> QED BY <1>1, <1>2, <1>3, <1>4 DEF Next, Admission, Dispatch, Cancelling, Stopping

\* The executor stays in its part of a run, and run reads the context when it returns.
LEMMA ExecutorSteps ==
    ASSUME NEW o \in Operations, Execute(o)
    PROVE  /\ stage[o] \in Executing
           /\ \E next \in Executing \cup {"persisting"} : stage' = [stage EXCEPT ![o] = next]
           /\ entry' = entry \/ entry' = [entry EXCEPT ![o] = Closed(@)]
           /\ \/ taskErr' = taskErr
              \/ \E err \in ContextErr(o) : taskErr' = [taskErr EXCEPT ![o] = err]
           /\ UNCHANGED <<dbVars, holder, queue, active, dispatchVars, running, limit,
                         admitVars, reserveVars, cancelVars, stopVars>>
<1> USE DEF Executing, Children, Goto
<1>1. CASE RunLaunch(o) BY <1>1 DEF RunLaunch
<1>2. CASE RunChildEnds(o) BY <1>2 DEF RunChildEnds
<1>3. CASE RunReturn(o) BY <1>3 DEF RunReturn
<1>4. CASE RunSettle(o) BY <1>4 DEF RunSettle
<1> QED BY <1>1, <1>2, <1>3, <1>4 DEF Execute

\* Once the coordinator is closed nothing waits.
LEMMA EmptyWhenClosed == Gates /\ closed => Queued = {}
BY NoTasks DEF Gates, Queued

\* The maps and sets over the operations, for the proofs that need nothing else of TypeOK.
LEMMA Maps ==
    TypeOK =>
        /\ row \in [Operations -> {"none", "queued", "running"} \cup Terminal]
        /\ stage \in [Operations -> {"none", "done"} \cup InRun]
        /\ cancelStage \in [Operations -> {"none", "entered", "writing", "dequeuing",
           "cleaning"}]
        /\ entry \in [Operations -> {"absent", "idle", "inFlight", "accepted", "closed"}]
        /\ drained \subseteq Operations /\ quarantined \subseteq Operations
        /\ cancelHolds \subseteq Operations /\ Queued \subseteq Operations
        /\ accepted \subseteq Operations /\ taskErr \in [Operations -> {"unread", "live", "ended"}]
BY Positions DEF TypeOK, Queued

\* Which runs hold a slot.
LEMMA RunsKept == (UNCHANGED stage => Runs' = Runs) /\ Runs \subseteq Operations
BY DEF Runs

\* Only the dispatcher adds a run, only the release of the slot ends one.
LEMMA RunSteps ==
    ASSUME TypeOK, NEW o \in Operations
    PROVE  /\ IsFiniteSet(Runs) /\ Runs \subseteq Operations
           /\ UNCHANGED stage => Runs' = Runs
           /\ TakeTask(o) => Runs' = Runs \cup {o}
           /\ RunFreeSlot(o) => Runs' = Runs \ {o} /\ o \in Runs
           /\ RunActivate(o) \/ RunRestore(o) \/ Execute(o) \/ RunPersist(o) \/ RunUnlock(o)
              \/ RunRemove(o) => Runs' = Runs
<1> stage \in [Operations -> {"none", "done"} \cup InRun] BY DEF TypeOK
<1>1. IsFiniteSet(Runs) BY OperationsFinite, FS_Subset DEF Runs
<1>2. Execute(o) => Runs' = Runs BY ExecutorSteps DEF Runs, InRun, InSlot, Holding, Executing
<1> QED
  BY <1>1, <1>2 DEF Runs, TakeTask, RunFreeSlot, RunActivate, RunRestore, RunPersist,
     RunUnlock, RunRemove, Goto, InRun, InSlot, Holding, Executing

\* An operation that gives up its target leaves the others theirs.
LEMMA FreeTarget ==
    ASSUME TypeOK, TargetsKnown, NEW o \in Operations,
           active' = [active EXCEPT ![TargetOf[o]] = None],
           UNCHANGED <<closed, admit>>, Pending' = Pending,
           ~closed => /\ o \in Queued \cup Runs
                      /\ Queued' \cup Runs' = (Queued \cup Runs) \ {o}
    PROVE  TargetsKnown'
<1>1. active \in [Targets -> Operations \cup {None}] BY DEF TypeOK
<1>2. Pending \subseteq Operations /\ Queued \subseteq Operations /\ Runs \subseteq Operations
  BY Maps, RunsKept, Positions DEF Pending, TypeOK
<1>3. \A x \in Operations : TargetOf[x] \in Targets BY DEF Targets
<1>4. ASSUME admit = "publishing", NEW x \in Pending PROVE active'[TargetOf[x]] = None
  BY <1>1, <1>2, <1>3, <1>4 DEF TargetsKnown
<1>5. ASSUME ~closed, NEW x \in Queued' \cup Runs' PROVE active'[TargetOf[x]] = x
  <2>1. active[TargetOf[x]] = x /\ active[TargetOf[o]] = o /\ x # o /\ x \in Operations
    BY <1>2, <1>5 DEF TargetsKnown
  <2> QED BY <1>1, <1>3, <2>1
<1> QED BY <1>4, <1>5 DEF TargetsKnown

\* What the steps of a run do to the vault it holds.
LEMMA HoldingSteps ==
    ASSUME TypeOK, SlotsKnown
    PROVE  /\ UNCHANGED stage => \A v \in Vaults : ByRun(v)' <=> ByRun(v)
           /\ \A o \in Operations :
                 /\ TakeTask(o) => \A v \in Vaults : ByRun(v)' <=> ByRun(v) \/ v = VaultOf(o)
                 /\ RunActivate(o) \/ RunRestore(o) \/ Execute(o) \/ RunPersist(o)
                    \/ RunFreeSlot(o)
                       \/ RunRemove(o) => \A v \in Vaults : ByRun(v)' <=> ByRun(v)
                 /\ RunUnlock(o) => /\ \A v \in Vaults : ByRun(v)' <=> ByRun(v) /\ v # VaultOf(o)
                                    /\ ByRun(VaultOf(o))
<1>1. stage \in [Operations -> {"none", "done"} \cup InRun] BY DEF TypeOK
<1> SUFFICES ASSUME NEW o \in Operations
             PROVE  /\ TakeTask(o) => \A v \in Vaults : ByRun(v)' <=> ByRun(v) \/ v = VaultOf(o)
                    /\ RunActivate(o) \/ RunRestore(o) \/ Execute(o) \/ RunPersist(o)
                       \/ RunFreeSlot(o)
                          \/ RunRemove(o) => \A v \in Vaults : ByRun(v)' <=> ByRun(v)
                    /\ RunUnlock(o) => /\ \A v \in Vaults : ByRun(v)' <=> ByRun(v) /\ v # VaultOf(o)
                                       /\ ByRun(VaultOf(o))
  BY DEF ByRun
<1>2. ASSUME TakeTask(o), NEW v \in Vaults PROVE ByRun(v)' <=> ByRun(v) \/ v = VaultOf(o)
  <2>1. \A p \in Operations : stage'[p] \in Holding <=> stage[p] \in Holding \/ p = o
    BY <1>1, <1>2 DEF TakeTask, Holding, Executing
  <2> QED BY <2>1 DEF ByRun
<1>3. ASSUME RunActivate(o) \/ RunRestore(o) \/ Execute(o) \/ RunPersist(o)
             \/ RunFreeSlot(o) \/ RunRemove(o), NEW v \in Vaults
      PROVE  ByRun(v)' <=> ByRun(v)
  <2>1. \A p \in Operations : stage'[p] \in Holding <=> stage[p] \in Holding
    BY <1>1, <1>3, ExecutorSteps DEF RunActivate, RunRestore, RunPersist, RunFreeSlot,
       RunRemove, Goto, Holding, Executing
  <2> QED BY <2>1 DEF ByRun
<1>4. ASSUME RunUnlock(o)
      PROVE  /\ \A v \in Vaults : ByRun(v)' <=> ByRun(v) /\ v # VaultOf(o)
             /\ ByRun(VaultOf(o))
  <2>1. \A p \in Operations : stage'[p] \in Holding <=> stage[p] \in Holding /\ p # o
    BY <1>1, <1>4 DEF RunUnlock, Goto, Holding, Executing
  <2>2. \A p \in Operations : stage[p] \in Holding /\ VaultOf(p) = VaultOf(o) => p = o
    BY <1>4 DEF RunUnlock, SlotsKnown, Runs, InSlot, Holding, Executing
  <2>3. stage[o] \in Holding BY <1>4 DEF RunUnlock, Holding, Executing
  <2> QED BY <2>1, <2>2, <2>3 DEF ByRun
<1> QED BY <1>2, <1>3, <1>4


\* The same for the maps over the vaults.
LEMMA VaultMaps ==
    /\ TypeOK => /\ holder \in [Vaults -> {"free", "other", "backup"}]
                 /\ waiting \in [Vaults -> {"absent", "handoff", "contended"}]
                 /\ reserver \in [Vaults -> {"none", "trying", "waiting", "acquired", "failed"}]
                 /\ ready \subseteq Vaults
    /\ \A o \in Operations : VaultOf(o) \in Vaults
BY DEF TypeOK, VaultOf, Vaults, Targets

\* Each part of the invariant is kept by every step.
LEMMA TypesKept == IInv /\ Next => TypeOK'
<1> SUFFICES ASSUME IInv, Next PROVE TypeOK' OBVIOUS
<1>0. TypeOK BY DEF IInv
<1> USE DEF dbVars, dispatchVars, admitVars, reserveVars, cancelVars, stopVars, Goto, InRun,
   InSlot, Holding, Executing, Terminal, Closed, Interrupt
<1>1. CASE AdmitBegin
  BY <1>0, <1>1 DEF TypeOK, AdmitBegin
<1>2. CASE AdmitRows
  <2>1. row' \in [Operations -> {"none", "queued", "running"} \cup Terminal]
    BY <1>0, <1>2, BatchSteps DEF TypeOK
  <2> QED BY <1>0, <1>2, <2>1, BatchSteps DEF TypeOK, AdmitRows
<1>3. CASE AdmitCheck
  BY <1>0, <1>3 DEF TypeOK, AdmitCheck
<1>4. CASE AdmitPublish
  <2>1. active' \in [Targets -> Operations \cup {None}]
    BY <1>0, <1>4, Positions DEF AdmitPublish, TypeOK
  <2>2. entry' \in [Operations -> {"absent", "idle", "inFlight", "accepted", "closed"}]
    BY <1>0, <1>4 DEF AdmitPublish, TypeOK
  <2>3. queue' \in Seq(Operations) /\ IsInjective(queue') BY <1>0, <1>4, QueueSteps DEF IInv
  <2> QED BY <1>0, <1>4, <2>1, <2>2, <2>3 DEF AdmitPublish, TypeOK
<1>5. CASE AdmitRefuse
  <2>1. row' \in [Operations -> {"none", "queued", "running"} \cup Terminal]
        /\ orphaned' \subseteq Operations
    BY <1>0, <1>5, Positions DEF AdmitRefuse, TypeOK
  <2> QED BY <1>0, <1>5, <2>1 DEF AdmitRefuse, TypeOK
<1>6. CASE AdmitEnd
  BY <1>0, <1>6, NoTasks DEF AdmitEnd, TypeOK
<1>7. ASSUME NEW o \in Operations, TakeTask(o) PROVE TypeOK'
  <2>1. queue' \in Seq(Operations) /\ IsInjective(queue') BY <1>0, <1>7, QueueSteps DEF IInv
  <2>2. stage' \in [Operations -> {"none", "done"} \cup InRun]
    BY <1>0, <1>7 DEF TakeTask, TypeOK
  <2>3. vaultActive' \subseteq Vaults
    BY <1>0, <1>7 DEF TakeTask, TypeOK, Vaults, VaultOf, Targets
  <2> QED BY <1>0, <1>7, <2>1, <2>2, <2>3 DEF TakeTask, TypeOK
<1>8. ASSUME NEW o \in Operations, StartReserve(o) PROVE TypeOK'
  <2>1. /\ waiting' \in [Vaults -> {"absent", "handoff", "contended"}]
        /\ reserver' \in [Vaults -> {"none", "trying", "waiting", "acquired", "failed"}]
    BY <1>0, <1>8 DEF StartReserve, TypeOK
  <2> QED BY <1>0, <1>8, <2>1 DEF StartReserve, TypeOK
<1>9. ASSUME NEW n \in Limits, SetLimit(n) PROVE TypeOK'
  BY <1>0, <1>9 DEF TypeOK, SetLimit
<1>10. ASSUME NEW v \in Vaults, ReserveTry(v) PROVE TypeOK'
  <2>1. /\ holder' \in [Vaults -> {"free", "other", "backup"}]
        /\ waiting' \in [Vaults -> {"absent", "handoff", "contended"}]
        /\ reserver' \in [Vaults -> {"none", "trying", "waiting", "acquired", "failed"}]
    BY <1>10, VaultMaps, <1>0 DEF ReserveTry
  <2> QED BY <1>0, <1>10, <2>1 DEF ReserveTry, TypeOK
<1>11. ASSUME NEW v \in Vaults, ReserveAcquire(v) PROVE TypeOK'
  BY <1>0, <1>11 DEF TypeOK, ReserveAcquire
<1>12. ASSUME NEW v \in Vaults, ReserveAbandon(v) PROVE TypeOK'
  BY <1>0, <1>12 DEF TypeOK, ReserveAbandon
<1>13. ASSUME NEW v \in Vaults, ReserveFinish(v) PROVE TypeOK'
  BY <1>0, <1>13 DEF TypeOK, ReserveFinish
<1>14. ASSUME NEW v \in Vaults, ReserveReturn(v) PROVE TypeOK'
  BY <1>0, <1>14 DEF TypeOK, ReserveReturn
<1>15. ASSUME NEW v \in Vaults, OtherTakes(v) PROVE TypeOK'
  BY <1>0, <1>15 DEF TypeOK, OtherTakes
<1>16. ASSUME NEW v \in Vaults, OtherReleases(v) PROVE TypeOK'
  BY <1>0, <1>16 DEF TypeOK, OtherReleases
<1>17. ASSUME NEW o \in Operations, RunActivate(o) PROVE TypeOK'
  <2>1. row' \in [Operations -> {"none", "queued", "running"} \cup Terminal]
    BY <1>0, <1>17 DEF RunActivate, TypeOK
  <2>2. stage' \in [Operations -> {"none", "done"} \cup InRun]
    BY <1>0, <1>17 DEF RunActivate, TypeOK
  <2> QED BY <1>0, <1>17, <2>1, <2>2 DEF RunActivate, TypeOK
<1>18. ASSUME NEW o \in Operations, RunRestore(o) PROVE TypeOK'
  <2>1. row' \in [Operations -> {"none", "queued", "running"} \cup Terminal]
        /\ unwritten' \subseteq Operations
    BY <1>0, <1>18 DEF RunRestore, TypeOK
  <2>2. stage' \in [Operations -> {"none", "done"} \cup InRun]
    BY <1>0, <1>18 DEF RunRestore, TypeOK
  <2> QED BY <1>0, <1>18, <2>1, <2>2 DEF RunRestore, TypeOK
<1>19. ASSUME NEW o \in Operations, Execute(o) PROVE TypeOK'
  <2>1. entry' \in [Operations -> {"absent", "idle", "inFlight", "accepted", "closed"}]
    BY <1>0, <1>19, ExecutorSteps, Maps
  <2>2. stage' \in [Operations -> {"none", "done"} \cup InRun]
    BY <1>0, <1>19, ExecutorSteps, Maps
  <2>3. taskErr' \in [Operations -> {"unread", "live", "ended"}]
    BY <1>0, <1>19, ExecutorSteps DEF TypeOK, ContextErr
  <2>4. UNCHANGED <<dbVars, holder, queue, active, dispatchVars, running, limit, admitVars,
                    reserveVars, cancelVars, stopVars>>
    BY <1>19, ExecutorSteps
  <2> QED BY <1>0, <2>1, <2>2, <2>3, <2>4 DEF TypeOK
<1>20. ASSUME NEW o \in Operations, RunPersist(o) PROVE TypeOK'
  <2>1. row' \in [Operations -> {"none", "queued", "running"} \cup Terminal]
    BY <1>0, <1>20 DEF TypeOK, RunPersist, Status
  <2>2. taskErr' \in [Operations -> {"unread", "live", "ended"}]
        /\ stage' \in [Operations -> {"none", "done"} \cup InRun]
    BY <1>0, <1>20 DEF TypeOK, RunPersist
  <2> QED BY <1>0, <1>20, <2>1, <2>2 DEF TypeOK, RunPersist
<1>21. ASSUME NEW o \in Operations, RunUnlock(o) PROVE TypeOK'
  <2>1. holder' \in [Vaults -> {"free", "other", "backup"}] BY <1>0, <1>21 DEF RunUnlock, TypeOK
  <2>2. stage' \in [Operations -> {"none", "done"} \cup InRun]
    BY <1>0, <1>21 DEF RunUnlock, TypeOK
  <2> QED BY <1>0, <1>21, <2>1, <2>2 DEF RunUnlock, TypeOK
<1>22. ASSUME NEW o \in Operations, RunFreeSlot(o) PROVE TypeOK'
  <2>1. active' \in [Targets -> Operations \cup {None}] BY <1>0, <1>22 DEF RunFreeSlot, TypeOK
  <2>2. stage' \in [Operations -> {"none", "done"} \cup InRun]
    BY <1>0, <1>22 DEF RunFreeSlot, TypeOK
  <2>3. running' \in Nat /\ vaultActive' \subseteq Vaults BY <1>0, <1>22 DEF RunFreeSlot, TypeOK
  <2> QED BY <1>0, <1>22, <2>1, <2>2, <2>3 DEF RunFreeSlot, TypeOK
<1>23. ASSUME NEW o \in Operations, RunRemove(o) PROVE TypeOK'
  <2>1. entry' \in [Operations -> {"absent", "idle", "inFlight", "accepted", "closed"}]
    BY <1>0, <1>23 DEF RunRemove, TypeOK
  <2>2. stage' \in [Operations -> {"none", "done"} \cup InRun]
    BY <1>0, <1>23 DEF RunRemove, TypeOK
  <2> QED BY <1>0, <1>23, <2>1, <2>2 DEF RunRemove, TypeOK
<1>24. ASSUME NEW o \in Operations, CancelCall(o) PROVE TypeOK'
  BY <1>0, <1>24 DEF TypeOK, CancelCall
<1>25. ASSUME NEW o \in Operations, CancelStarted(o) PROVE TypeOK'
  BY <1>0, <1>25 DEF TypeOK, CancelStarted
<1>26. ASSUME NEW o \in Operations, CancelQuarantine(o) PROVE TypeOK'
  BY <1>0, <1>26 DEF TypeOK, CancelQuarantine
<1>27. ASSUME NEW o \in Operations, CancelWrite(o) PROVE TypeOK'
  <2>1. row' \in [Operations -> {"none", "queued", "running"} \cup Terminal]
    BY <1>0, <1>27 DEF CancelWrite, TypeOK
  <2> QED BY <1>0, <1>27, <2>1 DEF CancelWrite, TypeOK
<1>28. ASSUME NEW o \in Operations, CancelWriteFails(o) PROVE TypeOK'
  BY <1>0, <1>28 DEF TypeOK, CancelWriteFails
<1>29. ASSUME NEW o \in Operations, CancelDequeue(o) PROVE TypeOK'
  <2>1. queue' \in Seq(Operations) /\ IsInjective(queue') BY <1>0, <1>29, QueueSteps DEF IInv
  <2>2. active' \in [Targets -> Operations \cup {None}] BY <1>0, <1>29 DEF CancelDequeue, TypeOK
  <2>3. ready' \subseteq Vaults /\ cancelHolds' \subseteq Operations /\ ended' \subseteq Operations
    BY <1>0, <1>29 DEF CancelDequeue, TypeOK
  <2>4. cancelStage' \in [Operations -> {"none", "entered", "writing", "dequeuing", "cleaning"}]
    BY <1>0, <1>29 DEF CancelDequeue, TypeOK
  <2> QED BY <1>0, <1>29, <2>1, <2>2, <2>3, <2>4 DEF CancelDequeue, TypeOK
<1>30. ASSUME NEW o \in Operations, CancelCleanup(o) PROVE TypeOK'
  <2>1. holder' \in [Vaults -> {"free", "other", "backup"}]
    BY <1>0, <1>30 DEF CancelCleanup, TypeOK
  <2>2. entry' \in [Operations -> {"absent", "idle", "inFlight", "accepted", "closed"}]
    BY <1>0, <1>30 DEF CancelCleanup, TypeOK
  <2>3. cancelStage' \in [Operations -> {"none", "entered", "writing", "dequeuing", "cleaning"}]
    BY <1>0, <1>30 DEF CancelCleanup, TypeOK
  <2> QED BY <1>0, <1>30, <2>1, <2>2, <2>3 DEF CancelCleanup, TypeOK
<1>31. CASE ShutdownBegin
  <2>1. queue' \in Seq(Operations) /\ IsInjective(queue') BY <1>0, <1>31, QueueSteps DEF IInv
  <2>2. active' \in [Targets -> Operations \cup {None}] BY <1>0, <1>31 DEF ShutdownBegin, TypeOK
  <2>3. drained' \subseteq Operations BY <1>0, <1>31, QueueSteps DEF ShutdownBegin, IInv
  <2> QED BY <1>0, <1>31, <2>1, <2>2, <2>3 DEF ShutdownBegin, TypeOK
<1>32. CASE DispatcherStop
  BY <1>0, <1>32 DEF TypeOK, DispatcherStop
<1>33. CASE ShutdownUnlock
  BY <1>0, <1>33 DEF TypeOK, ShutdownUnlock
<1>34. CASE FinalizeWrite
  <2>1. row' \in [Operations -> {"none", "queued", "running"} \cup Terminal]
        /\ unwritten' \subseteq Operations
    BY <1>0, <1>34 DEF FinalizeWrite, TypeOK
  <2> QED BY <1>0, <1>34, <2>1 DEF FinalizeWrite, TypeOK
<1>35. CASE FinalizeRemove
  BY <1>0, <1>35 DEF TypeOK, FinalizeRemove
<1>36. CASE ShutdownReturn
  BY <1>0, <1>36 DEF TypeOK, ShutdownReturn
<1> QED
  BY <1>1, <1>2, <1>3, <1>4, <1>5, <1>6, <1>7, <1>8, <1>9, <1>10, <1>11, <1>12, <1>13, <1>14,
     <1>15, <1>16, <1>17, <1>18, <1>19, <1>20, <1>21, <1>22, <1>23, <1>24, <1>25, <1>26, <1>27,
     <1>28, <1>29, <1>30, <1>31, <1>32, <1>33, <1>34, <1>35, <1>36
  DEF Next, Admission, Dispatch, Reserving, Run, Cancelling, Stopping

LEMMA GatesKept == IInv /\ Next => Gates'
<1> SUFFICES ASSUME IInv, Next PROVE Gates' OBVIOUS
<1> USE DEF dbVars, dispatchVars, admitVars, reserveVars, cancelVars, stopVars, Goto
<1>1. TypeOK /\ Gates BY DEF IInv
<1>2. CASE AdmitBegin
  BY <1>1, <1>2, Maps DEF Gates, InRun, InSlot, Holding, Executing, AdmitBegin
<1>3. CASE AdmitRows
  BY <1>1, <1>3, Maps DEF Gates, InRun, InSlot, Holding, Executing, AdmitRows
<1>4. CASE AdmitCheck
  BY <1>1, <1>4, Maps DEF Gates, InRun, InSlot, Holding, Executing, AdmitCheck
<1>5. CASE AdmitPublish
  BY <1>1, <1>5, Maps DEF Gates, InRun, InSlot, Holding, Executing, AdmitPublish
<1>6. CASE AdmitRefuse
  BY <1>1, <1>6, Maps DEF Gates, InRun, InSlot, Holding, Executing, AdmitRefuse
<1>7. CASE AdmitEnd
  BY <1>1, <1>7, Maps DEF Gates, InRun, InSlot, Holding, Executing, AdmitEnd
<1>8. ASSUME NEW o \in Operations, TakeTask(o) PROVE Gates'
  <2>1. ~closed BY <1>1, <1>8, EmptyWhenClosed, QueueSteps DEF IInv
  <2>2. closed' = closed /\ shutdown' = shutdown BY <1>8 DEF TakeTask
  <2>3. UNCHANGED <<admit, batch, drained, shutdownHolds, finalizer>> BY <1>8 DEF TakeTask
  <2> QED BY <1>1, <2>1, <2>2, <2>3 DEF Gates
<1>9. ASSUME NEW o \in Operations, StartReserve(o) PROVE Gates'
  BY <1>1, <1>9, Maps, EmptyWhenClosed DEF Gates, InRun, InSlot, Holding, Executing, StartReserve
<1>10. ASSUME NEW n \in Limits, SetLimit(n) PROVE Gates'
  BY <1>1, <1>10, Maps DEF Gates, InRun, InSlot, Holding, Executing, SetLimit
<1>11. ASSUME NEW v \in Vaults, ReserveTry(v) \/ ReserveAcquire(v) \/ ReserveAbandon(v)
              \/ ReserveReturn(v) \/ OtherTakes(v) \/ OtherReleases(v)
       PROVE  Gates'
  BY <1>1, <1>11, Maps DEF Gates, InRun, InSlot, Holding, Executing, ReserveTry, ReserveAcquire,
     ReserveAbandon, ReserveReturn, OtherTakes, OtherReleases
<1>12. ASSUME NEW v \in Vaults, ReserveFinish(v) PROVE Gates'
  BY <1>1, <1>12, Maps DEF Gates, InRun, InSlot, Holding, Executing, ReserveFinish, KeepReservation
<1>13. ASSUME NEW o \in Operations, RunActivate(o) PROVE Gates'
  BY <1>1, <1>13, Maps DEF Gates, InRun, InSlot, Holding, Executing, RunActivate
<1>14. ASSUME NEW o \in Operations, RunRestore(o) PROVE Gates'
  BY <1>1, <1>14, Maps DEF Gates, InRun, InSlot, Holding, Executing, RunRestore
<1>15. ASSUME NEW o \in Operations, Execute(o) PROVE Gates'
  BY <1>1, <1>15, Maps, ExecutorSteps DEF Gates, InRun, InSlot, Holding, Executing, Closed
<1>16. ASSUME NEW o \in Operations, RunPersist(o) PROVE Gates'
  BY <1>1, <1>16, Maps DEF Gates, InRun, InSlot, Holding, Executing, RunPersist
<1>17. ASSUME NEW o \in Operations, RunUnlock(o) PROVE Gates'
  BY <1>1, <1>17, Maps DEF Gates, InRun, InSlot, Holding, Executing, RunUnlock
<1>18. ASSUME NEW o \in Operations, RunFreeSlot(o) PROVE Gates'
  BY <1>1, <1>18, Maps DEF Gates, InRun, InSlot, Holding, Executing, RunFreeSlot
<1>19. ASSUME NEW o \in Operations, RunRemove(o) PROVE Gates'
  BY <1>1, <1>19, Maps DEF Gates, InRun, InSlot, Holding, Executing, RunRemove
<1>20. ASSUME NEW o \in Operations, CancelCall(o) \/ CancelStarted(o) \/ CancelQuarantine(o)
              \/ CancelWrite(o) \/ CancelWriteFails(o) \/ CancelCleanup(o)
       PROVE  Gates'
  BY <1>1, <1>20, Maps DEF Gates, InRun, InSlot, Holding, Executing, CancelCall, CancelStarted,
     CancelQuarantine, CancelWrite, CancelWriteFails, CancelCleanup
<1>21. ASSUME NEW o \in Operations, CancelDequeue(o) PROVE Gates'
  <2>1. closed => queue' = <<>>
    <3>1. ASSUME queue = <<>> PROVE queue' = <<>>
      <4>1. 1..Len(queue) = {} BY <3>1
      <4> QED BY <1>21, <3>1, <4>1 DEF CancelDequeue, RemoveFirst
    <3> QED BY <1>1, <3>1 DEF Gates
  <2>2. ready = {} => ready' = {} BY <1>21 DEF CancelDequeue
  <2> QED BY <1>1, <1>21, <2>1, <2>2 DEF Gates, CancelDequeue, InRun, InSlot, Holding, Executing
<1>22. CASE ShutdownBegin
  BY <1>1, <1>22, Maps DEF Gates, InRun, InSlot, Holding, Executing, ShutdownBegin, GateFree
<1>23. CASE DispatcherStop
  BY <1>1, <1>23, Maps DEF Gates, InRun, InSlot, Holding, Executing, DispatcherStop
<1>24. CASE ShutdownUnlock
  BY <1>1, <1>24, Maps DEF Gates, InRun, InSlot, Holding, Executing, ShutdownUnlock
<1>25. CASE FinalizeWrite
  BY <1>1, <1>25, Maps DEF Gates, InRun, InSlot, Holding, Executing, FinalizeWrite
<1>26. CASE FinalizeRemove
  BY <1>1, <1>26, Maps DEF Gates, InRun, InSlot, Holding, Executing, FinalizeRemove
<1>27. CASE ShutdownReturn
  BY <1>1, <1>27, Maps DEF Gates, InRun, InSlot, Holding, Executing, ShutdownReturn, Drained
<1> QED
  BY <1>2, <1>3, <1>4, <1>5, <1>6, <1>7, <1>8, <1>9, <1>10, <1>11, <1>12, <1>13, <1>14, <1>15,
     <1>16, <1>17, <1>18, <1>19, <1>20, <1>21, <1>22, <1>23, <1>24, <1>25, <1>26, <1>27
  DEF Next, Admission, Dispatch, Reserving, Run, Cancelling, Stopping

LEMMA PendingKept == IInv /\ Next => PendingKnown'
<1> SUFFICES ASSUME IInv, Next PROVE PendingKnown' OBVIOUS
<1>1. TypeOK /\ Gates /\ PendingKnown /\ QueuedKnown /\ RowsKnown /\ CancelsKnown BY DEF IInv
<1> USE DEF dbVars, dispatchVars, admitVars, reserveVars, cancelVars, stopVars, Goto
<1>2. CASE UNCHANGED operationVars
  BY <1>1, <1>2, PendingSteps DEF PendingKnown, operationVars, Queued, Untouched
<1>3. CASE AdmitBegin
  BY <1>1, <1>3, Maps, PendingSteps, PendingSteps DEF PendingKnown, Untouched, Queued,
     AdmitBegin
<1>4. CASE AdmitRows
  BY <1>1, <1>4, Maps, PendingSteps, PendingSteps DEF PendingKnown, Untouched, Queued, AdmitRows
<1>5. CASE AdmitCheck
  BY <1>1, <1>5, Maps, PendingSteps, PendingSteps DEF PendingKnown, Untouched, Queued,
     AdmitCheck
<1>6. CASE AdmitPublish
  BY <1>1, <1>6, Maps, PendingSteps, QueueSteps, PendingSteps DEF PendingKnown, Untouched,
     Queued, AdmitPublish
<1>7. CASE AdmitRefuse
  BY <1>1, <1>7, Maps, PendingSteps, NoTasks DEF PendingKnown, Untouched, Queued, Interrupt,
     AdmitRefuse
<1>8. CASE AdmitEnd
  BY <1>1, <1>8, Maps, PendingSteps, NoTasks DEF PendingKnown, Untouched, Queued, AdmitEnd
<1>9. ASSUME NEW o \in Operations, TakeTask(o) PROVE PendingKnown'
  <2>1. o \in Queued /\ Queued' = Queued \ {o} BY <1>1, <1>9, QueueSteps
  <2>2. Pending' = Pending BY <1>1, <1>9, PendingSteps DEF TakeTask
  <2> QED BY <1>1, <1>9, <2>1, <2>2, Maps DEF PendingKnown, Untouched, TakeTask
<1>10. ASSUME NEW o \in Operations, RunActivate(o) PROVE PendingKnown'
  BY <1>1, <1>10, Maps, PendingSteps DEF PendingKnown, Untouched, Queued, RunActivate
<1>11. ASSUME NEW o \in Operations, RunRestore(o) PROVE PendingKnown'
  BY <1>1, <1>11, Maps, PendingSteps DEF PendingKnown, Untouched, Queued, Interrupt, RowsKnown,
     RunRestore
<1>12. ASSUME NEW o \in Operations, Execute(o) PROVE PendingKnown'
  BY <1>1, <1>12, Maps, PendingSteps, ExecutorSteps DEF PendingKnown, Untouched, Queued,
     Executing, Closed
<1>13. ASSUME NEW o \in Operations, RunPersist(o) PROVE PendingKnown'
  BY <1>1, <1>13, Maps, PendingSteps DEF PendingKnown, Untouched, Queued, Status,
     RunPersist
<1>14. ASSUME NEW o \in Operations, RunUnlock(o) PROVE PendingKnown'
  BY <1>1, <1>14, Maps, PendingSteps DEF PendingKnown, Untouched, Queued, RunUnlock
<1>15. ASSUME NEW o \in Operations, RunFreeSlot(o) PROVE PendingKnown'
  BY <1>1, <1>15, Maps, PendingSteps DEF PendingKnown, Untouched, Queued, RunFreeSlot
<1>16. ASSUME NEW o \in Operations, RunRemove(o) PROVE PendingKnown'
  BY <1>1, <1>16, Maps, PendingSteps DEF PendingKnown, Untouched, Queued, RunRemove
<1>17. ASSUME NEW o \in Operations, CancelCall(o) PROVE PendingKnown'
  BY <1>1, <1>17, Maps, PendingSteps DEF PendingKnown, Untouched, Queued, CancelCall
<1>18. ASSUME NEW o \in Operations, CancelStarted(o) PROVE PendingKnown'
  BY <1>1, <1>18, Maps, PendingSteps DEF PendingKnown, Untouched, Queued, CancelStarted
<1>19. ASSUME NEW o \in Operations, CancelQuarantine(o) PROVE PendingKnown'
  BY <1>1, <1>19, Maps, PendingSteps DEF PendingKnown, Untouched, Queued, CancelQuarantine
<1>20. ASSUME NEW o \in Operations, CancelWrite(o) PROVE PendingKnown'
  BY <1>1, <1>20, Maps, PendingSteps DEF PendingKnown, Untouched, Queued, Interrupt,
     CancelsKnown, QueuedKnown, CancelWrite
<1>21. ASSUME NEW o \in Operations, CancelWriteFails(o) PROVE PendingKnown'
  BY <1>1, <1>21, Maps, PendingSteps DEF PendingKnown, Untouched, Queued, CancelWriteFails
<1>22. ASSUME NEW o \in Operations, CancelDequeue(o) PROVE PendingKnown'
  BY <1>1, <1>22, Maps, PendingSteps, QueueSteps DEF PendingKnown, Untouched, Queued,
     CancelDequeue
<1>23. ASSUME NEW o \in Operations, CancelCleanup(o) PROVE PendingKnown'
  BY <1>1, <1>23, Maps, PendingSteps DEF PendingKnown, Untouched, Queued, CancelCleanup
<1>24. CASE ShutdownBegin
  BY <1>1, <1>24, Maps, PendingSteps, QueueSteps DEF PendingKnown, Untouched, Queued,
     ShutdownBegin
<1>25. CASE ShutdownUnlock
  BY <1>1, <1>25, Maps, PendingSteps DEF PendingKnown, Untouched, Queued, ShutdownUnlock
<1>26. CASE FinalizeWrite
  BY <1>1, <1>26, Maps, PendingSteps DEF PendingKnown, Untouched, Queued, Interrupt,
     QueuedKnown, FinalizeWrite
<1>27. CASE FinalizeRemove
  BY <1>1, <1>27, Maps, PendingSteps DEF PendingKnown, Untouched, Queued, FinalizeRemove
<1> QED
  BY OtherSteps, <1>2, <1>3, <1>4, <1>5, <1>6, <1>7, <1>8, <1>9, <1>10, <1>11, <1>12, <1>13,
     <1>14, <1>15, <1>16, <1>17, <1>18, <1>19, <1>20, <1>21, <1>22, <1>23, <1>24, <1>25, <1>26,
     <1>27 DEF Run

LEMMA QueuedKept == IInv /\ Next => QueuedKnown'
<1> SUFFICES ASSUME IInv, Next PROVE QueuedKnown' OBVIOUS
<1>1. TypeOK /\ Gates /\ PendingKnown /\ QueuedKnown /\ CancelsKnown BY DEF IInv
<1> USE DEF dbVars, dispatchVars, admitVars, reserveVars, cancelVars, stopVars, Goto
<1>2. CASE UNCHANGED operationVars
  BY <1>1, <1>2, PendingSteps DEF QueuedKnown, operationVars, Queued
<1>3. CASE AdmitBegin
  BY <1>1, <1>3, Maps, PendingSteps DEF QueuedKnown, Queued, AdmitBegin
<1>4. CASE AdmitRows
  BY <1>1, <1>4, Maps, PendingSteps DEF QueuedKnown, Queued, PendingKnown, Untouched, AdmitRows
<1>5. CASE AdmitCheck
  BY <1>1, <1>5, Maps, PendingSteps DEF QueuedKnown, Queued, AdmitCheck
<1>6. CASE AdmitPublish
  BY <1>1, <1>6, Maps, QueueSteps, PendingSteps DEF QueuedKnown, Queued, PendingKnown,
     Untouched, AdmitPublish
<1>7. CASE AdmitRefuse
  BY <1>1, <1>7, Maps, PendingSteps DEF QueuedKnown, Queued, PendingKnown, Untouched, Interrupt,
     AdmitRefuse
<1>8. CASE AdmitEnd
  BY <1>1, <1>8, Maps, PendingSteps DEF QueuedKnown, Queued, AdmitEnd
<1>9. ASSUME NEW o \in Operations, TakeTask(o) PROVE QueuedKnown'
  <2>1. o \in Queued /\ ~Skipped(o) /\ Queued' = Queued \ {o} BY <1>1, <1>9, QueueSteps
  <2> QED BY <1>1, <1>9, <2>1, Maps DEF QueuedKnown, Gates, Skipped, TakeTask
<1>10. ASSUME NEW o \in Operations, RunActivate(o) PROVE QueuedKnown'
  BY <1>1, <1>10, Maps DEF QueuedKnown, Queued, RunActivate
<1>11. ASSUME NEW o \in Operations, RunRestore(o) PROVE QueuedKnown'
  BY <1>1, <1>11, Maps DEF QueuedKnown, Queued, Interrupt, RunRestore
<1>12. ASSUME NEW o \in Operations, Execute(o) PROVE QueuedKnown'
  BY <1>1, <1>12, Maps, ExecutorSteps DEF QueuedKnown, Queued, Executing, Closed
<1>13. ASSUME NEW o \in Operations, RunPersist(o) PROVE QueuedKnown'
  BY <1>1, <1>13, Maps DEF QueuedKnown, Queued, RunPersist
<1>14. ASSUME NEW o \in Operations, RunUnlock(o) PROVE QueuedKnown'
  BY <1>1, <1>14, Maps DEF QueuedKnown, Queued, RunUnlock
<1>15. ASSUME NEW o \in Operations, RunFreeSlot(o) PROVE QueuedKnown'
  BY <1>1, <1>15, Maps DEF QueuedKnown, Queued, RunFreeSlot
<1>16. ASSUME NEW o \in Operations, RunRemove(o) PROVE QueuedKnown'
  BY <1>1, <1>16, Maps DEF QueuedKnown, Queued, RunRemove
<1>17. ASSUME NEW o \in Operations, CancelCall(o) PROVE QueuedKnown'
  BY <1>1, <1>17, Maps DEF QueuedKnown, Queued, CancelsKnown, CancelCall
<1>18. ASSUME NEW o \in Operations, CancelStarted(o) PROVE QueuedKnown'
  BY <1>1, <1>18, Maps DEF QueuedKnown, Queued, CancelsKnown, CancelStarted
<1>19. ASSUME NEW o \in Operations, CancelQuarantine(o) PROVE QueuedKnown'
  BY <1>1, <1>19, Maps DEF QueuedKnown, Queued, CancelQuarantine
<1>20. ASSUME NEW o \in Operations, CancelWrite(o) PROVE QueuedKnown'
  BY <1>1, <1>20, Maps DEF QueuedKnown, Queued, Interrupt, CancelsKnown, CancelWrite
<1>21. ASSUME NEW o \in Operations, CancelWriteFails(o) PROVE QueuedKnown'
  BY <1>1, <1>21, Maps DEF QueuedKnown, Queued, CancelWriteFails
<1>22. ASSUME NEW o \in Operations, CancelDequeue(o) PROVE QueuedKnown'
  <2>1. Queued' = Queued \ {o} BY <1>1, <1>22, QueueSteps
  <2> QED BY <1>1, <1>22, <2>1, Maps DEF QueuedKnown, Gates, CancelDequeue
<1>23. ASSUME NEW o \in Operations, CancelCleanup(o) PROVE QueuedKnown'
  BY <1>1, <1>23, Maps DEF QueuedKnown, Queued, CancelCleanup
<1>24. CASE ShutdownBegin
  BY <1>1, <1>24, Maps, QueueSteps DEF QueuedKnown, Queued, Gates, CancelsKnown, ShutdownBegin
<1>25. CASE ShutdownUnlock
  BY <1>1, <1>25, Maps DEF QueuedKnown, Queued, Gates, ShutdownUnlock
<1>26. CASE FinalizeWrite
  BY <1>1, <1>26, Maps, NoTasks DEF QueuedKnown, Queued, Interrupt, Gates, FinalizeWrite
<1>27. CASE FinalizeRemove
  BY <1>1, <1>27, Maps DEF QueuedKnown, Queued, Interrupt, FinalizeRemove
<1> QED
  BY OtherSteps, <1>2, <1>3, <1>4, <1>5, <1>6, <1>7, <1>8, <1>9, <1>10, <1>11, <1>12, <1>13,
     <1>14, <1>15, <1>16, <1>17, <1>18, <1>19, <1>20, <1>21, <1>22, <1>23, <1>24, <1>25, <1>26,
     <1>27 DEF Run

LEMMA CancelsKept == IInv /\ Next => CancelsKnown'
<1> SUFFICES ASSUME IInv, Next PROVE CancelsKnown' OBVIOUS
<1>1. TypeOK /\ Gates /\ PendingKnown /\ QueuedKnown /\ CancelsKnown BY DEF IInv
<1> USE DEF dbVars, dispatchVars, admitVars, reserveVars, cancelVars, stopVars, Goto, Closed
<1>2. CASE UNCHANGED operationVars
  BY <1>1, <1>2, PendingSteps DEF CancelsKnown, operationVars, Queued
<1>3. CASE AdmitBegin
  BY <1>1, <1>3, Maps, PendingSteps DEF CancelsKnown, Queued, AdmitBegin
<1>4. CASE AdmitRows
  BY <1>1, <1>4, Maps, PendingSteps DEF CancelsKnown, Queued, PendingKnown, Untouched, AdmitRows
<1>5. CASE AdmitCheck
  BY <1>1, <1>5, Maps, PendingSteps DEF CancelsKnown, Queued, AdmitCheck
<1>6. CASE AdmitPublish
  BY <1>1, <1>6, Maps, QueueSteps, PendingSteps DEF CancelsKnown, Queued, PendingKnown,
     Untouched, AdmitPublish
<1>7. CASE AdmitRefuse
  BY <1>1, <1>7, Maps, PendingSteps DEF CancelsKnown, Queued, PendingKnown, Untouched,
     Interrupt, AdmitRefuse
<1>8. CASE AdmitEnd
  BY <1>1, <1>8, Maps, PendingSteps DEF CancelsKnown, Queued, AdmitEnd
<1>9. ASSUME NEW o \in Operations, TakeTask(o) PROVE CancelsKnown'
  <2>1. o \in Queued /\ ~Skipped(o) /\ Queued' = Queued \ {o} BY <1>1, <1>9, QueueSteps
  <2> QED BY <1>1, <1>9, <2>1, Maps DEF CancelsKnown, QueuedKnown, Skipped, TakeTask
<1>10. ASSUME NEW o \in Operations, RunActivate(o) PROVE CancelsKnown'
  BY <1>1, <1>10, Maps DEF CancelsKnown, Queued, RunActivate
<1>11. ASSUME NEW o \in Operations, RunRestore(o) PROVE CancelsKnown'
  BY <1>1, <1>11, Maps DEF CancelsKnown, Queued, Interrupt, RunRestore
<1>12. ASSUME NEW o \in Operations, Execute(o) PROVE CancelsKnown'
  BY <1>1, <1>12, Maps, ExecutorSteps DEF CancelsKnown, Queued, Executing, Closed
<1>13. ASSUME NEW o \in Operations, RunPersist(o) PROVE CancelsKnown'
  BY <1>1, <1>13, Maps DEF CancelsKnown, Queued, RunPersist
<1>14. ASSUME NEW o \in Operations, RunUnlock(o) PROVE CancelsKnown'
  BY <1>1, <1>14, Maps DEF CancelsKnown, Queued, RunUnlock
<1>15. ASSUME NEW o \in Operations, RunFreeSlot(o) PROVE CancelsKnown'
  BY <1>1, <1>15, Maps DEF CancelsKnown, Queued, RunFreeSlot
<1>16. ASSUME NEW o \in Operations, RunRemove(o) PROVE CancelsKnown'
  BY <1>1, <1>16, Maps DEF CancelsKnown, Queued, RunRemove
<1>17. ASSUME NEW o \in Operations, CancelCall(o) PROVE CancelsKnown'
  BY <1>1, <1>17, Maps DEF CancelsKnown, Queued, CancelCall
<1>18. ASSUME NEW o \in Operations, CancelStarted(o) PROVE CancelsKnown'
  BY <1>1, <1>18, Maps DEF CancelsKnown, Queued, CancelStarted
<1>19. ASSUME NEW o \in Operations, CancelQuarantine(o) PROVE CancelsKnown'
  BY <1>1, <1>19, Maps DEF CancelsKnown, Queued, QueuedKnown, CancelQuarantine
<1>20. ASSUME NEW o \in Operations, CancelWrite(o) PROVE CancelsKnown'
  BY <1>1, <1>20, Maps DEF CancelsKnown, Queued, Interrupt, CancelsKnown, CancelWrite
<1>21. ASSUME NEW o \in Operations, CancelWriteFails(o) PROVE CancelsKnown'
  BY <1>1, <1>21, Maps DEF CancelsKnown, Queued, CancelWriteFails
<1>22. ASSUME NEW o \in Operations, CancelDequeue(o) PROVE CancelsKnown'
  <2>1. Queued' = Queued \ {o} BY <1>1, <1>22, QueueSteps
  <2> QED BY <1>1, <1>22, <2>1, Maps DEF CancelsKnown, QueuedKnown, CancelDequeue
<1>23. ASSUME NEW o \in Operations, CancelCleanup(o) PROVE CancelsKnown'
  BY <1>1, <1>23, Maps DEF CancelsKnown, Queued, CancelCleanup
<1>24. CASE ShutdownBegin
  BY <1>1, <1>24, Maps, QueueSteps DEF CancelsKnown, Queued, Gates, ShutdownBegin
<1>25. CASE ShutdownUnlock
  BY <1>1, <1>25, Maps DEF CancelsKnown, Queued, ShutdownUnlock
<1>26. CASE FinalizeWrite
  BY <1>1, <1>26, Maps DEF CancelsKnown, Queued, Interrupt, FinalizeWrite
<1>27. CASE FinalizeRemove
  BY <1>1, <1>27, Maps DEF CancelsKnown, Queued, FinalizeRemove
<1> QED
  BY OtherSteps, <1>2, <1>3, <1>4, <1>5, <1>6, <1>7, <1>8, <1>9, <1>10, <1>11, <1>12, <1>13,
     <1>14, <1>15, <1>16, <1>17, <1>18, <1>19, <1>20, <1>21, <1>22, <1>23, <1>24, <1>25, <1>26,
     <1>27 DEF Run

LEMMA StopsKept == IInv /\ Next => StopsKnown'
<1> SUFFICES ASSUME IInv, Next PROVE StopsKnown' OBVIOUS
<1>1. TypeOK /\ Gates /\ PendingKnown /\ QueuedKnown /\ CancelsKnown
      /\ StopsKnown
  BY DEF IInv
<1> USE DEF dbVars, dispatchVars, admitVars, reserveVars, cancelVars, stopVars, Goto, Closed
<1>2. CASE UNCHANGED operationVars
  BY <1>1, <1>2, PendingSteps DEF StopsKnown, operationVars, Queued
<1>3. CASE AdmitBegin
  BY <1>1, <1>3, Maps, PendingSteps DEF StopsKnown, Queued, AdmitBegin
<1>4. CASE AdmitRows
  BY <1>1, <1>4, Maps, PendingSteps DEF StopsKnown, Queued, PendingKnown, Untouched, AdmitRows
<1>5. CASE AdmitCheck
  BY <1>1, <1>5, Maps, PendingSteps DEF StopsKnown, Queued, AdmitCheck
<1>6. CASE AdmitPublish
  BY <1>1, <1>6, Maps, QueueSteps, PendingSteps DEF StopsKnown, Queued, PendingKnown,
     Untouched, AdmitPublish
<1>7. CASE AdmitRefuse
  BY <1>1, <1>7, Maps, PendingSteps DEF StopsKnown, Queued, PendingKnown, Untouched,
     Interrupt, AdmitRefuse
<1>8. CASE AdmitEnd
  BY <1>1, <1>8, Maps, PendingSteps DEF StopsKnown, Queued, AdmitEnd
<1>9. ASSUME NEW o \in Operations, TakeTask(o) PROVE StopsKnown'
  <2>1. o \in Queued /\ ~Skipped(o) /\ Queued' = Queued \ {o} BY <1>1, <1>9, QueueSteps
  <2> QED BY <1>1, <1>9, <2>1, Maps DEF StopsKnown, QueuedKnown, Skipped, TakeTask
<1>10. ASSUME NEW o \in Operations, RunActivate(o) PROVE StopsKnown'
  BY <1>1, <1>10, Maps DEF StopsKnown, Queued, RunActivate
<1>11. ASSUME NEW o \in Operations, RunRestore(o) PROVE StopsKnown'
  BY <1>1, <1>11, Maps DEF StopsKnown, Queued, Interrupt, RunRestore
<1>12. ASSUME NEW o \in Operations, Execute(o) PROVE StopsKnown'
  <2>1. UNCHANGED <<row, queue, cancelStage, cancelRequested, accepted, ended, closed, drained>>
    BY <1>12, ExecutorSteps
  <2>2. /\ stage[o] \notin {"none", "done"} /\ stage'[o] # "none"
        /\ \A x \in Operations \ {o} : stage'[x] = stage[x] /\ entry'[x] = entry[x]
    BY <1>1, <1>12, ExecutorSteps, Maps DEF Executing
  <2>3. \A x \in Operations : taskErr'[x] = "ended" =>
            taskErr[x] = "ended" \/ x \in cancelRequested \/ closed
    <3>1. "ended" \in ContextErr(o) => o \in cancelRequested \/ closed
      BY <1>1, <2>2 DEF ContextErr, StopsKnown, Gates
    <3> QED BY <1>1, <1>12, <3>1, ExecutorSteps, Maps
  <2> QED BY <1>1, <2>1, <2>2, <2>3, Maps DEF StopsKnown, Queued
<1>13. ASSUME NEW o \in Operations, RunPersist(o) PROVE StopsKnown'
  BY <1>1, <1>13, Maps DEF StopsKnown, Queued, RunPersist
<1>14. ASSUME NEW o \in Operations, RunUnlock(o) PROVE StopsKnown'
  BY <1>1, <1>14, Maps DEF StopsKnown, Queued, RunUnlock
<1>15. ASSUME NEW o \in Operations, RunFreeSlot(o) PROVE StopsKnown'
  BY <1>1, <1>15, Maps DEF StopsKnown, Queued, RunFreeSlot
<1>16. ASSUME NEW o \in Operations, RunRemove(o) PROVE StopsKnown'
  BY <1>1, <1>16, Maps DEF StopsKnown, Queued, RunRemove
<1>17. ASSUME NEW o \in Operations, CancelCall(o) PROVE StopsKnown'
  BY <1>1, <1>17, Maps DEF StopsKnown, Queued, CancelCall
<1>18. ASSUME NEW o \in Operations, CancelStarted(o) PROVE StopsKnown'
  BY <1>1, <1>18, Maps DEF StopsKnown, Queued, CancelsKnown, CancelStarted
<1>19. ASSUME NEW o \in Operations, CancelQuarantine(o) PROVE StopsKnown'
  BY <1>1, <1>19, Maps DEF StopsKnown, Queued, QueuedKnown, CancelQuarantine
<1>20. ASSUME NEW o \in Operations, CancelWrite(o) PROVE StopsKnown'
  BY <1>1, <1>20, Maps DEF StopsKnown, Queued, Interrupt, CancelWrite
<1>21. ASSUME NEW o \in Operations, CancelWriteFails(o) PROVE StopsKnown'
  BY <1>1, <1>21, Maps DEF StopsKnown, Queued, CancelsKnown, CancelWriteFails
<1>22. ASSUME NEW o \in Operations, CancelDequeue(o) PROVE StopsKnown'
  <2>1. Queued' = Queued \ {o} BY <1>1, <1>22, QueueSteps
  <2> QED BY <1>1, <1>22, <2>1, Maps DEF StopsKnown, CancelsKnown, CancelDequeue
<1>23. ASSUME NEW o \in Operations, CancelCleanup(o) PROVE StopsKnown'
  BY <1>1, <1>23, Maps DEF StopsKnown, Queued, CancelsKnown, CancelCleanup
<1>24. CASE ShutdownBegin
  BY <1>1, <1>24, Maps, QueueSteps DEF StopsKnown, Queued, Gates, ShutdownBegin
<1>25. CASE ShutdownUnlock
  BY <1>1, <1>25, Maps DEF StopsKnown, Queued, ShutdownUnlock
<1>26. CASE FinalizeWrite
  BY <1>1, <1>26, Maps DEF StopsKnown, Queued, Interrupt, FinalizeWrite
<1>27. CASE FinalizeRemove
  BY <1>1, <1>27, Maps DEF StopsKnown, Queued, Gates, FinalizeRemove
<1> QED
  BY OtherSteps, <1>2, <1>3, <1>4, <1>5, <1>6, <1>7, <1>8, <1>9, <1>10, <1>11, <1>12, <1>13,
     <1>14, <1>15, <1>16, <1>17, <1>18, <1>19, <1>20, <1>21, <1>22, <1>23, <1>24, <1>25, <1>26,
     <1>27 DEF Run

LEMMA RowsKept == IInv /\ Next => RowsKnown'
<1> SUFFICES ASSUME IInv, Next PROVE RowsKnown' OBVIOUS
<1>1. TypeOK /\ Gates /\ PendingKnown /\ QueuedKnown /\ RowsKnown /\ CancelsKnown BY DEF IInv
<1> USE DEF dbVars, dispatchVars, admitVars, reserveVars, cancelVars, stopVars, Goto, Live,
   Terminal, BeforeWrite, Executing
<1>2. CASE UNCHANGED operationVars
  BY <1>1, <1>2, PendingSteps DEF RowsKnown, operationVars, Queued
<1>3. CASE AdmitBegin
  BY <1>1, <1>3, Maps, PendingSteps, PendingSteps DEF RowsKnown, Queued, AdmitBegin
<1>4. CASE AdmitRows
  BY <1>1, <1>4, Maps, PendingSteps, PendingSteps DEF RowsKnown, Queued, PendingKnown,
     Untouched, AdmitRows
<1>5. CASE AdmitCheck
  BY <1>1, <1>5, Maps, PendingSteps, PendingSteps DEF RowsKnown, Queued, AdmitCheck
<1>6. CASE AdmitPublish
  BY <1>1, <1>6, Maps, PendingSteps, QueueSteps, PendingSteps DEF RowsKnown, Queued,
     PendingKnown, Untouched, AdmitPublish
<1>7. CASE AdmitRefuse
  BY <1>1, <1>7, Maps, PendingSteps, PendingSteps DEF RowsKnown, Queued, PendingKnown,
     Untouched, Interrupt, AdmitRefuse
<1>8. CASE AdmitEnd
  BY <1>1, <1>8, Maps, PendingSteps, PendingSteps DEF RowsKnown, Queued, AdmitEnd
<1>9. ASSUME NEW o \in Operations, TakeTask(o) PROVE RowsKnown'
  <2>1. o \in Queued /\ ~Skipped(o) /\ Queued' = Queued \ {o} BY <1>1, <1>9, QueueSteps
  <2> QED
    BY <1>1, <1>9, <2>1, Maps, PendingSteps DEF RowsKnown, QueuedKnown, CancelsKnown, Skipped,
       TakeTask
<1>10. ASSUME NEW o \in Operations, RunActivate(o) PROVE RowsKnown'
  BY <1>1, <1>10, Maps, PendingSteps DEF RowsKnown, Queued, RunActivate
<1>11. ASSUME NEW o \in Operations, RunRestore(o) PROVE RowsKnown'
  BY <1>1, <1>11, Maps, PendingSteps DEF RowsKnown, Queued, Interrupt, RunRestore
<1>12. ASSUME NEW o \in Operations, Execute(o) PROVE RowsKnown'
  BY <1>1, <1>12, Maps, PendingSteps, ExecutorSteps DEF RowsKnown, Queued, Closed
<1>13. ASSUME NEW o \in Operations, RunPersist(o) PROVE RowsKnown'
  BY <1>1, <1>13, Maps, PendingSteps DEF RowsKnown, Queued, Status, RunPersist
<1>14. ASSUME NEW o \in Operations, RunUnlock(o) PROVE RowsKnown'
  BY <1>1, <1>14, Maps, PendingSteps DEF RowsKnown, Queued, RunUnlock
<1>15. ASSUME NEW o \in Operations, RunFreeSlot(o) PROVE RowsKnown'
  BY <1>1, <1>15, Maps, PendingSteps DEF RowsKnown, Queued, RunFreeSlot
<1>16. ASSUME NEW o \in Operations, RunRemove(o) PROVE RowsKnown'
  BY <1>1, <1>16, Maps, PendingSteps DEF RowsKnown, Queued, Closed, RunRemove
<1>17. ASSUME NEW o \in Operations, CancelCall(o) PROVE RowsKnown'
  BY <1>1, <1>17, Maps, PendingSteps DEF RowsKnown, Queued, CancelCall
<1>18. ASSUME NEW o \in Operations, CancelStarted(o) PROVE RowsKnown'
  BY <1>1, <1>18, Maps, PendingSteps DEF RowsKnown, Queued, CancelStarted
<1>19. ASSUME NEW o \in Operations, CancelQuarantine(o) PROVE RowsKnown'
  BY <1>1, <1>19, Maps, PendingSteps DEF RowsKnown, Queued, CancelQuarantine
<1>20. ASSUME NEW o \in Operations, CancelWrite(o) PROVE RowsKnown'
  BY <1>1, <1>20, Maps, PendingSteps DEF RowsKnown, Queued, Interrupt, CancelsKnown,
     QueuedKnown, CancelWrite
<1>21. ASSUME NEW o \in Operations, CancelWriteFails(o) PROVE RowsKnown'
  BY <1>1, <1>21, Maps, PendingSteps DEF RowsKnown, Queued, CancelWriteFails
<1>22. ASSUME NEW o \in Operations, CancelDequeue(o) PROVE RowsKnown'
  <2>1. Queued' = Queued \ {o} BY <1>1, <1>22, QueueSteps
  <2> QED
    BY <1>1, <1>22, <2>1, Maps, PendingSteps DEF RowsKnown, QueuedKnown, CancelsKnown,
       CancelDequeue
<1>23. ASSUME NEW o \in Operations, CancelCleanup(o) PROVE RowsKnown'
  BY <1>1, <1>23, Maps, PendingSteps DEF RowsKnown, Queued, CancelsKnown, CancelCleanup
<1>24. CASE ShutdownBegin
  BY <1>1, <1>24, Maps, PendingSteps, QueueSteps DEF RowsKnown, Queued, Gates, QueuedKnown,
     ShutdownBegin
<1>25. CASE ShutdownUnlock
  BY <1>1, <1>25, Maps, PendingSteps DEF RowsKnown, Queued, ShutdownUnlock
<1>26. CASE FinalizeWrite
  BY <1>1, <1>26, Maps, PendingSteps DEF RowsKnown, Queued, Interrupt, QueuedKnown,
     FinalizeWrite
<1>27. CASE FinalizeRemove
  BY <1>1, <1>27, Maps, PendingSteps DEF RowsKnown, Queued, QueuedKnown, FinalizeRemove
<1> QED
  BY OtherSteps, <1>2, <1>3, <1>4, <1>5, <1>6, <1>7, <1>8, <1>9, <1>10, <1>11, <1>12, <1>13,
     <1>14, <1>15, <1>16, <1>17, <1>18, <1>19, <1>20, <1>21, <1>22, <1>23, <1>24, <1>25, <1>26,
     <1>27 DEF Run

LEMMA SlotsKept == IInv /\ Next => SlotsKnown'
<1> SUFFICES ASSUME IInv, Next PROVE SlotsKnown' OBVIOUS
<1>1. TypeOK /\ Gates /\ PendingKnown /\ QueuedKnown /\ SlotsKnown BY DEF IInv
<1> USE DEF dbVars, dispatchVars, admitVars, reserveVars, cancelVars, stopVars, Goto
<1>2. CASE UNCHANGED operationVars
  BY <1>1, <1>2, PendingSteps, RunsKept DEF SlotsKnown, operationVars, Queued
<1>3. CASE AdmitBegin
  BY <1>1, <1>3, Maps, RunsKept DEF SlotsKnown, AdmitBegin
<1>4. CASE AdmitRows
  BY <1>1, <1>4, Maps, RunsKept DEF SlotsKnown, AdmitRows
<1>5. CASE AdmitCheck
  BY <1>1, <1>5, Maps, RunsKept DEF SlotsKnown, AdmitCheck
<1>6. CASE AdmitPublish
  BY <1>1, <1>6, Maps, RunsKept DEF SlotsKnown, AdmitPublish
<1>7. CASE AdmitRefuse
  BY <1>1, <1>7, Maps, RunsKept DEF SlotsKnown, AdmitRefuse
<1>8. CASE AdmitEnd
  BY <1>1, <1>8, Maps, RunsKept DEF SlotsKnown, AdmitEnd
<1>9. ASSUME NEW o \in Operations, TakeTask(o) PROVE SlotsKnown'
  <2>1. o \in Queued /\ ~Skipped(o) /\ ~closed BY <1>1, <1>9, QueueSteps, EmptyWhenClosed
  <2>2. stage[o] = "none" /\ o \notin Runs
    BY <1>1, <2>1 DEF QueuedKnown, Runs, InSlot, Holding, Executing
  <2>3. Runs' = Runs \cup {o} BY <1>1, <1>9, RunSteps
  <2>4. running' = Cardinality(Runs')
    BY <1>1, <1>9, <2>2, <2>3, RunSteps, FS_AddElement DEF SlotsKnown, TakeTask
  <2>5. closed' = closed /\ vaultActive' = vaultActive \cup {VaultOf(o)} BY <1>9 DEF TakeTask
  <2>6. \A x \in Runs : VaultOf(x) \in Vaults
    BY <1>1, RunSteps DEF Vaults, Targets, VaultOf
  <2> QED BY <1>1, <2>1, <2>3, <2>4, <2>5, <2>6 DEF SlotsKnown, Skipped
<1>10. ASSUME NEW o \in Operations, RunActivate(o) PROVE SlotsKnown'
  BY <1>1, <1>10, Maps, RunsKept, RunSteps DEF SlotsKnown, RunActivate
<1>11. ASSUME NEW o \in Operations, RunRestore(o) PROVE SlotsKnown'
  BY <1>1, <1>11, Maps, RunsKept, RunSteps DEF SlotsKnown, RunRestore
<1>12. ASSUME NEW o \in Operations, Execute(o) PROVE SlotsKnown'
  BY <1>1, <1>12, Maps, RunsKept, RunSteps, ExecutorSteps DEF SlotsKnown, Executing, Closed
<1>13. ASSUME NEW o \in Operations, RunPersist(o) PROVE SlotsKnown'
  BY <1>1, <1>13, Maps, RunsKept, RunSteps DEF SlotsKnown, RunPersist
<1>14. ASSUME NEW o \in Operations, RunUnlock(o) PROVE SlotsKnown'
  BY <1>1, <1>14, Maps, RunsKept, RunSteps DEF SlotsKnown, RunUnlock
<1>15. ASSUME NEW o \in Operations, RunFreeSlot(o) PROVE SlotsKnown'
  <2>1. Runs' = Runs \ {o} /\ o \in Runs BY <1>1, <1>15, RunSteps
  <2>2. Cardinality(Runs \ {o}) = Cardinality(Runs) - 1 /\ Cardinality(Runs) \in Nat
        /\ Cardinality(Runs) # 0
    BY <1>1, <2>1, RunSteps, FS_RemoveElement, FS_CardinalityType, FS_EmptySet
  <2>3. running' = Cardinality(Runs')
    BY <1>1, <1>15, <2>1, <2>2 DEF SlotsKnown, RunFreeSlot
  <2>4. closed' = closed /\ vaultActive' = vaultActive \ {VaultOf(o)} BY <1>15 DEF RunFreeSlot
  <2> QED BY <1>1, <2>1, <2>3, <2>4 DEF SlotsKnown
<1>16. ASSUME NEW o \in Operations, RunRemove(o) PROVE SlotsKnown'
  BY <1>1, <1>16, Maps, RunsKept, RunSteps DEF SlotsKnown, RunRemove
<1>17. ASSUME NEW o \in Operations, CancelCall(o) PROVE SlotsKnown'
  BY <1>1, <1>17, Maps, RunsKept DEF SlotsKnown, CancelCall
<1>18. ASSUME NEW o \in Operations, CancelStarted(o) PROVE SlotsKnown'
  BY <1>1, <1>18, Maps, RunsKept DEF SlotsKnown, CancelStarted
<1>19. ASSUME NEW o \in Operations, CancelQuarantine(o) PROVE SlotsKnown'
  BY <1>1, <1>19, Maps, RunsKept DEF SlotsKnown, CancelQuarantine
<1>20. ASSUME NEW o \in Operations, CancelWrite(o) PROVE SlotsKnown'
  BY <1>1, <1>20, Maps, RunsKept DEF SlotsKnown, CancelWrite
<1>21. ASSUME NEW o \in Operations, CancelWriteFails(o) PROVE SlotsKnown'
  BY <1>1, <1>21, Maps, RunsKept DEF SlotsKnown, CancelWriteFails
<1>22. ASSUME NEW o \in Operations, CancelDequeue(o) PROVE SlotsKnown'
  BY <1>1, <1>22, Maps, RunsKept DEF SlotsKnown, CancelDequeue
<1>23. ASSUME NEW o \in Operations, CancelCleanup(o) PROVE SlotsKnown'
  BY <1>1, <1>23, Maps, RunsKept DEF SlotsKnown, CancelCleanup
<1>24. CASE ShutdownBegin
  BY <1>1, <1>24, Maps, RunsKept DEF SlotsKnown, ShutdownBegin
<1>25. CASE ShutdownUnlock
  BY <1>1, <1>25, Maps, RunsKept DEF SlotsKnown, ShutdownUnlock
<1>26. CASE FinalizeWrite
  BY <1>1, <1>26, Maps, RunsKept DEF SlotsKnown, FinalizeWrite
<1>27. CASE FinalizeRemove
  BY <1>1, <1>27, Maps, RunsKept DEF SlotsKnown, FinalizeRemove
<1> QED
  BY OtherSteps, <1>2, <1>3, <1>4, <1>5, <1>6, <1>7, <1>8, <1>9, <1>10, <1>11, <1>12, <1>13,
     <1>14, <1>15, <1>16, <1>17, <1>18, <1>19, <1>20, <1>21, <1>22, <1>23, <1>24, <1>25, <1>26,
     <1>27 DEF Run

LEMMA TargetsKept == IInv /\ Next => TargetsKnown'
<1> SUFFICES ASSUME IInv, Next PROVE TargetsKnown' OBVIOUS
<1>1. TypeOK /\ Gates /\ PendingKnown /\ QueuedKnown /\ CancelsKnown /\ TargetsKnown BY DEF IInv
<1> USE DEF dbVars, dispatchVars, admitVars, reserveVars, cancelVars, stopVars, Goto
<1>2. CASE UNCHANGED operationVars
  BY <1>1, <1>2, PendingSteps, RunsKept DEF TargetsKnown, operationVars, Queued
<1>3. CASE AdmitBegin
  BY <1>1, <1>3, Maps, RunsKept, PendingSteps DEF TargetsKnown, Queued, AdmitBegin
<1>4. CASE AdmitRows
  BY <1>1, <1>4, Maps, RunsKept, PendingSteps DEF TargetsKnown, Queued, AdmitRows
<1>5. CASE AdmitCheck
  BY <1>1, <1>5, Maps, RunsKept, PendingSteps DEF TargetsKnown, Queued, Pending, AdmitCheck
<1>6. CASE AdmitPublish
  <2>1. Pending = ToSet(batch) /\ Pending \subseteq Operations /\ Pending' = {}
        /\ Queued' = Queued \cup Pending /\ Runs' = Runs
    BY <1>1, <1>6, PendingSteps, QueueSteps, RunsKept DEF AdmitPublish
  <2>2. admit = "publishing" /\ closed' = closed /\ active' = [t \in Targets |->
            IF \E o \in Pending : TargetOf[o] = t
            THEN CHOOSE o \in Pending : TargetOf[o] = t ELSE active[t]]
    BY <1>6, <2>1 DEF AdmitPublish
  <2>3. SUFFICES ASSUME ~closed, NEW x \in Queued \cup Pending \cup Runs
                 PROVE  active'[TargetOf[x]] = x
    BY <2>1, <2>2 DEF TargetsKnown
  <2>4. TargetOf[x] \in Targets /\ x \in Operations
    BY <1>1, <2>1, Maps, RunsKept DEF Targets
  <2>5. CASE x \in Pending
    <3> DEFINE c == CHOOSE o \in Pending : TargetOf[o] = TargetOf[x]
    <3>1. c \in Pending /\ TargetOf[c] = TargetOf[x] BY <2>5
    <3>2. c = x BY <1>1, <2>5, <3>1 DEF PendingKnown
    <3> QED BY <2>2, <2>4, <2>5, <3>2
  <2>6. CASE x \notin Pending
    <3>1. active[TargetOf[x]] = x BY <1>1, <2>3, <2>6 DEF TargetsKnown
    <3>2. \A o \in Pending : TargetOf[o] # TargetOf[x]
      BY <1>1, <2>2, <2>4, <3>1, NoneIsNoTask DEF TargetsKnown
    <3> QED BY <2>2, <2>4, <3>1, <3>2
  <2> QED BY <2>5, <2>6
<1>7. CASE AdmitRefuse
  BY <1>1, <1>7, Maps, RunsKept, PendingSteps DEF TargetsKnown, Queued, AdmitRefuse
<1>8. CASE AdmitEnd
  BY <1>1, <1>8, Maps, RunsKept, PendingSteps DEF TargetsKnown, Queued, AdmitEnd
<1>9. ASSUME NEW o \in Operations, TakeTask(o) PROVE TargetsKnown'
  <2>1. o \in Queued /\ Queued' = Queued \ {o} /\ Runs' = Runs \cup {o}
    BY <1>1, <1>9, QueueSteps, RunSteps
  <2>2. Pending' = Pending /\ UNCHANGED <<active, closed, admit>>
    BY <1>1, <1>9, PendingSteps DEF TakeTask
  <2> QED BY <1>1, <2>1, <2>2 DEF TargetsKnown
<1>10. ASSUME NEW o \in Operations, RunActivate(o) PROVE TargetsKnown'
  BY <1>1, <1>10, Maps, RunsKept, PendingSteps, RunSteps DEF TargetsKnown, Queued, RunActivate
<1>11. ASSUME NEW o \in Operations, RunRestore(o) PROVE TargetsKnown'
  BY <1>1, <1>11, Maps, RunsKept, PendingSteps, RunSteps DEF TargetsKnown, Queued, RunRestore
<1>12. ASSUME NEW o \in Operations, Execute(o) PROVE TargetsKnown'
  BY <1>1, <1>12, Maps, RunsKept, PendingSteps, RunSteps, ExecutorSteps DEF TargetsKnown,
     Queued, Executing, Closed
<1>13. ASSUME NEW o \in Operations, RunPersist(o) PROVE TargetsKnown'
  BY <1>1, <1>13, Maps, RunsKept, PendingSteps, RunSteps DEF TargetsKnown, Queued, RunPersist
<1>14. ASSUME NEW o \in Operations, RunUnlock(o) PROVE TargetsKnown'
  BY <1>1, <1>14, Maps, RunsKept, PendingSteps, RunSteps DEF TargetsKnown, Queued, RunUnlock
<1>15. ASSUME NEW o \in Operations, RunFreeSlot(o) PROVE TargetsKnown'
  <2>1. Queued' = Queued /\ Runs' = Runs \ {o} /\ o \in Runs
    BY <1>1, <1>15, RunSteps DEF RunFreeSlot, Queued
  <2>2. Pending' = Pending /\ UNCHANGED <<closed, admit>>
    BY <1>1, <1>15, PendingSteps DEF RunFreeSlot
  <2>3. o \notin Queued BY <1>1, <2>1 DEF QueuedKnown, Runs, InSlot, Holding, Executing
  <2>4. active' = [active EXCEPT ![TargetOf[o]] = None] BY <1>15 DEF RunFreeSlot
  <2> QED BY <1>1, <2>1, <2>2, <2>3, <2>4, FreeTarget
<1>16. ASSUME NEW o \in Operations, RunRemove(o) PROVE TargetsKnown'
  BY <1>1, <1>16, Maps, RunsKept, PendingSteps, RunSteps DEF TargetsKnown, Queued, RunRemove
<1>17. ASSUME NEW o \in Operations, CancelCall(o) PROVE TargetsKnown'
  BY <1>1, <1>17, Maps, RunsKept, PendingSteps DEF TargetsKnown, Queued, CancelCall
<1>18. ASSUME NEW o \in Operations, CancelStarted(o) PROVE TargetsKnown'
  BY <1>1, <1>18, Maps, RunsKept, PendingSteps DEF TargetsKnown, Queued, CancelStarted
<1>19. ASSUME NEW o \in Operations, CancelQuarantine(o) PROVE TargetsKnown'
  BY <1>1, <1>19, Maps, RunsKept, PendingSteps DEF TargetsKnown, Queued, CancelQuarantine
<1>20. ASSUME NEW o \in Operations, CancelWrite(o) PROVE TargetsKnown'
  BY <1>1, <1>20, Maps, RunsKept, PendingSteps DEF TargetsKnown, Queued, CancelWrite
<1>21. ASSUME NEW o \in Operations, CancelWriteFails(o) PROVE TargetsKnown'
  BY <1>1, <1>21, Maps, RunsKept, PendingSteps DEF TargetsKnown, Queued, CancelWriteFails
<1>22. ASSUME NEW o \in Operations, CancelDequeue(o) PROVE TargetsKnown'
  <2>1. Queued' = Queued \ {o} /\ Runs' = Runs
    BY <1>1, <1>22, QueueSteps, RunsKept DEF CancelDequeue
  <2>2. Pending' = Pending /\ UNCHANGED <<closed, admit>>
    BY <1>1, <1>22, PendingSteps DEF CancelDequeue
  <2>3. ~closed => o \in Queued /\ o \notin Runs
    BY <1>1, <1>22 DEF CancelsKnown, QueuedKnown, Gates, CancelDequeue, Runs, InSlot, Holding, Executing
  <2>4. active' = [active EXCEPT ![TargetOf[o]] = None] BY <1>22 DEF CancelDequeue
  <2> QED BY <1>1, <2>1, <2>2, <2>3, <2>4, FreeTarget
<1>23. ASSUME NEW o \in Operations, CancelCleanup(o) PROVE TargetsKnown'
  BY <1>1, <1>23, Maps, RunsKept, PendingSteps DEF TargetsKnown, Queued, CancelCleanup
<1>24. CASE ShutdownBegin
  <2>1. closed' /\ admit' = admit /\ admit = "idle"
    BY <1>24 DEF ShutdownBegin, GateFree
  <2> QED BY <2>1 DEF TargetsKnown
<1>25. CASE ShutdownUnlock
  BY <1>1, <1>25, Maps, RunsKept, PendingSteps DEF TargetsKnown, Queued, ShutdownUnlock
<1>26. CASE FinalizeWrite
  BY <1>1, <1>26, Maps, RunsKept, PendingSteps DEF TargetsKnown, Queued, FinalizeWrite
<1>27. CASE FinalizeRemove
  BY <1>1, <1>27, Maps, RunsKept, PendingSteps DEF TargetsKnown, Queued, FinalizeRemove
<1> QED
  BY OtherSteps, <1>2, <1>3, <1>4, <1>5, <1>6, <1>7, <1>8, <1>9, <1>10, <1>11, <1>12, <1>13,
     <1>14, <1>15, <1>16, <1>17, <1>18, <1>19, <1>20, <1>21, <1>22, <1>23, <1>24, <1>25, <1>26,
     <1>27 DEF Run

LEMMA DemandKept == IInv /\ Next => DemandKnown'
<1> SUFFICES ASSUME IInv, Next PROVE DemandKnown' OBVIOUS
<1>1. TypeOK /\ Gates /\ PendingKnown /\ QueuedKnown /\ CancelsKnown /\ DemandKnown BY DEF IInv
<1> USE DEF dbVars, dispatchVars, admitVars, reserveVars, cancelVars, stopVars, Goto
<1>2. CASE UNCHANGED <<operationVars, ready>>
  BY <1>1, <1>2 DEF DemandKnown, operationVars, Queued
<1>3. ASSUME NEW v \in Vaults, UNCHANGED operationVars, ReserveFinish(v) PROVE DemandKnown'
  BY <1>1, <1>3, Maps DEF DemandKnown, operationVars, Queued, ReserveFinish, KeepReservation,
     Needs
<1>4. CASE AdmitBegin
  BY <1>1, <1>4, Maps, PendingSteps DEF DemandKnown, Queued, AdmitBegin
<1>5. CASE AdmitRows
  BY <1>1, <1>5, Maps, PendingSteps DEF DemandKnown, Queued, AdmitRows
<1>6. CASE AdmitCheck
  BY <1>1, <1>6, Maps, PendingSteps DEF DemandKnown, Queued, AdmitCheck
<1>7. CASE AdmitPublish
  BY <1>1, <1>7, Maps, QueueSteps, PendingSteps DEF DemandKnown, Queued, PendingKnown,
     Untouched, CancelsKnown, AdmitPublish
<1>8. CASE AdmitRefuse
  BY <1>1, <1>8, Maps, PendingSteps DEF DemandKnown, Queued, AdmitRefuse
<1>9. CASE AdmitEnd
  BY <1>1, <1>9, Maps, PendingSteps DEF DemandKnown, Queued, AdmitEnd
<1>10. ASSUME NEW o \in Operations, TakeTask(o) PROVE DemandKnown'
  <2>1. Queued' = Queued \ {o} BY <1>1, <1>10, QueueSteps
  <2> QED BY <1>1, <1>10, <2>1 DEF DemandKnown, TakeTask
<1>11. ASSUME NEW o \in Operations, RunActivate(o) PROVE DemandKnown'
  BY <1>1, <1>11, Maps DEF DemandKnown, Queued, RunActivate
<1>12. ASSUME NEW o \in Operations, RunRestore(o) PROVE DemandKnown'
  BY <1>1, <1>12, Maps DEF DemandKnown, Queued, RunRestore
<1>13. ASSUME NEW o \in Operations, Execute(o) PROVE DemandKnown'
  BY <1>1, <1>13, Maps, ExecutorSteps DEF DemandKnown, Queued, Executing, Closed
<1>14. ASSUME NEW o \in Operations, RunPersist(o) PROVE DemandKnown'
  BY <1>1, <1>14, Maps DEF DemandKnown, Queued, RunPersist
<1>15. ASSUME NEW o \in Operations, RunUnlock(o) PROVE DemandKnown'
  BY <1>1, <1>15, Maps DEF DemandKnown, Queued, RunUnlock
<1>16. ASSUME NEW o \in Operations, RunFreeSlot(o) PROVE DemandKnown'
  BY <1>1, <1>16, Maps DEF DemandKnown, Queued, RunFreeSlot
<1>17. ASSUME NEW o \in Operations, RunRemove(o) PROVE DemandKnown'
  BY <1>1, <1>17, Maps DEF DemandKnown, Queued, RunRemove
<1>18. ASSUME NEW o \in Operations, CancelCall(o) PROVE DemandKnown'
  BY <1>1, <1>18, Maps DEF DemandKnown, Queued, CancelsKnown, CancelCall
<1>19. ASSUME NEW o \in Operations, CancelStarted(o) PROVE DemandKnown'
  BY <1>1, <1>19, Maps DEF DemandKnown, Queued, CancelsKnown, CancelStarted
<1>20. ASSUME NEW o \in Operations, CancelQuarantine(o) PROVE DemandKnown'
  BY <1>1, <1>20, Maps DEF DemandKnown, Queued, CancelQuarantine
<1>21. ASSUME NEW o \in Operations, CancelWrite(o) PROVE DemandKnown'
  BY <1>1, <1>21, Maps DEF DemandKnown, Queued, CancelWrite
<1>22. ASSUME NEW o \in Operations, CancelWriteFails(o) PROVE DemandKnown'
  BY <1>1, <1>22, Maps DEF DemandKnown, Queued, QueuedKnown, Interruptible, CancelWriteFails
<1>23. ASSUME NEW o \in Operations, CancelDequeue(o) PROVE DemandKnown'
  <2>1. Queued' = Queued \ {o} BY <1>1, <1>23, QueueSteps
  <2>2. Needs(queue', VaultOf(o)) => \E x \in Queued' : VaultOf(x) = VaultOf(o)
    BY DEF Needs, Queued
  <2> QED BY <1>1, <1>23, <2>1, <2>2, Maps DEF DemandKnown, CancelDequeue
<1>24. ASSUME NEW o \in Operations, CancelCleanup(o) PROVE DemandKnown'
  BY <1>1, <1>24, Maps DEF DemandKnown, Queued, CancelCleanup
<1>25. CASE ShutdownBegin
  BY <1>1, <1>25, Maps, NoTasks DEF DemandKnown, Queued, ShutdownBegin
<1>26. CASE ShutdownUnlock
  BY <1>1, <1>26, Maps DEF DemandKnown, Queued, ShutdownUnlock
<1>27. CASE FinalizeWrite
  BY <1>1, <1>27, Maps DEF DemandKnown, Queued, FinalizeWrite
<1>28. CASE FinalizeRemove
  BY <1>1, <1>28, Maps DEF DemandKnown, Queued, FinalizeRemove
<1> QED
  BY OtherSteps, <1>2, <1>3, <1>4, <1>5, <1>6, <1>7, <1>8, <1>9, <1>10, <1>11, <1>12, <1>13,
     <1>14, <1>15, <1>16, <1>17, <1>18, <1>19, <1>20, <1>21, <1>22, <1>23, <1>24, <1>25, <1>26,
     <1>27, <1>28 DEF Run

LEMMA HoldersKept == IInv /\ Next => HoldersKnown'
<1> SUFFICES ASSUME IInv, Next PROVE HoldersKnown' OBVIOUS
<1> USE DEF dbVars, dispatchVars, admitVars, reserveVars, cancelVars, stopVars, Goto
<1>1. TypeOK /\ Gates /\ CancelsKnown /\ SlotsKnown /\ HoldersKnown BY DEF IInv
<1>2. CASE AdmitBegin \/ AdmitRows \/ AdmitCheck \/ AdmitPublish \/ AdmitRefuse \/ AdmitEnd
  BY <1>1, <1>2, HoldingSteps, Maps, VaultMaps DEF HoldersKnown, OneHolder, ByCancel,
     ByReserver, AdmitBegin, AdmitRows, AdmitCheck, AdmitPublish, AdmitRefuse, AdmitEnd
<1>3. ASSUME NEW o \in Operations, TakeTask(o) PROVE HoldersKnown'
  <2>1. /\ UNCHANGED <<waiting, reserver, returning, holder, shutdownHolds, cancelHolds>>
        /\ VaultOf(o) \in ready /\ ready' = ready \ {VaultOf(o)}
    BY <1>3 DEF TakeTask, Head1
  <2>2. \A v \in Vaults : ByRun(v)' <=> ByRun(v) \/ v = VaultOf(o)
    BY <1>1, <1>3, HoldingSteps
  <2> QED BY <1>1, <2>1, <2>2, VaultMaps DEF HoldersKnown, OneHolder, ByCancel, ByReserver
<1>4. ASSUME NEW o \in Operations, StartReserve(o) PROVE HoldersKnown'
  BY <1>1, <1>4, HoldingSteps, Maps, VaultMaps DEF HoldersKnown, OneHolder, ByCancel,
     ByReserver, StartReserve
<1>5. ASSUME NEW n \in Limits, SetLimit(n) PROVE HoldersKnown'
  BY <1>1, <1>5, HoldingSteps, Maps, VaultMaps DEF HoldersKnown, OneHolder, ByCancel,
     ByReserver, SetLimit
<1>6. ASSUME NEW v \in Vaults, ReserveTry(v) PROVE HoldersKnown'
  BY <1>1, <1>6, HoldingSteps, Maps, VaultMaps DEF HoldersKnown, OneHolder, ByCancel,
     ByReserver, ReserveTry
<1>7. ASSUME NEW v \in Vaults, ReserveAcquire(v) PROVE HoldersKnown'
  BY <1>1, <1>7, HoldingSteps, Maps, VaultMaps DEF HoldersKnown, OneHolder, ByCancel,
     ByReserver, ReserveAcquire
<1>8. ASSUME NEW v \in Vaults, ReserveAbandon(v) PROVE HoldersKnown'
  BY <1>1, <1>8, HoldingSteps, Maps, VaultMaps DEF HoldersKnown, OneHolder, ByCancel,
     ByReserver, ReserveAbandon
<1>9. ASSUME NEW v \in Vaults, ReserveFinish(v) PROVE HoldersKnown'
  BY <1>1, <1>9, HoldingSteps, Maps, VaultMaps DEF HoldersKnown, OneHolder, ByCancel,
     ByReserver, ReserveFinish
<1>10. ASSUME NEW v \in Vaults, ReserveReturn(v) PROVE HoldersKnown'
  BY <1>1, <1>10, HoldingSteps, Maps, VaultMaps DEF HoldersKnown, OneHolder, ByCancel,
     ByReserver, ReserveReturn
<1>11. ASSUME NEW v \in Vaults, OtherTakes(v) PROVE HoldersKnown'
  BY <1>1, <1>11, HoldingSteps, Maps, VaultMaps DEF HoldersKnown, OneHolder, ByCancel,
     ByReserver, OtherTakes
<1>12. ASSUME NEW v \in Vaults, OtherReleases(v) PROVE HoldersKnown'
  BY <1>1, <1>12, HoldingSteps, Maps, VaultMaps DEF HoldersKnown, OneHolder, ByCancel,
     ByReserver, OtherReleases
<1>13. ASSUME NEW o \in Operations, RunActivate(o) \/ RunRestore(o) \/ Execute(o)
              \/ RunPersist(o) \/ RunFreeSlot(o) \/ RunRemove(o)
       PROVE  HoldersKnown'
  <2>1. UNCHANGED <<holder, waiting, reserver, returning, ready, shutdownHolds, cancelHolds>>
    BY <1>13, ExecutorSteps DEF RunActivate, RunRestore, RunPersist, RunFreeSlot, RunRemove
  <2>2. \A v \in Vaults : ByRun(v)' <=> ByRun(v) BY <1>1, <1>13, HoldingSteps
  <2> QED BY <1>1, <2>1, <2>2 DEF HoldersKnown, OneHolder, ByCancel, ByReserver
<1>14. ASSUME NEW o \in Operations, RunUnlock(o) PROVE HoldersKnown'
  <2>1. /\ UNCHANGED <<waiting, reserver, returning, ready, shutdownHolds, cancelHolds>>
        /\ holder' = [holder EXCEPT ![VaultOf(o)] = "free"]
    BY <1>14 DEF RunUnlock
  <2>2. /\ \A v \in Vaults : ByRun(v)' <=> ByRun(v) /\ v # VaultOf(o)
        /\ ByRun(VaultOf(o))
    BY <1>1, <1>14, HoldingSteps
  <2> QED BY <1>1, <2>1, <2>2, VaultMaps DEF HoldersKnown, OneHolder, ByCancel, ByReserver
<1>15. ASSUME NEW o \in Operations, CancelCall(o) \/ CancelStarted(o) \/ CancelQuarantine(o)
              \/ CancelWrite(o) \/ CancelWriteFails(o)
       PROVE  HoldersKnown'
  BY <1>1, <1>15, HoldingSteps, Maps, VaultMaps DEF HoldersKnown, OneHolder, ByCancel,
     ByReserver, CancelCall, CancelStarted, CancelQuarantine, CancelWrite, CancelWriteFails
<1>16. ASSUME NEW o \in Operations, CancelDequeue(o) PROVE HoldersKnown'
  BY <1>1, <1>16, HoldingSteps, Maps, VaultMaps DEF HoldersKnown, OneHolder, ByCancel,
     ByReserver, CancelDequeue
<1>17. ASSUME NEW o \in Operations, CancelCleanup(o) PROVE HoldersKnown'
  BY <1>1, <1>17, HoldingSteps, Maps, VaultMaps DEF HoldersKnown, OneHolder, ByCancel,
     ByReserver, CancelCleanup
<1>18. CASE ShutdownBegin
  BY <1>1, <1>18, HoldingSteps, Maps, VaultMaps DEF HoldersKnown, OneHolder, ByCancel,
     ByReserver, ShutdownBegin, Gates
<1>19. CASE DispatcherStop \/ FinalizeWrite \/ FinalizeRemove \/ ShutdownReturn
  BY <1>1, <1>19, HoldingSteps, Maps, VaultMaps DEF HoldersKnown, OneHolder, ByCancel,
     ByReserver, DispatcherStop, FinalizeWrite, FinalizeRemove, ShutdownReturn
<1>20. CASE ShutdownUnlock
  BY <1>1, <1>20, HoldingSteps, Maps, VaultMaps DEF HoldersKnown, OneHolder, ByCancel,
     ByReserver, ShutdownUnlock
<1> QED
  BY <1>2, <1>3, <1>4, <1>5, <1>6, <1>7, <1>8, <1>9, <1>10, <1>11, <1>12, <1>13, <1>14, <1>15,
     <1>16, <1>17, <1>18, <1>19, <1>20
  DEF Next, Admission, Dispatch, Reserving, Run, Cancelling, Stopping

\* A lock that nobody of the backups holds has no owner, one that is held has one.
LEMMA CountOwners ==
    ASSUME TypeOK, SlotsKnown, HoldersKnown, NEW v \in Vaults
    PROVE  Cardinality(Owners(v)) = IF holder[v] = "backup" THEN 1 ELSE 0
<1> DEFINE runs == {p \in Operations : VaultOf(p) = v /\ stage[p] \in Holding}
           cancels == {p \in cancelHolds : VaultOf(p) = v}
           parts == {p \in {"reserver", "returning", "ready", "shutdown"} :
                        \/ p = "reserver" /\ reserver[v] = "acquired"
                        \/ p = "returning" /\ v \in returning
                        \/ p = "ready" /\ v \in ready
                        \/ p = "shutdown" /\ v \in shutdownHolds}
<1>1. Owners(v) = {<<"run", o>> : o \in runs} \cup {<<"cancel", o>> : o \in cancels}
                  \cup {<<part, v>> : part \in parts}
  BY DEF Owners
<1>2. /\ \A o, p \in runs : o = p
      /\ \A o, p \in cancels : o = p
      /\ \A p, q \in parts : p = q
  BY DEF SlotsKnown, Runs, InSlot, HoldersKnown, OneHolder, ByReserver
<1>3. /\ runs # {} => cancels = {} /\ parts = {}
      /\ cancels # {} => parts = {}
  BY DEF HoldersKnown, OneHolder, ByRun, ByCancel, ByReserver
<1>4. holder[v] = "backup" <=> runs # {} \/ cancels # {} \/ parts # {}
  <2>1. ByRun(v) <=> runs # {} BY DEF ByRun
  <2>2. ByCancel(v) <=> cancels # {} BY DEF ByCancel
  <2>3. parts # {} <=> ByReserver(v) \/ v \in returning \/ v \in ready \/ v \in shutdownHolds
    BY DEF ByReserver
  <2> QED BY <2>1, <2>2, <2>3 DEF HoldersKnown, OneHolder
<1> HIDE DEF runs, cancels, parts
<1>5. CASE holder[v] # "backup" BY <1>1, <1>4, <1>5, FS_EmptySet
<1>6. CASE holder[v] = "backup"
  <2>1. \E x : Owners(v) = {x}
    <3>1. CASE runs # {}
      <4>1. PICK o : runs = {o} BY <1>2, <3>1
      <4>2. cancels = {} /\ parts = {} BY <1>3, <3>1
      <4>3. Owners(v) = {<<"run", o>>}
        <5>1. {<<"run", p>> : p \in runs} = {<<"run", o>>} BY <4>1
        <5>2. {<<"cancel", p>> : p \in cancels} = {} BY <4>2
        <5>3. {<<part, v>> : part \in parts} = {} BY <4>2
        <5> QED BY <1>1, <5>1, <5>2, <5>3
      <4> QED BY <4>3
    <3>2. CASE cancels # {}
      <4>1. PICK o : cancels = {o} BY <1>2, <3>2
      <4>2. runs = {} /\ parts = {} BY <1>3, <3>2
      <4>3. Owners(v) = {<<"cancel", o>>}
        <5>1. {<<"cancel", p>> : p \in cancels} = {<<"cancel", o>>} BY <4>1
        <5>2. {<<"run", p>> : p \in runs} = {} BY <4>2
        <5>3. {<<part, v>> : part \in parts} = {} BY <4>2
        <5> QED BY <1>1, <5>1, <5>2, <5>3
      <4> QED BY <4>3
    <3>3. CASE parts # {}
      <4>1. PICK q : parts = {q} BY <1>2, <3>3
      <4>2. runs = {} /\ cancels = {} BY <1>3, <3>3
      <4>3. Owners(v) = {<<q, v>>}
        <5>1. {<<part, v>> : part \in parts} = {<<q, v>>} BY <4>1
        <5>2. {<<"run", p>> : p \in runs} = {} BY <4>2
        <5>3. {<<"cancel", p>> : p \in cancels} = {} BY <4>2
        <5> QED BY <1>1, <5>1, <5>2, <5>3
      <4> QED BY <4>3
    <3> QED BY <1>4, <1>6, <3>1, <3>2, <3>3
  <2> QED BY <1>6, <2>1, FS_Singleton
<1> QED BY <1>5, <1>6

LEMMA InvAtStart == Init => IInv
<1> SUFFICES ASSUME Init PROVE IInv OBVIOUS
<1>1. Queued = {} /\ Pending = {} BY NoTasks DEF Init, Queued, Pending
<1>2. Runs = {} /\ running = Cardinality(Runs)
  BY FS_EmptySet DEF Init, Runs, InSlot, Holding, Executing
<1>3. TypeOK
  <2>1. queue \in Seq(Operations) /\ IsInjective(queue) /\ batch \in Seq(Operations)
    BY NoTasks DEF Init
  <2> QED BY <2>1 DEF Init, TypeOK
<1>4. Gates /\ PendingKnown /\ QueuedKnown /\ CancelsKnown /\ RowsKnown
  BY <1>1, NoTasks
  DEF Init, Gates, PendingKnown, Untouched, QueuedKnown, CancelsKnown, RowsKnown, Live, InRun,
      InSlot, Holding, Executing
<1>5. SlotsKnown /\ TargetsKnown /\ DemandKnown
  BY <1>1, <1>2 DEF Init, SlotsKnown, TargetsKnown, DemandKnown
<1>6. StopsKnown BY <1>1 DEF Init, StopsKnown
<1>7. HoldersKnown
  BY DEF Init, HoldersKnown, OneHolder, ByRun, ByCancel, ByReserver, Holding, Executing
<1> QED BY <1>3, <1>4, <1>5, <1>6, <1>7 DEF IInv

LEMMA Stuttering == IInv /\ UNCHANGED vars => IInv'
<1> SUFFICES ASSUME IInv, UNCHANGED vars PROVE IInv' OBVIOUS
<1> USE DEF vars, dbVars, dispatchVars, admitVars, reserveVars, cancelVars, stopVars
<1>1. Queued' = Queued /\ Pending' = Pending /\ Runs' = Runs BY DEF Queued, Pending, Runs
<1>2. TypeOK' BY DEF IInv, TypeOK
<1>3. Gates' BY DEF IInv, Gates
<1>4. PendingKnown' BY <1>1 DEF IInv, PendingKnown, Untouched
<1>5. QueuedKnown' /\ CancelsKnown' /\ StopsKnown'
  BY <1>1 DEF IInv, QueuedKnown, CancelsKnown, StopsKnown
<1>6. RowsKnown' BY <1>1 DEF IInv, RowsKnown
<1>7. SlotsKnown' /\ TargetsKnown' /\ DemandKnown'
  BY <1>1 DEF IInv, SlotsKnown, TargetsKnown, DemandKnown
<1>8. HoldersKnown' BY DEF IInv, HoldersKnown, OneHolder, ByRun, ByCancel, ByReserver
<1> QED BY <1>2, <1>3, <1>4, <1>5, <1>6, <1>7, <1>8 DEF IInv

LEMMA InvKept == IInv /\ [Next]_vars => IInv'
BY Stuttering, TypesKept, GatesKept, PendingKept, QueuedKept, CancelsKept, RowsKept, SlotsKept,
   TargetsKept, HoldersKept, DemandKept, StopsKept DEF IInv

LEMMA AlwaysInv == Spec => []IInv
BY InvAtStart, InvKept, PTL DEF Spec
-----------------------------------------------------------------------------
(* The theorems.                                                             *)

\* The type invariant, for any number of operations, jobs and vaults.
THEOREM TypeCorrect == Spec => []TypeOK
<1>1. IInv => TypeOK BY DEF IInv
<1> QED BY <1>1, AlwaysInv, PTL

\* Slots, vaults in use and engines belong to runs, whatever admissions, cancels and
\* Shutdown do meanwhile (run, release, cancelTask, Shutdown).
THEOREM SlotsFollowRuns == Spec => []SlotsMatchRuns
<1>1. IInv => SlotsMatchRuns BY DEF IInv, SlotsMatchRuns, SlotsKnown, RowsKnown, Runs
<1> QED BY <1>1, AlwaysInv, PTL

\* A cancel that was answered "accepted" is never lost, neither to a dispatch that took the
\* task first nor to an executor that is at work (cancelTask, run, the child's admission).
LEMMA AcceptedStops == IInv /\ Next => \A o \in accepted : StaysStopped(o)
<1> SUFFICES ASSUME IInv, Next, NEW o \in accepted PROVE StaysStopped(o) OBVIOUS
<1>1. TypeOK /\ Gates /\ PendingKnown /\ QueuedKnown BY DEF IInv
<1>2. /\ o \in Operations /\ o \in cancelRequested /\ o \in ended
      /\ stage[o] = "none" => row[o] = "interrupted" \/ o \in drained
  BY <1>1 DEF IInv, TypeOK, CancelsKnown, StopsKnown
<1>3. CASE stage'[o] = stage[o] /\ taskErr'[o] = taskErr[o] BY <1>2, <1>3 DEF StaysStopped
<1>4. ASSUME NEW p \in Operations, TakeTask(p) PROVE StaysStopped(o)
  <2>1. p # o BY <1>1, <1>2, <1>4, QueueSteps DEF Skipped
  <2>2. stage'[o] = stage[o] /\ taskErr' = taskErr
    BY <1>1, <1>2, <1>4, <2>1, Maps DEF TakeTask
  <2> QED BY <1>3, <2>2
<1>5. ASSUME NEW p \in Operations, Run(p), p # o PROVE StaysStopped(o)
  <2>1. stage'[o] = stage[o] /\ taskErr'[o] = taskErr[o]
    BY <1>1, <1>2, <1>5, Maps, ExecutorSteps
    DEF Run, RunActivate, RunRestore, RunPersist, RunUnlock, RunFreeSlot, RunRemove, Goto,
        TypeOK
  <2> QED BY <1>3, <2>1
<1>6. CASE Run(o)
  <2>1. ContextErr(o) = {"ended"} BY <1>2 DEF ContextErr
  <2>2. CASE RunLaunch(o) BY <2>1, <2>2 DEF RunLaunch
  <2>3. CASE RunReturn(o)
    <3>1. taskErr'[o] = "ended" /\ stage[o] # "none" /\ stage'[o] = "returned"
      BY <1>1, <1>2, <2>1, <2>3, Maps DEF RunReturn, Goto, TypeOK
    <3> QED BY <3>1 DEF StaysStopped, Children
  <2>4. CASE RunActivate(o) \/ RunRestore(o) \/ RunChildEnds(o) \/ RunSettle(o)
             \/ RunPersist(o) \/ RunUnlock(o) \/ RunFreeSlot(o) \/ RunRemove(o)
    <3>1. /\ stage[o] # "none" /\ stage'[o] \notin Children
          /\ taskErr'[o] \in {taskErr[o], "unread"}
      BY <1>1, <1>2, <2>4, Maps
      DEF RunActivate, RunRestore, RunChildEnds, RunSettle, RunPersist, RunUnlock,
          RunFreeSlot, RunRemove, Goto, TypeOK, Children
    <3> QED BY <3>1 DEF StaysStopped
  <2> QED BY <1>6, <2>2, <2>3, <2>4 DEF Run, Execute
<1>7. UNCHANGED <<stage, taskErr>> \/ \E p \in Operations : TakeTask(p) \/ Run(p)
  BY OtherSteps
  DEF operationVars, AdmitBegin, AdmitRows, AdmitCheck, AdmitPublish, AdmitRefuse, AdmitEnd,
      CancelCall, CancelStarted, CancelQuarantine, CancelWrite, CancelWriteFails,
      CancelDequeue, CancelCleanup, ShutdownBegin, ShutdownUnlock, FinalizeWrite,
      FinalizeRemove
<1> QED BY <1>3, <1>4, <1>5, <1>6, <1>7

\* A stop that comes after the executor has returned changes no result, and nothing else
\* than a stop makes a run interrupted (run, classifyBackupRunStatus).
LEMMA LateStopsKeepResults == IInv /\ Next => \A o \in Operations : StoppedInTime(o)
<1> SUFFICES ASSUME IInv, Next, NEW o \in Operations,
                    row[o] = "running", row'[o] = "interrupted"
             PROVE  taskErr[o] = "ended" /\ (o \in cancelRequested \/ closed)
  BY DEF StoppedInTime
<1>1. TypeOK /\ Gates /\ PendingKnown /\ QueuedKnown /\ CancelsKnown /\ RowsKnown
      /\ StopsKnown
  BY DEF IInv
<1>2. row' # row OBVIOUS
<1>3. CASE AdmitRows BY <1>1, <1>3, PendingSteps
<1>4. CASE AdmitRefuse
  BY <1>1, <1>4, PendingSteps DEF AdmitRefuse, Interrupt, PendingKnown
<1>5. ASSUME NEW p \in Operations, RunActivate(p) \/ RunRestore(p) PROVE FALSE
  BY <1>1, <1>5, Maps DEF RunActivate, RunRestore, Interrupt, RowsKnown
<1>6. ASSUME NEW p \in Operations, RunPersist(p)
      PROVE  taskErr[o] = "ended" /\ (o \in cancelRequested \/ closed)
  BY <1>1, <1>6, Maps DEF RunPersist, Status, StopsKnown
<1>7. ASSUME NEW p \in Operations, CancelWrite(p) PROVE FALSE
  BY <1>1, <1>7, Maps DEF CancelWrite, Interrupt, CancelsKnown, QueuedKnown
<1>8. CASE FinalizeWrite BY <1>1, <1>8, Maps DEF FinalizeWrite, Interrupt, QueuedKnown
<1>9. \/ AdmitRows \/ AdmitRefuse \/ FinalizeWrite
      \/ \E p \in Operations : RunActivate(p) \/ RunRestore(p) \/ RunPersist(p)
                             \/ CancelWrite(p)
  BY <1>2, OtherSteps, ExecutorSteps
  DEF operationVars, dbVars, AdmitBegin, AdmitCheck, AdmitPublish, AdmitEnd, TakeTask, Run,
      RunUnlock, RunFreeSlot, RunRemove, CancelCall, CancelStarted, CancelQuarantine,
      CancelWriteFails, CancelDequeue, CancelCleanup, ShutdownBegin, ShutdownUnlock,
      FinalizeRemove
<1> QED BY <1>3, <1>4, <1>5, <1>6, <1>7, <1>8, <1>9

\* A cancel stops what has not begun when it is accepted and leaves what is over (cancelTask,
\* run, classifyBackupRunStatus).
THEOREM AcceptedCancelsHold == Spec => AcceptedCancelHolds
<1>1. IInv /\ [Next]_vars =>
        [(\A o \in accepted : StaysStopped(o)) /\ (\A o \in Operations : StoppedInTime(o))]_vars
  BY AcceptedStops, LateStopsKeepResults
<1> QED BY <1>1, AlwaysInv, PTL DEF Spec, AcceptedCancelHolds

\* No row is forgotten, also when any write may fail (run, finalizeQueued, cancelTask).
THEOREM RowsAreAnsweredFor == Spec => []NoRowForgotten
<1>1. IInv => NoRowForgotten
  <2> SUFFICES ASSUME IInv PROVE NoRowForgotten OBVIOUS
  <2>1. \A o \in Pending : o \in ToSet(batch) BY DEF Pending
  <2>2. \A o \in Operations : row[o] \in {"queued", "running"} =>
            entry[o] # "absent" \/ o \in ToSet(batch) \/ o \in orphaned
    BY <2>1 DEF IInv, RowsKnown, Live
  <2>3. closed => queue = <<>> /\ ready = {} BY DEF IInv, Gates
  <2>4. ASSUME shutdown = "returned", NEW o \in Operations
        PROVE  /\ stage[o] \notin InRun
               /\ row[o] \in {"queued", "running"} => o \in unwritten \cup orphaned
    <3>1. closed /\ Queued = {} /\ Pending = {}
      BY <2>4, EmptyWhenClosed DEF IInv, Gates, Pending
    <3>2. stage[o] \notin InRun /\ finalizer = "done" BY <2>4 DEF IInv, Gates
    <3>3. stage[o] \notin BeforeWrite BY <3>2 DEF InRun, InSlot, Holding, Executing, BeforeWrite
    <3> QED BY <3>1, <3>2, <3>3 DEF IInv, RowsKnown, Live
  <2> QED BY <2>2, <2>3, <2>4 DEF NoRowForgotten
<1> QED BY <1>1, AlwaysInv, PTL

\* While the database accepts its writes, every reservation is kept for a task that can
\* use it (reserveVault, cancelTask).
THEOREM NoReservationStranded ==
    ASSUME WriteFailures = FALSE
    PROVE  Spec => []NoStrandedReservation
<1>1. IInv => NoStrandedReservation BY DEF IInv, NoStrandedReservation, DemandKnown
<1> QED BY <1>1, AlwaysInv, PTL

\* A vault lock taken for backups is never left without somebody who gives it back, nor
\* given back twice, and one operation at a time has a target (reserveVault, run,
\* cancelTask, Shutdown, activatePersistedLocked).
THEOREM OneOwnerAlways == Spec => []OneOwner
<1>1. IInv => OneOwner
  <2> SUFFICES ASSUME IInv PROVE OneOwner OBVIOUS
  <2>1. \A v \in Vaults : Cardinality(Owners(v)) = IF holder[v] = "backup" THEN 1 ELSE 0
    BY CountOwners DEF IInv
  <2>2. ~closed => \A o \in Operations :
            o \in Queued \/ stage[o] \in InSlot => active[TargetOf[o]] = o
    BY DEF IInv, TargetsKnown, Runs
  <2> QED BY <2>1, <2>2 DEF OneOwner
<1> QED BY <1>1, AlwaysInv, PTL

\* A task that starts overtakes only tasks that cannot start now: dispatch keeps the
\* order of admission (takeRunnableLocked).
THEOREM AdmissionOrderKept == Spec => StartsInOrder
<1> DEFINE Order ==
      \A i \in DOMAIN queue : stage'[queue[i]] # stage[queue[i]] =>
        \A k \in 1..(i - 1) : LET o == queue[k] IN
            \/ o \in cancelRequested
            \/ waiting[VaultOf(o)] = "contended"
            \/ \E p \in Operations : stage[p] \in InSlot /\ VaultOf(p) = VaultOf(o)
<1>1. IInv /\ [Next]_vars => [Order]_vars
  <2> SUFFICES ASSUME IInv, Next PROVE Order BY DEF IInv
  <2> HIDE DEF Order
  <2>0. TypeOK /\ Gates /\ PendingKnown /\ QueuedKnown /\ CancelsKnown /\ SlotsKnown BY DEF IInv
  <2>1. \A i \in DOMAIN queue : /\ i \in 1..Len(queue) /\ Len(queue) \in Nat
                                /\ queue[i] \in Queued /\ queue[i] \in Operations
    BY <2>0, Positions DEF TypeOK, Queued
  <2>2. CASE \A x \in Queued : stage'[x] = stage[x] BY <2>1, <2>2 DEF Order
  <2>3. ASSUME NEW o \in Operations, TakeTask(o) PROVE Order
    <3>1. \A x \in Operations : x # o => stage'[x] = stage[x] BY <2>0, <2>3, Maps DEF TakeTask
    <3>2. PICK j \in DOMAIN queue :
            queue[j] = o /\ \A k \in 1..(j - 1) : Skipped(queue[k])
      BY <2>3 DEF TakeTask, Head1
    <3>3. \A i \in DOMAIN queue : queue[i] = o => i = j
      BY <2>0, <3>2 DEF TypeOK, IsInjective
    <3>4. ~closed BY <2>0, <2>3, QueueSteps, EmptyWhenClosed
    <3>5. ASSUME NEW k \in 1..(j - 1)
          PROVE  \/ queue[k] \in cancelRequested
                 \/ waiting[VaultOf(queue[k])] = "contended"
                 \/ \E p \in Operations : stage[p] \in InSlot /\ VaultOf(p) = VaultOf(queue[k])
      <4>1. k \in DOMAIN queue BY <2>0, <2>1, <3>2, LenProperties DEF TypeOK
      <4>2. queue[k] \in Operations /\ VaultOf(queue[k]) \in Vaults BY <2>1, <4>1, VaultMaps
      <4> QED BY <2>0, <3>2, <3>4, <3>5, <4>2 DEF Skipped, CancelsKnown, SlotsKnown, Runs
    <3> QED BY <2>1, <3>1, <3>3, <3>5 DEF Order
  <2>4. \A x \in Queued : x \in Operations /\ stage[x] = "none"
    BY <2>0, Maps DEF QueuedKnown
  <2>5. ASSUME NEW o \in Operations, Run(o), NEW x \in Queued PROVE stage'[x] = stage[x]
    <3>1. x # o /\ x \in Operations
      BY <2>4, <2>5, ExecutorSteps DEF Run, RunActivate, RunRestore, RunPersist, RunUnlock,
         RunFreeSlot, RunRemove, Executing
    <3> QED BY <2>0, <2>5, <3>1, Maps, ExecutorSteps
        DEF Run, RunActivate, RunRestore, RunPersist, RunUnlock, RunFreeSlot, RunRemove, Goto
  <2>6. CASE UNCHANGED stage BY <2>2, <2>6
  <2>7. CASE \E o \in Operations : Run(o) BY <2>2, <2>5, <2>7
  <2>8. UNCHANGED stage \/ \E o \in Operations : TakeTask(o) \/ Run(o)
    BY OtherSteps
    DEF operationVars, AdmitBegin, AdmitRows, AdmitCheck, AdmitPublish, AdmitRefuse, AdmitEnd,
        CancelCall, CancelStarted, CancelQuarantine, CancelWrite, CancelWriteFails,
           CancelDequeue,
        CancelCleanup, ShutdownBegin, ShutdownUnlock, FinalizeWrite, FinalizeRemove
  <2> QED BY <2>3, <2>6, <2>7, <2>8
<1> QED BY <1>1, AlwaysInv, PTL DEF Spec, StartsInOrder
=============================================================================
