------------------------- MODULE MetadataCacheProofs -------------------------
(***************************************************************************)
(* Proofs about MetadataCache for any uses of the vault, snapshots and     *)
(* goroutines, and any number of failures, stops and crashes. What a       *)
(* reader of the cache may trust rests on three things: who has the vault, *)
(* which generation a change or a fill has seen, and which snapshots the   *)
(* rows of the cache then name.                                            *)
(***************************************************************************)
EXTENDS MetadataCache, TLAPS

\* The type invariant, part by part.
VaultTypes ==
    /\ native \subseteq Snapshots /\ required \in Nat /\ applied \in Nat
    /\ reconciled \in {"never", "fresh", "stale"}
    /\ header \in [Snapshots -> {"absent", "pending", "ready", "failed"}]
    /\ regrouped \subseteq Snapshots
    /\ headerFailure \in {"none", "cooling", "due"} /\ entryCooling \in BOOLEAN
QueueTypes ==
    /\ accept \in BOOLEAN /\ running \in Fills \cup {None} /\ pending \in Requests \cup {None}
    /\ active \in Requests \cup {None} /\ stopper \in {"none", "queue", "run"}
    /\ doneOf \in Fills \cup {None} /\ deferring \subseteq Writers
FillsTyped == fill \in [Fills -> FillTypes]
WritersTyped == writer \in [Writers -> WriterTypes]
Types == VaultTypes /\ QueueTypes /\ FillsTyped /\ WritersTyped

\* Whoever is to hand a request on has one.
RequestsKnown ==
    /\ \A g \in Fills : /\ fill[g].pc # "idle" => fill[g].request \in Requests
                        /\ fill[g].pc \in InPass => fill[g].pass \in Requests
    /\ \A w \in Writers : /\ At(w, "giving") => writer[w].give \in Requests
                          /\ At(w, "apply") => writer[w].snapshot \in Snapshots

\* The one goroutine that runs, its channel, and its request while it can be cancelled.
RunKnown ==
    /\ \A g \in Fills : running = g <=> fill[g].pc \notin {"idle", "handing"}
    /\ running # None => doneOf = running
    /\ active = None <=> stopper = "none"
    /\ active # None => running # None

\* Who has the vault: a pass its lease, a writer its lock, and never both.
Using == {"native", "acknowledge", "apply", "reconcile", "unlocking"}
GateKnown ==
    /\ \A g \in Fills : g \in leases <=> fill[g].pc \in InPass
    /\ \A w \in Writers : w \in exclusive <=> writer[w].pc \in Using
    /\ exclusive \subseteq Writers
    /\ \A w, x \in exclusive : w = x
    /\ exclusive # {} => leases = {}

\* Who is counted among the writers that defer fills; whom a deletion waits for.
DeferringKnown ==
    /\ \A w \in Writers : writer[w].kind = "backup" <=> w \in Backups
    /\ \A w \in deferring :
        writer[w].kind # "check" /\ writer[w].pc \notin {"idle", "done", "giving"}
    /\ \A w \in deferring \ Backups : \A g \in Fills :
           fill[g].pc \in InPass \cup {"acquire"} =>
               \/ writer[w].pc = "draining" /\ writer[w].drain = g
               \/ writer[w].pc = "resuming"
    /\ \A w \in Writers : writer[w].pc = "deferred" => w \in Backups
    /\ pending # None => deferring # {} \/ running # None

\* The generations. A change that has the vault has reserved one that the cache is behind;
\* a change of the jobs may have moved the vault's beyond it.
GenerationsKnown ==
    /\ applied <= required
    /\ \A w \in Writers : writer[w].pc \in {"native", "acknowledge", "apply"} =>
           applied < writer[w].generation /\ writer[w].generation <= required
    /\ \A g \in Fills : fill[g].observed <= required

\* The snapshots the cache has rows of are those in the vault when it is up to date, those
\* before the change when only that change is missing, and those of the listing that a
\* pass has stored. A row under a stale grouping root was announced by a generation of its
\* own, which neither the change at work nor a pass that saw an earlier one makes up for.
Rows == {s \in Snapshots : header[s] # "absent"}
RowsKnown ==
    /\ reconciled = "never" => Rows = {}
    /\ reconciled # "never" /\ applied = required => Rows = native
    /\ regrouped # {} => applied < required
    /\ \A w \in Writers : reconciled # "never" /\ applied + 1 = writer[w].generation =>
           /\ writer[w].pc \in {"native", "acknowledge"} => Rows = native
           /\ writer[w].pc = "apply" => Rows \ {writer[w].snapshot} = native
    /\ \A w \in Writers : writer[w].pc \in {"native", "acknowledge", "apply"} =>
           regrouped = {} \/ applied + 1 < required
    /\ \A g \in Fills :
           /\ fill[g].pc \in {"publish", "rebuild"} => fill[g].seen = native
           /\ fill[g].pc = "index" /\ fill[g].pass.headers /\ fill[g].observed = required =>
                  Rows = native /\ regrouped = {}
           /\ fill[g].pc = "index" => fill[g].work \subseteq Rows

IInv == Types /\ RequestsKnown /\ RunKnown /\ GateKnown /\ DeferringKnown /\ GenerationsKnown
        /\ RowsKnown

\* The databases and the vault keep their types.
LEMMA VaultTyped == IInv /\ Next => VaultTypes'
<1> SUFFICES ASSUME IInv, Next PROVE VaultTypes' OBVIOUS
<1>1. VaultTypes /\ WritersTyped /\ RequestsKnown
  BY DEF IInv, Types
<1> USE DEF Goto, Move, Leave, Closed, vault, gate, queue
<1>2. ASSUME NEW g \in Fills, StartPass(g) PROVE VaultTypes'
  BY <1>1, <1>2 DEF VaultTypes, StartPass
<1>3. ASSUME NEW g \in Fills, FinishQueued(g) PROVE VaultTypes'
  BY <1>1, <1>3 DEF VaultTypes, FinishQueued
<1>4. ASSUME NEW g \in Fills, HandBack(g) PROVE VaultTypes'
  BY <1>1, <1>4 DEF VaultTypes, HandBack
<1>5. ASSUME NEW g \in Fills, Admit(g) PROVE VaultTypes'
  BY <1>1, <1>5 DEF VaultTypes, Admit
<1>6. ASSUME NEW g \in Fills, NotAdmitted(g) PROVE VaultTypes'
  BY <1>1, <1>6 DEF VaultTypes, NotAdmitted
<1>7. ASSUME NEW g \in Fills, Interrupted(g) PROVE VaultTypes'
  BY <1>1, <1>7 DEF VaultTypes, Interrupted
<1>8. ASSUME NEW g \in Fills, List(g) PROVE VaultTypes'
  BY <1>1, <1>8 DEF VaultTypes, List
<1>9. ASSUME NEW g \in Fills, Rebuild(g) PROVE VaultTypes'
  BY <1>1, <1>9 DEF VaultTypes, Rebuild
<1>10. ASSUME NEW g \in Fills, Publish(g) PROVE VaultTypes'
  BY <1>1, <1>10 DEF VaultTypes, Listed, Snapshots, Publish
<1>11. ASSUME NEW g \in Fills, PublishHalf(g) PROVE VaultTypes'
  BY <1>1, <1>11 DEF VaultTypes, PublishHalf
<1>12. ASSUME NEW g \in Fills, Index(g) PROVE VaultTypes'
  BY <1>1, <1>12 DEF VaultTypes, Index
<1>13. ASSUME NEW g \in Fills, CompletePass(g) PROVE VaultTypes'
  BY <1>1, <1>13 DEF VaultTypes, AllReady, CompletePass
<1>14. ASSUME NEW g \in Fills, PassFails(g) PROVE VaultTypes'
  BY <1>1, <1>14 DEF VaultTypes, PassFails
<1>15. ASSUME NEW g \in Fills, EndPass(g) PROVE VaultTypes'
  BY <1>1, <1>15 DEF VaultTypes, EndPass
<1>16. ASSUME NEW g \in Fills, Revoke(g) PROVE VaultTypes'
  BY <1>1, <1>16 DEF VaultTypes, Revoke
<1>17. ASSUME NEW w \in Writers, Defer(w) PROVE VaultTypes'
  BY <1>1, <1>17 DEF VaultTypes, Defer
<1>18. ASSUME NEW w \in Writers, GiveUp(w) PROVE VaultTypes'
  BY <1>1, <1>18 DEF VaultTypes, GiveUp
<1>19. ASSUME NEW w \in Writers, AskVault(w) PROVE VaultTypes'
  BY <1>1, <1>19 DEF VaultTypes, AskVault
<1>20. ASSUME NEW w \in Writers, EnterVault(w) PROVE VaultTypes'
  BY <1>1, <1>20 DEF VaultTypes, EnterVault
<1>21. ASSUME NEW w \in Writers, NativeBackup(w) PROVE VaultTypes'
  BY <1>1, <1>21 DEF VaultTypes, Snapshots, NativeBackup
<1>22. ASSUME NEW w \in Writers, NativeDeletion(w) PROVE VaultTypes'
  BY <1>1, <1>22 DEF VaultTypes, NativeDeletion
<1>23. ASSUME NEW w \in Writers, NotStarted(w) PROVE VaultTypes'
  BY <1>1, <1>23 DEF VaultTypes, NotStarted
<1>24. ASSUME NEW w \in Writers, Acknowledge(w) PROVE VaultTypes'
  BY <1>1, <1>24 DEF VaultTypes, Advanced, WritersTyped, WriterTypes, Acknowledge
<1>25. ASSUME NEW w \in Writers, ApplyDeletion(w) PROVE VaultTypes'
  BY <1>1, <1>25 DEF VaultTypes, Advanced, At, RequestsKnown, WritersTyped, WriterTypes,
     ApplyDeletion
<1>26. ASSUME NEW w \in Writers, Reconcile(w) PROVE VaultTypes'
  BY <1>1, <1>26 DEF VaultTypes, Reconcile
<1>27. ASSUME NEW w \in Writers, LeaveAfterUse(w) PROVE VaultTypes'
  BY <1>1, <1>27 DEF VaultTypes, LeaveAfterUse
<1>28. ASSUME NEW w \in Writers, Evaluate(w) PROVE VaultTypes'
  BY <1>1, <1>28 DEF VaultTypes, Evaluate
<1>29. ASSUME NEW w \in Writers, Resume(w) PROVE VaultTypes'
  BY <1>1, <1>29 DEF VaultTypes, Resume
<1>30. ASSUME NEW w \in Writers, Give(w) PROVE VaultTypes'
  BY <1>1, <1>30 DEF VaultTypes, Give
<1>31. CASE Access
  BY <1>1, <1>31 DEF VaultTypes, Access
<1>32. CASE AskFor
  BY <1>1, <1>32 DEF VaultTypes, AskFor
<1>33. CASE CooldownEnds
  BY <1>1, <1>33 DEF VaultTypes, CooldownEnds
<1>34. CASE TenDays
  BY <1>1, <1>34 DEF VaultTypes, TenDays
<1>35. CASE Stop
  BY <1>1, <1>35 DEF VaultTypes, Stop
<1>36. CASE Restart
  BY <1>1, <1>36 DEF VaultTypes, Restart
<1>37. CASE ChangeJobs
  BY <1>1, <1>37 DEF VaultTypes, ChangeJobs
<1> QED
  BY <1>2, <1>3, <1>4, <1>5, <1>6, <1>7, <1>8, <1>9, <1>10, <1>11, <1>12, <1>13, <1>14, <1>15,
     <1>16, <1>17, <1>18, <1>19, <1>20, <1>21, <1>22, <1>23, <1>24, <1>25, <1>26, <1>27, <1>28,
     <1>29, <1>30, <1>31, <1>32, <1>33, <1>34, <1>35, <1>36, <1>37 DEF Next, FillStep,
     WriterStep

\* What the coordinator makes of requests are requests.
LEMMA RequestTypes ==
    ASSUME NEW a \in Requests \cup {None}, NEW b \in Requests
    PROVE  /\ Stronger(a, b) \in Requests
           /\ Followup(b) \in Requests \cup {None}
           /\ None \notin Requests
<1>1. Stronger(a, b) \in Requests
  <2>1. CASE a = None BY <2>1 DEF Stronger
  <2>2. CASE a # None
    <3>1. Stronger(a, b) = [headers |-> a.headers \/ b.headers, bypass |-> a.bypass \/ b.bypass,
       post |-> a.post \/ b.post, candidate |-> a.candidate /\ b.candidate]
      BY <2>2 DEF Stronger, Request
    <3> QED BY <2>2, <3>1 DEF Requests
  <2> QED BY <2>1, <2>2
<1>2. [b EXCEPT !.headers = FALSE] \in Requests BY DEF Requests
<1> QED BY <1>1, <1>2, NoneAssumption DEF Followup

\* What scheduling does: it keeps a request for a fill or a writer, forgets it, or starts
\* the one goroutine that runs.
Scheduling(F, request) ==
    /\ UNCHANGED <<accept, deferring>>
    /\ \/ pending' = pending
       \/ pending' \in Requests /\ (deferring # {} \/ running # None)
    /\ \/ fill' = F /\ doneOf' = OpenIn(F) /\ UNCHANGED <<running, active, stopper>>
       \/ \E g \in Fills :
              /\ F[g].pc = "idle" /\ running = None /\ deferring = {}
              /\ fill' = [F EXCEPT ![g] = [IdleFill EXCEPT !.pc = "queued",
                 !.request = request]]
              /\ running' = g /\ doneOf' = g /\ active' = request /\ stopper' = "queue"

\* What a call of scheduleRequest can do: leave the request pending, drop it, or start a
\* goroutine for it when none runs and nobody defers.
LEMMA ScheduleDoes ==
    ASSUME NEW F, NEW r \in Requests, NEW b, QueueTypes, Schedule(F, r, b)
    PROVE  Scheduling(F, r)
<1>1. /\ Stronger(pending, r) \in Requests
      /\ Followup(r) # None => Stronger(pending, Followup(r)) \in Requests
  BY RequestTypes DEF QueueTypes
<1>2. CASE accept /\ deferring = {} /\ running = None
  <2>1. PICK g \in Fills : F[g].pc = "idle" /\ g = CHOOSE h \in Fills : F[h].pc = "idle"
    BY <1>2 DEF Schedule
  <2> QED BY <1>2, <2>1 DEF Schedule, Scheduling
<1>3. CASE ~(accept /\ deferring = {} /\ running = None)
  BY <1>1, <1>3 DEF Schedule, Scheduling
<1> QED BY <1>2, <1>3

\* Who calls it, and from which goroutines' state.
LEMMA Schedulers ==
    ASSUME QueueTypes, RequestsKnown
    PROVE  /\ \A g \in Fills : HandBack(g) =>
                  \E r \in Requests : Scheduling([fill EXCEPT ![g] = IdleFill], r)
           /\ \A w \in Writers : Reconcile(w) => \E r \in Requests : Scheduling(fill, r)
           /\ \A w \in Writers : Evaluate(w) =>
                  UNCHANGED <<queue, fill>> \/ \E r \in Requests : Scheduling(fill, r)
           /\ \A w \in Writers : Give(w) => \E r \in Requests : Scheduling(fill, r)
           /\ Access \/ AskFor => \E r \in Requests : Scheduling(fill, r)
<1> AfterBackup \in Requests /\ Evaluation \in Requests
  BY DEF AfterBackup, Evaluation, Request, Requests
<1>1. \A g \in Fills : HandBack(g) =>
          \E r \in Requests : Scheduling([fill EXCEPT ![g] = IdleFill], r)
  BY ScheduleDoes DEF HandBack, RequestsKnown
<1>2. \A w \in Writers : Reconcile(w) => \E r \in Requests : Scheduling(fill, r)
  BY ScheduleDoes DEF Reconcile
<1>3. \A w \in Writers : Evaluate(w) => UNCHANGED <<queue, fill>>
   \/ \E r \in Requests : Scheduling(fill, r)
  BY ScheduleDoes DEF Evaluate
<1>4. \A w \in Writers : Give(w) => \E r \in Requests : Scheduling(fill, r)
  BY ScheduleDoes DEF Give, RequestsKnown
<1>5. Access => \E r \in Requests : Scheduling(fill, r)
  <2> DEFINE h == (reconciled # "fresh" \/ ~(required = applied)) /\ headerFailure # "cooling"
  <2>1. Request(h, FALSE, FALSE, FALSE) \in Requests BY DEF Request, Requests
  <2> QED BY <2>1, ScheduleDoes DEF Access
<1>6. AskFor => \E r \in Requests : Scheduling(fill, r)
  BY ScheduleDoes, UsersAssumption DEF AskFor
<1> QED BY <1>1, <1>2, <1>3, <1>4, <1>5, <1>6

\* The coordinator keeps its types.
LEMMA QueueTyped == IInv /\ Next => QueueTypes'
<1> SUFFICES ASSUME IInv, Next PROVE QueueTypes' OBVIOUS
<1>1. QueueTypes /\ RequestsKnown /\ RunKnown
  BY DEF IInv, Types
<1> USE DEF Goto, Move, Leave, Closed, vault, gate, queue
<1>2. ASSUME NEW g \in Fills, StartPass(g) PROVE QueueTypes'
  <2>1. fill[g].request \in Requests BY <1>1, <1>2 DEF StartPass, RequestsKnown
  <2> QED BY <1>1, <1>2, <2>1, RequestTypes DEF StartPass, QueueTypes
<1>3. ASSUME NEW g \in Fills, FinishQueued(g) PROVE QueueTypes'
  BY <1>1, <1>3 DEF QueueTypes, FinishQueued
<1>4. ASSUME NEW g \in Fills, HandBack(g) PROVE QueueTypes'
  <2>1. UNCHANGED queue \/ \E F : \E r \in Requests : Scheduling(F, r)
    BY <1>1, <1>4, Schedulers
  <2> QED BY <1>1, <2>1 DEF QueueTypes, Scheduling, OpenIn
<1>5. ASSUME NEW g \in Fills, Admit(g) PROVE QueueTypes'
  BY <1>1, <1>5 DEF QueueTypes, Admit
<1>6. ASSUME NEW g \in Fills, NotAdmitted(g) PROVE QueueTypes'
  BY <1>1, <1>6 DEF QueueTypes, NotAdmitted
<1>7. ASSUME NEW g \in Fills, Interrupted(g) PROVE QueueTypes'
  BY <1>1, <1>7 DEF QueueTypes, Interrupted
<1>8. ASSUME NEW g \in Fills, List(g) PROVE QueueTypes'
  BY <1>1, <1>8 DEF QueueTypes, List
<1>9. ASSUME NEW g \in Fills, Rebuild(g) PROVE QueueTypes'
  BY <1>1, <1>9 DEF QueueTypes, Rebuild
<1>10. ASSUME NEW g \in Fills, Publish(g) PROVE QueueTypes'
  BY <1>1, <1>10 DEF QueueTypes, Publish
<1>11. ASSUME NEW g \in Fills, PublishHalf(g) PROVE QueueTypes'
  BY <1>1, <1>11 DEF QueueTypes, PublishHalf
<1>12. ASSUME NEW g \in Fills, Index(g) PROVE QueueTypes'
  BY <1>1, <1>12 DEF QueueTypes, Index
<1>13. ASSUME NEW g \in Fills, CompletePass(g) PROVE QueueTypes'
  BY <1>1, <1>13 DEF QueueTypes, CompletePass
<1>14. ASSUME NEW g \in Fills, PassFails(g) PROVE QueueTypes'
  BY <1>1, <1>14 DEF QueueTypes, PassFails
<1>15. ASSUME NEW g \in Fills, EndPass(g) PROVE QueueTypes'
  <2>1. fill[g].request \in Requests BY <1>1, <1>15 DEF EndPass, RequestsKnown
  <2> QED BY <1>1, <1>15, <2>1, RequestTypes DEF EndPass, QueueTypes
<1>16. ASSUME NEW g \in Fills, Revoke(g) PROVE QueueTypes'
  BY <1>1, <1>16 DEF QueueTypes, Revoke
<1>17. ASSUME NEW w \in Writers, Defer(w) PROVE QueueTypes'
  <2>1. active = None \/ Stronger(pending, active) \in Requests
    BY <1>1, RequestTypes DEF QueueTypes
  <2>2. stopper = "none" \/ active # None BY <1>1 DEF RunKnown
  <2> QED BY <1>1, <1>17, <2>1, <2>2 DEF Defer, QueueTypes
<1>18. ASSUME NEW w \in Writers, GiveUp(w) PROVE QueueTypes'
  BY <1>1, <1>18 DEF QueueTypes, GiveUp
<1>19. ASSUME NEW w \in Writers, AskVault(w) PROVE QueueTypes'
  BY <1>1, <1>19 DEF QueueTypes, AskVault
<1>20. ASSUME NEW w \in Writers, EnterVault(w) PROVE QueueTypes'
  BY <1>1, <1>20 DEF QueueTypes, EnterVault
<1>21. ASSUME NEW w \in Writers, NativeBackup(w) PROVE QueueTypes'
  BY <1>1, <1>21 DEF QueueTypes, NativeBackup
<1>22. ASSUME NEW w \in Writers, NativeDeletion(w) PROVE QueueTypes'
  BY <1>1, <1>22 DEF QueueTypes, NativeDeletion
<1>23. ASSUME NEW w \in Writers, NotStarted(w) PROVE QueueTypes'
  BY <1>1, <1>23 DEF QueueTypes, NotStarted
<1>24. ASSUME NEW w \in Writers, Acknowledge(w) PROVE QueueTypes'
  BY <1>1, <1>24 DEF QueueTypes, Acknowledge
<1>25. ASSUME NEW w \in Writers, ApplyDeletion(w) PROVE QueueTypes'
  BY <1>1, <1>25 DEF QueueTypes, ApplyDeletion
<1>26. ASSUME NEW w \in Writers, Reconcile(w) PROVE QueueTypes'
  <2>1. UNCHANGED queue \/ \E F : \E r \in Requests : Scheduling(F, r)
    BY <1>1, <1>26, Schedulers
  <2> QED BY <1>1, <2>1 DEF QueueTypes, Scheduling, OpenIn
<1>27. ASSUME NEW w \in Writers, LeaveAfterUse(w) PROVE QueueTypes'
  BY <1>1, <1>27 DEF QueueTypes, LeaveAfterUse
<1>28. ASSUME NEW w \in Writers, Evaluate(w) PROVE QueueTypes'
  <2>1. UNCHANGED queue \/ \E F : \E r \in Requests : Scheduling(F, r)
    BY <1>1, <1>28, Schedulers
  <2> QED BY <1>1, <2>1 DEF QueueTypes, Scheduling, OpenIn
<1>29. ASSUME NEW w \in Writers, Resume(w) PROVE QueueTypes'
  BY <1>1, <1>29 DEF QueueTypes, Resume
<1>30. ASSUME NEW w \in Writers, Give(w) PROVE QueueTypes'
  <2>1. UNCHANGED queue \/ \E F : \E r \in Requests : Scheduling(F, r)
    BY <1>1, <1>30, Schedulers
  <2> QED BY <1>1, <2>1 DEF QueueTypes, Scheduling, OpenIn
<1>31. CASE Access
  <2>1. UNCHANGED queue \/ \E F : \E r \in Requests : Scheduling(F, r)
    BY <1>1, <1>31, Schedulers
  <2> QED BY <1>1, <2>1 DEF QueueTypes, Scheduling, OpenIn
<1>32. CASE AskFor
  <2>1. UNCHANGED queue \/ \E F : \E r \in Requests : Scheduling(F, r)
    BY <1>1, <1>32, Schedulers
  <2> QED BY <1>1, <2>1 DEF QueueTypes, Scheduling, OpenIn
<1>33. CASE CooldownEnds
  BY <1>1, <1>33 DEF QueueTypes, CooldownEnds
<1>34. CASE TenDays
  BY <1>1, <1>34 DEF QueueTypes, TenDays
<1>35. CASE Stop
  BY <1>1, <1>35 DEF QueueTypes, Stop
<1>36. CASE Restart
  BY <1>1, <1>36 DEF QueueTypes, Restart
<1>37. CASE ChangeJobs
  BY <1>1, <1>37 DEF QueueTypes, ChangeJobs
<1> QED
  BY <1>2, <1>3, <1>4, <1>5, <1>6, <1>7, <1>8, <1>9, <1>10, <1>11, <1>12, <1>13, <1>14, <1>15,
     <1>16, <1>17, <1>18, <1>19, <1>20, <1>21, <1>22, <1>23, <1>24, <1>25, <1>26, <1>27, <1>28,
     <1>29, <1>30, <1>31, <1>32, <1>33, <1>34, <1>35, <1>36, <1>37 DEF Next, FillStep,
     WriterStep

\* The states of a goroutine that does not run, waits or is between two passes.
Control == InPass \cup {"idle", "queued", "top", "leavingQueue", "handing", "acquire", "ended"}

\* A goroutine that was just started, or has just ended, is in a known state.
LEMMA FillValues ==
    ASSUME NEW r \in Requests \cup {None}, NEW c \in SUBSET {"queue", "run"}, NEW p \in Control
    PROVE  /\ IdleFill \in FillTypes
           /\ [IdleFill EXCEPT !.pc = p, !.request = r] \in FillTypes
           /\ [IdleFill EXCEPT !.pc = p, !.request = r, !.cancel = c] \in FillTypes
           /\ \A b, y \in BOOLEAN : [IdleFill EXCEPT !.pc = p, !.request = r, !.cancel = c,
                  !.rebuilding = b, !.yielded = y] \in FillTypes
<1>1. 0 \in Nat /\ {} \in SUBSET Snapshots /\ None \in Requests \cup {None} OBVIOUS
<1> QED BY <1>1 DEF IdleFill, FillTypes, Control

\* The fields of a goroutine, each in its own set.
LEMMA FillFields ==
    ASSUME FillsTyped, NEW g \in Fills
    PROVE  /\ fill[g] \in FillTypes
           /\ fill[g].pc \in Control /\ fill[g].request \in Requests \cup {None}
           /\ fill[g].pass \in Requests \cup {None}
           /\ fill[g].cancel \in SUBSET {"queue", "run"}
           /\ fill[g].work \in SUBSET Snapshots /\ fill[g].seen \in SUBSET Snapshots
           /\ fill[g].observed \in Nat
           /\ fill[g].rebuilding \in BOOLEAN
           /\ fill[g].faulty \in BOOLEAN /\ fill[g].yielded \in BOOLEAN
BY DEF FillsTyped, FillTypes, Control

\* The changes the steps of a pass make to a goroutine keep it in a known state.
LEMMA FillChanges ==
    ASSUME NEW f \in FillTypes, NEW p \in Control, NEW n \in Nat, NEW S \in SUBSET Snapshots,
           NEW T \in SUBSET Snapshots, NEW q \in Requests \cup {None}
    PROVE  /\ [f EXCEPT !.pass = q, !.work = T, !.pc = p] \in FillTypes
           /\ [f EXCEPT !.seen = S, !.observed = n, !.pc = p] \in FillTypes
           /\ [f EXCEPT !.seen = S, !.observed = n, !.rebuilding = TRUE, !.pc = p] \in FillTypes
           /\ [f EXCEPT !.pc = p, !.observed = n, !.seen = S, !.work = T] \in FillTypes
           /\ [f EXCEPT !.pass = q, !.observed = n, !.pc = p] \in FillTypes
<1> USE DEF FillTypes, Control
<1>1. [f EXCEPT !.pass = q, !.work = T, !.pc = p] \in FillTypes OBVIOUS
<1>2. [f EXCEPT !.seen = S, !.observed = n, !.pc = p] \in FillTypes OBVIOUS
<1>3. [f EXCEPT !.seen = S, !.observed = n, !.rebuilding = TRUE, !.pc = p] \in FillTypes OBVIOUS
<1>4. [f EXCEPT !.pc = p, !.observed = n, !.seen = S, !.work = T] \in FillTypes OBVIOUS
<1>5. [f EXCEPT !.pass = q, !.observed = n, !.pc = p] \in FillTypes OBVIOUS
<1> QED BY <1>1, <1>2, <1>3, <1>4, <1>5

\* So does leaving the queue.
LEMMA Left ==
    ASSUME FillsTyped, NEW g \in Fills, Leave(g)
    PROVE  FillsTyped'
<1>1. /\ fill[g].request \in Requests \cup {None} /\ fill[g].cancel \in SUBSET {"queue", "run"}
      /\ fill[g].rebuilding \in BOOLEAN
  BY FillFields
<1>2. fill'[g] \in FillTypes /\ fill' = [fill EXCEPT ![g] = fill'[g]]
  <2> DEFINE new == [IdleFill EXCEPT !.pc = "ended", !.request = fill[g].request,
     !.cancel = fill[g].cancel, !.rebuilding = fill[g].rebuilding, !.yielded = g \in revoked]
  <2>1. new \in FillTypes
    <3>1. "ended" \in Control /\ (g \in revoked) \in BOOLEAN BY DEF Control
    <3>2. \A b, y \in BOOLEAN :
              [IdleFill EXCEPT !.pc = "ended", !.request = fill[g].request,
                               !.cancel = fill[g].cancel, !.rebuilding = b,
                               !.yielded = y] \in FillTypes
      BY <1>1, <3>1, FillValues
    <3> QED BY <1>1, <3>1, <3>2
  <2>2. fill' = [fill EXCEPT ![g] = new] BY DEF Leave
  <2> QED BY <2>1, <2>2 DEF FillsTyped
<1> QED BY <1>2 DEF FillsTyped

\* The goroutines keep their types.
LEMMA FillTyped == IInv /\ Next => FillsTyped'
<1> SUFFICES ASSUME IInv, Next PROVE FillsTyped' OBVIOUS
<1>1. FillsTyped /\ QueueTypes /\ VaultTypes /\ RequestsKnown /\ RunKnown
  BY DEF IInv, Types
<1> USE DEF Goto, Move, Closed, vault, gate, queue
<1>2. ASSUME NEW g \in Fills, StartPass(g) PROVE FillsTyped'
  BY <1>1, <1>2 DEF FillsTyped, FillTypes, InPass, StartPass
<1>3. ASSUME NEW g \in Fills, FinishQueued(g) PROVE FillsTyped'
  <2>1. pending \in Requests \cup {None} BY <1>1 DEF QueueTypes
  <2>2. IdleFill \in FillTypes /\ [IdleFill EXCEPT !.pc = "handing",
     !.request = pending] \in FillTypes
    BY <2>1, FillValues DEF Control
  <2> QED BY <1>1, <1>3, <2>2 DEF FinishQueued, FillsTyped
<1>4. ASSUME NEW g \in Fills, HandBack(g) PROVE FillsTyped'
  <2>1. \E r \in Requests : Scheduling([fill EXCEPT ![g] = IdleFill], r)
    BY <1>1, <1>4, Schedulers
  <2>2. [fill EXCEPT ![g] = IdleFill] \in [Fills -> FillTypes]
    BY <1>1, FillValues DEF FillsTyped, Control
  <2>3. \A r \in Requests : [IdleFill EXCEPT !.pc = "queued", !.request = r] \in FillTypes
    BY FillValues DEF Control
  <2> QED BY <2>1, <2>2, <2>3 DEF FillsTyped, Scheduling
<1>5. ASSUME NEW g \in Fills, Admit(g) PROVE FillsTyped'
  <2>1. fill[g].request \in Requests \cup {None} /\ fill[g] \in FillTypes BY <1>1, FillFields
  <2>2. Needed(header, fill[g].request.bypass) \subseteq Snapshots BY DEF Needed
  <2>4. PICK work \in SUBSET Snapshots, pc \in {"list", "index"} :
          fill' = [fill EXCEPT ![g].pass = fill[g].request, ![g].work = work, ![g].pc = pc]
    <3>1. (IF fill[g].request.headers \/ reconciled = "never" THEN {}
           ELSE Needed(header, fill[g].request.bypass)) \in SUBSET Snapshots
      BY <2>2
    <3>2. (IF fill[g].request.headers THEN "list" ELSE "index") \in {"list", "index"} OBVIOUS
    <3> QED BY <1>5, <3>1, <3>2 DEF Admit
  <2>5. [fill[g] EXCEPT !.pass = fill[g].request, !.work = work, !.pc = pc] \in FillTypes
    BY <2>1, FillChanges DEF Control, InPass
  <2> QED BY <1>1, <2>4, <2>5 DEF FillsTyped
<1>6. ASSUME NEW g \in Fills, NotAdmitted(g) PROVE FillsTyped'
  BY <1>1, <1>6 DEF FillsTyped, FillTypes, InPass, NotAdmitted
<1>7. ASSUME NEW g \in Fills, Interrupted(g) PROVE FillsTyped'
  BY <1>1, <1>7, Left DEF Interrupted
<1>8. ASSUME NEW g \in Fills, List(g) PROVE FillsTyped'
  <2>1. CASE Leave(g) BY <1>1, <2>1, Left
  <2>2. CASE ~Leave(g)
    <3>1. required' \in Nat BY <1>1, <1>8 DEF List, VaultTypes
    <3>2. native \in SUBSET Snapshots BY <1>1 DEF VaultTypes
    <3>3. \/ fill' = [fill EXCEPT ![g].seen = native, ![g].observed = required',
                                 ![g].pc = "publish"]
          \/ fill' = [fill EXCEPT ![g].seen = native, ![g].observed = required',
                                 ![g].rebuilding = TRUE, ![g].pc = "rebuild"]
      BY <1>8, <2>2 DEF List
    <3>4. /\ [fill[g] EXCEPT !.seen = native, !.observed = required',
                             !.pc = "publish"] \in FillTypes
          /\ [fill[g] EXCEPT !.seen = native, !.observed = required', !.rebuilding = TRUE,
                             !.pc = "rebuild"] \in FillTypes
      BY <1>1, <3>1, <3>2, FillFields, FillChanges DEF Control, InPass
    <3> QED BY <1>1, <3>3, <3>4 DEF FillsTyped
  <2> QED BY <2>1, <2>2
<1>9. ASSUME NEW g \in Fills, Rebuild(g) PROVE FillsTyped'
  BY <1>1, <1>9, Left DEF Rebuild
<1>10. ASSUME NEW g \in Fills, Publish(g) PROVE FillsTyped'
  <2>1. \A b \in BOOLEAN : /\ Needed(header, b) \subseteq Snapshots
                          /\ Needed(Listed(fill[g].seen), b) \subseteq Snapshots
    BY DEF Needed
  <2>2. fill[g].pass.bypass \in BOOLEAN
    BY <1>1, <1>10 DEF Publish, RequestsKnown, Requests, InPass
  <2>3. fill[g].observed \in Nat /\ required' \in Nat
    BY <1>1, <1>10, FillFields DEF Publish, VaultTypes
  <2>4. PICK work \in SUBSET Snapshots, n \in Nat :
          fill' = [fill EXCEPT ![g].pc = "index", ![g].observed = n,
                               ![g].seen = {}, ![g].work = work]
    <3>1. CASE required = fill[g].observed BY <1>10, <2>1, <2>2, <2>3, <3>1 DEF Publish
    <3>2. CASE required # fill[g].observed
      <4> DEFINE work == Needed(header, fill[g].pass.bypass)
      <4>1. fill' = [fill EXCEPT ![g].pc = "index", ![g].seen = {}, ![g].work = work]
        BY <1>10, <3>2 DEF Publish
      <4> HIDE DEF work
      <4>2. fill' = [fill EXCEPT ![g].pc = "index", ![g].observed = fill[g].observed,
                                 ![g].seen = {}, ![g].work = work]
        BY <1>1, <4>1 DEF FillsTyped, FillTypes
      <4>3. work \in SUBSET Snapshots BY <2>1, <2>2 DEF work
      <4> QED BY <2>3, <4>2, <4>3
    <3> QED BY <3>1, <3>2
  <2>5. [fill[g] EXCEPT !.pc = "index", !.observed = n, !.seen = {}, !.work = work]
          \in FillTypes
    BY <1>1, FillFields, FillChanges DEF Control, InPass
  <2> QED BY <1>1, <2>4, <2>5 DEF FillsTyped
<1>11. ASSUME NEW g \in Fills, PublishHalf(g) PROVE FillsTyped'
  BY <1>1, <1>11, Left DEF PublishHalf
<1>12. ASSUME NEW g \in Fills, Index(g) PROVE FillsTyped'
  BY <1>1, <1>12 DEF FillsTyped, FillTypes, InPass, Index
<1>13. ASSUME NEW g \in Fills, CompletePass(g) PROVE FillsTyped'
  <2>1. CASE Leave(g) BY <1>1, <2>1, Left
  <2>2. CASE ~Leave(g)
    <3>1. Evaluation \in Requests BY DEF Evaluation, Request, Requests
    <3>2. fill' = [fill EXCEPT ![g].pass = Evaluation, ![g].observed = 0, ![g].pc = "list"]
      BY <1>13, <2>2 DEF CompletePass
    <3>3. [fill[g] EXCEPT !.pass = Evaluation, !.observed = 0, !.pc = "list"] \in FillTypes
      BY <1>1, <3>1, FillFields, FillChanges DEF Control, InPass
    <3> QED BY <1>1, <3>2, <3>3 DEF FillsTyped
  <2> QED BY <2>1, <2>2
<1>14. ASSUME NEW g \in Fills, PassFails(g) PROVE FillsTyped'
  BY <1>1, <1>14, Left DEF PassFails
<1>15. ASSUME NEW g \in Fills, EndPass(g) PROVE FillsTyped'
  <2>1. fill[g].request \in Requests BY <1>1, <1>15 DEF EndPass, RequestsKnown
  <2>2. fill[g].cancel \ {"run"} \in SUBSET {"queue", "run"} BY <1>1, FillFields
  <2>3. \A kept \in Requests \cup {None} :
          [IdleFill EXCEPT !.pc = "top", !.request = kept,
             !.cancel = fill[g].cancel \ {"run"}] \in FillTypes
    BY <2>2, FillValues DEF Control
  <2>4. Stronger(pending,
     fill[g].request) \in Requests \cup {None} /\ pending \in Requests \cup {None}
    BY <1>1, <2>1, RequestTypes DEF QueueTypes
  <2>5. IdleFill \in FillTypes BY FillValues DEF Control
  <2> QED BY <1>1, <1>15, <2>3, <2>4, <2>5 DEF EndPass, FillsTyped
<1>16. ASSUME NEW g \in Fills, Revoke(g) PROVE FillsTyped'
  BY <1>1, <1>16 DEF FillsTyped, FillTypes, InPass, Revoke
<1>17. ASSUME NEW w \in Writers, Defer(w) PROVE FillsTyped'
  <2>1. CASE stopper = "none" BY <1>1, <1>17, <2>1 DEF Defer, FillsTyped
  <2>2. CASE stopper # "none"
    <3>1. stopper \in {"queue", "run"} BY <1>1, <2>2 DEF QueueTypes
    <3>2. running \in Fills BY <1>1, <2>2 DEF RunKnown, QueueTypes
    <3>3. fill' = [fill EXCEPT ![running].cancel = @ \cup {stopper}] BY <1>17, <2>2 DEF Defer
    <3> QED BY <1>1, <3>1, <3>2, <3>3 DEF FillsTyped, FillTypes
  <2> QED BY <2>1, <2>2
<1>18. ASSUME NEW w \in Writers, GiveUp(w) PROVE FillsTyped'
  BY <1>1, <1>18 DEF FillsTyped, FillTypes, InPass, GiveUp
<1>19. ASSUME NEW w \in Writers, AskVault(w) PROVE FillsTyped'
  BY <1>1, <1>19 DEF FillsTyped, FillTypes, InPass, AskVault
<1>20. ASSUME NEW w \in Writers, EnterVault(w) PROVE FillsTyped'
  BY <1>1, <1>20 DEF FillsTyped, FillTypes, InPass, EnterVault
<1>21. ASSUME NEW w \in Writers, NativeBackup(w) PROVE FillsTyped'
  BY <1>1, <1>21 DEF FillsTyped, FillTypes, InPass, NativeBackup
<1>22. ASSUME NEW w \in Writers, NativeDeletion(w) PROVE FillsTyped'
  BY <1>1, <1>22 DEF FillsTyped, FillTypes, InPass, NativeDeletion
<1>23. ASSUME NEW w \in Writers, NotStarted(w) PROVE FillsTyped'
  BY <1>1, <1>23 DEF FillsTyped, FillTypes, InPass, NotStarted
<1>24. ASSUME NEW w \in Writers, Acknowledge(w) PROVE FillsTyped'
  BY <1>1, <1>24 DEF FillsTyped, FillTypes, InPass, Acknowledge
<1>25. ASSUME NEW w \in Writers, ApplyDeletion(w) PROVE FillsTyped'
  BY <1>1, <1>25 DEF FillsTyped, FillTypes, InPass, ApplyDeletion
<1>26. ASSUME NEW w \in Writers, Reconcile(w) PROVE FillsTyped'
  <2>1. fill' = fill \/ \E r \in Requests : Scheduling(fill, r)
    BY <1>1, <1>26, Schedulers
  <2>2. \A r \in Requests : [IdleFill EXCEPT !.pc = "queued", !.request = r] \in FillTypes
    BY FillValues DEF Control
  <2> QED BY <1>1, <2>1, <2>2 DEF FillsTyped, Scheduling
<1>27. ASSUME NEW w \in Writers, LeaveAfterUse(w) PROVE FillsTyped'
  BY <1>1, <1>27 DEF FillsTyped, FillTypes, InPass, LeaveAfterUse
<1>28. ASSUME NEW w \in Writers, Evaluate(w) PROVE FillsTyped'
  <2>1. fill' = fill \/ \E r \in Requests : Scheduling(fill, r)
    BY <1>1, <1>28, Schedulers
  <2>2. \A r \in Requests : [IdleFill EXCEPT !.pc = "queued", !.request = r] \in FillTypes
    BY FillValues DEF Control
  <2> QED BY <1>1, <2>1, <2>2 DEF FillsTyped, Scheduling
<1>29. ASSUME NEW w \in Writers, Resume(w) PROVE FillsTyped'
  BY <1>1, <1>29 DEF FillsTyped, FillTypes, InPass, Resume
<1>30. ASSUME NEW w \in Writers, Give(w) PROVE FillsTyped'
  <2>1. fill' = fill \/ \E r \in Requests : Scheduling(fill, r)
    BY <1>1, <1>30, Schedulers
  <2>2. \A r \in Requests : [IdleFill EXCEPT !.pc = "queued", !.request = r] \in FillTypes
    BY FillValues DEF Control
  <2> QED BY <1>1, <2>1, <2>2 DEF FillsTyped, Scheduling
<1>31. CASE Access
  <2>1. fill' = fill \/ \E r \in Requests : Scheduling(fill, r)
    BY <1>1, <1>31, Schedulers
  <2>2. \A r \in Requests : [IdleFill EXCEPT !.pc = "queued", !.request = r] \in FillTypes
    BY FillValues DEF Control
  <2> QED BY <1>1, <2>1, <2>2 DEF FillsTyped, Scheduling
<1>32. CASE AskFor
  <2>1. fill' = fill \/ \E r \in Requests : Scheduling(fill, r)
    BY <1>1, <1>32, Schedulers
  <2>2. \A r \in Requests : [IdleFill EXCEPT !.pc = "queued", !.request = r] \in FillTypes
    BY FillValues DEF Control
  <2> QED BY <1>1, <2>1, <2>2 DEF FillsTyped, Scheduling
<1>33. CASE CooldownEnds
  BY <1>1, <1>33 DEF FillsTyped, FillTypes, InPass, CooldownEnds
<1>34. CASE TenDays
  BY <1>1, <1>34 DEF FillsTyped, FillTypes, InPass, TenDays
<1>35. CASE Stop
  BY <1>1, <1>35 DEF FillsTyped, FillTypes, InPass, Stop
<1>36. CASE Restart
  BY <1>36, FillValues DEF Restart, FillsTyped, Control
<1>37. CASE ChangeJobs
  BY <1>1, <1>37 DEF FillsTyped, FillTypes, InPass, ChangeJobs
<1> QED
  BY <1>2, <1>3, <1>4, <1>5, <1>6, <1>7, <1>8, <1>9, <1>10, <1>11, <1>12, <1>13, <1>14, <1>15,
     <1>16, <1>17, <1>18, <1>19, <1>20, <1>21, <1>22, <1>23, <1>24, <1>25, <1>26, <1>27, <1>28,
     <1>29, <1>30, <1>31, <1>32, <1>33, <1>34, <1>35, <1>36, <1>37 DEF Next, FillStep,
     WriterStep

\* The writers keep their types.
LEMMA WriterTyped == IInv /\ Next => WritersTyped'
<1> SUFFICES ASSUME IInv, Next PROVE WritersTyped' OBVIOUS
<1>1. WritersTyped /\ QueueTypes /\ VaultTypes /\ RequestsKnown
  BY DEF IInv, Types
<1> USE DEF Goto, Move, Leave, Closed, vault, gate, queue
<1>2. ASSUME NEW g \in Fills, StartPass(g) PROVE WritersTyped'
  BY <1>1, <1>2 DEF WritersTyped, WriterTypes, StartPass
<1>3. ASSUME NEW g \in Fills, FinishQueued(g) PROVE WritersTyped'
  BY <1>1, <1>3 DEF WritersTyped, WriterTypes, FinishQueued
<1>4. ASSUME NEW g \in Fills, HandBack(g) PROVE WritersTyped'
  BY <1>1, <1>4 DEF WritersTyped, WriterTypes, HandBack
<1>5. ASSUME NEW g \in Fills, Admit(g) PROVE WritersTyped'
  BY <1>1, <1>5 DEF WritersTyped, WriterTypes, Admit
<1>6. ASSUME NEW g \in Fills, NotAdmitted(g) PROVE WritersTyped'
  BY <1>1, <1>6 DEF WritersTyped, WriterTypes, NotAdmitted
<1>7. ASSUME NEW g \in Fills, Interrupted(g) PROVE WritersTyped'
  BY <1>1, <1>7 DEF WritersTyped, WriterTypes, Interrupted
<1>8. ASSUME NEW g \in Fills, List(g) PROVE WritersTyped'
  BY <1>1, <1>8 DEF WritersTyped, WriterTypes, List
<1>9. ASSUME NEW g \in Fills, Rebuild(g) PROVE WritersTyped'
  BY <1>1, <1>9 DEF WritersTyped, WriterTypes, Rebuild
<1>10. ASSUME NEW g \in Fills, Publish(g) PROVE WritersTyped'
  BY <1>1, <1>10 DEF WritersTyped, WriterTypes, Publish
<1>11. ASSUME NEW g \in Fills, PublishHalf(g) PROVE WritersTyped'
  BY <1>1, <1>11 DEF WritersTyped, WriterTypes, PublishHalf
<1>12. ASSUME NEW g \in Fills, Index(g) PROVE WritersTyped'
  BY <1>1, <1>12 DEF WritersTyped, WriterTypes, Index
<1>13. ASSUME NEW g \in Fills, CompletePass(g) PROVE WritersTyped'
  BY <1>1, <1>13 DEF WritersTyped, WriterTypes, CompletePass
<1>14. ASSUME NEW g \in Fills, PassFails(g) PROVE WritersTyped'
  BY <1>1, <1>14 DEF WritersTyped, WriterTypes, PassFails
<1>15. ASSUME NEW g \in Fills, EndPass(g) PROVE WritersTyped'
  BY <1>1, <1>15 DEF WritersTyped, WriterTypes, EndPass
<1>16. ASSUME NEW g \in Fills, Revoke(g) PROVE WritersTyped'
  BY <1>1, <1>16 DEF WritersTyped, WriterTypes, Revoke
<1>17. ASSUME NEW w \in Writers, Defer(w) PROVE WritersTyped'
  <2>1. doneOf \in Fills \cup {None} BY <1>1 DEF QueueTypes
  <2>2. PICK pc \in {"deferred", "draining"}, d \in Fills \cup {None} :
          writer' = [writer EXCEPT ![w].pc = pc, ![w].drain = d]
    BY <1>17, <2>1 DEF Defer
  <2>3. writer[w] \in WriterTypes BY <1>1 DEF WritersTyped
  <2>4. [writer[w] EXCEPT !.pc = pc, !.drain = d] \in WriterTypes
    BY <2>3 DEF WriterTypes
  <2> QED BY <1>1, <2>2, <2>4 DEF WritersTyped
<1>18. ASSUME NEW w \in Writers, GiveUp(w) PROVE WritersTyped'
  BY <1>1, <1>18 DEF WritersTyped, WriterTypes, IdleWriter, At, GiveUp
<1>19. ASSUME NEW w \in Writers, AskVault(w) PROVE WritersTyped'
  BY <1>1, <1>19 DEF WritersTyped, WriterTypes, IdleWriter, At, AskVault
<1>20. ASSUME NEW w \in Writers, EnterVault(w) PROVE WritersTyped'
  BY <1>1, <1>20 DEF WritersTyped, WriterTypes, VaultTypes, IdleWriter, EnterVault
<1>21. ASSUME NEW w \in Writers, NativeBackup(w) PROVE WritersTyped'
  BY <1>1, <1>21 DEF WritersTyped, WriterTypes, IdleWriter, At, NativeBackup
<1>22. ASSUME NEW w \in Writers, NativeDeletion(w) PROVE WritersTyped'
  BY <1>1, <1>22 DEF WritersTyped, WriterTypes, VaultTypes, IdleWriter, At, NativeDeletion
<1>23. ASSUME NEW w \in Writers, NotStarted(w) PROVE WritersTyped'
  BY <1>1, <1>23 DEF WritersTyped, WriterTypes, IdleWriter, At, NotStarted
<1>24. ASSUME NEW w \in Writers, Acknowledge(w) PROVE WritersTyped'
  BY <1>1, <1>24 DEF WritersTyped, WriterTypes, IdleWriter, At, Acknowledge
<1>25. ASSUME NEW w \in Writers, ApplyDeletion(w) PROVE WritersTyped'
  BY <1>1, <1>25 DEF WritersTyped, WriterTypes, IdleWriter, At, ApplyDeletion
<1>26. ASSUME NEW w \in Writers, Reconcile(w) PROVE WritersTyped'
  BY <1>1, <1>26 DEF WritersTyped, WriterTypes, IdleWriter, At, Reconcile
<1>27. ASSUME NEW w \in Writers, LeaveAfterUse(w) PROVE WritersTyped'
  BY <1>1, <1>27 DEF WritersTyped, WriterTypes, IdleWriter, At, LeaveAfterUse
<1>28. ASSUME NEW w \in Writers, Evaluate(w) PROVE WritersTyped'
  BY <1>1, <1>28 DEF WritersTyped, WriterTypes, IdleWriter, At, Evaluate
<1>29. ASSUME NEW w \in Writers, Resume(w) PROVE WritersTyped'
  BY <1>1, <1>29 DEF WritersTyped, WriterTypes, QueueTypes, IdleWriter, Resume
<1>30. ASSUME NEW w \in Writers, Give(w) PROVE WritersTyped'
  BY <1>1, <1>30 DEF WritersTyped, WriterTypes, IdleWriter, At, Give
<1>31. CASE Access
  BY <1>1, <1>31 DEF WritersTyped, WriterTypes, Access
<1>32. CASE AskFor
  BY <1>1, <1>32 DEF WritersTyped, WriterTypes, AskFor
<1>33. CASE CooldownEnds
  BY <1>1, <1>33 DEF WritersTyped, WriterTypes, CooldownEnds
<1>34. CASE TenDays
  BY <1>1, <1>34 DEF WritersTyped, WriterTypes, TenDays
<1>35. CASE Stop
  BY <1>1, <1>35 DEF WritersTyped, WriterTypes, Stop
<1>36. CASE Restart
  BY <1>1, <1>36 DEF WritersTyped, WriterTypes, IdleWriter, At, Restart
<1>37. CASE ChangeJobs
  BY <1>1, <1>37 DEF WritersTyped, WriterTypes, ChangeJobs
<1> QED
  BY <1>2, <1>3, <1>4, <1>5, <1>6, <1>7, <1>8, <1>9, <1>10, <1>11, <1>12, <1>13, <1>14, <1>15,
     <1>16, <1>17, <1>18, <1>19, <1>20, <1>21, <1>22, <1>23, <1>24, <1>25, <1>26, <1>27, <1>28,
     <1>29, <1>30, <1>31, <1>32, <1>33, <1>34, <1>35, <1>36, <1>37 DEF Next, FillStep,
     WriterStep

\* What each step of a goroutine leaves in its own state.
Others(g) == \A h \in Fills : h # g => fill'[h] = fill[h]
Fresh(g, p) == fill'[g].pc = p /\ fill'[g].observed = 0 /\ Others(g)
Asked(g) == fill'[g].request = fill[g].request
Same(g) == /\ Asked(g) /\ fill'[g].pass = fill[g].pass /\ fill'[g].seen = fill[g].seen
           /\ fill'[g].observed = fill[g].observed /\ fill'[g].work = fill[g].work
Open == {s \in Snapshots : header[s] \in {"pending", "failed"}}

\* The fields of a goroutine that starts or has ended.
LEMMA IdleFields ==
    ASSUME NEW p, NEW r, NEW c, NEW b, NEW y
    PROVE  /\ IdleFill.pc = "idle" /\ IdleFill.observed = 0
           /\ [IdleFill EXCEPT !.pc = p, !.request = r].pc = p
           /\ [IdleFill EXCEPT !.pc = p, !.request = r].request = r
           /\ [IdleFill EXCEPT !.pc = p, !.request = r].observed = 0
           /\ [IdleFill EXCEPT !.pc = p, !.request = r, !.cancel = c].pc = p
           /\ [IdleFill EXCEPT !.pc = p, !.request = r, !.cancel = c].request = r
           /\ [IdleFill EXCEPT !.pc = p, !.request = r, !.cancel = c].observed = 0
           /\ [IdleFill EXCEPT !.pc = p, !.request = r, !.cancel = c, !.rebuilding = b,
              !.yielded = y].pc = p
           /\ [IdleFill EXCEPT !.pc = p, !.request = r, !.cancel = c, !.rebuilding = b,
              !.yielded = y].request = r
           /\ [IdleFill EXCEPT !.pc = p, !.request = r, !.cancel = c, !.rebuilding = b,
              !.yielded = y].observed = 0
BY DEF IdleFill

\* What the steps up to a pass leave in the goroutine that takes them.
LEMMA Starts ==
    ASSUME FillsTyped, NEW g \in Fills
    PROVE  /\ StartPass(g) => /\ fill'[g].pc \in {"leavingQueue", "acquire"}
                              /\ fill'[g].pc = "acquire" => deferring = {}
                              /\ Same(g) /\ Others(g)
           /\ NotAdmitted(g) => fill'[g].pc = "ended" /\ Same(g) /\ Others(g)
           /\ Admit(g) => /\ fill'[g].pc \in {"list", "index"}
                          /\ fill'[g].pc = "index" => ~fill[g].request.headers
                          /\ fill'[g].work \subseteq Open
                          /\ Asked(g) /\ fill'[g].pass = fill[g].request
                          /\ fill'[g].observed = fill[g].observed /\ Others(g)
<1>1. fill[g] \in FillTypes BY DEF FillsTyped
<1>2. ASSUME NEW p, Goto(g, p) PROVE fill'[g].pc = p /\ Same(g) /\ Others(g)
  BY <1>1, <1>2 DEF Goto, FillsTyped, FillTypes, Same, Asked, Others
<1>3. StartPass(g) => /\ fill'[g].pc \in {"leavingQueue", "acquire"}
                      /\ fill'[g].pc = "acquire" => deferring = {}
                      /\ Same(g) /\ Others(g)
  BY <1>2 DEF StartPass
<1>4. NotAdmitted(g) => fill'[g].pc = "ended" /\ Same(g) /\ Others(g)
  BY <1>2 DEF NotAdmitted
<1>5. ASSUME Admit(g)
      PROVE  /\ fill'[g].pc \in {"list", "index"}
             /\ fill'[g].pc = "index" => ~fill[g].request.headers
             /\ fill'[g].work \subseteq Open
             /\ Asked(g) /\ fill'[g].pass = fill[g].request
             /\ fill'[g].observed = fill[g].observed /\ Others(g)
  <2>1. PICK work \in SUBSET Open :
          fill' = [fill EXCEPT ![g].pass = fill[g].request, ![g].work = work,
                               ![g].pc = IF fill[g].request.headers THEN "list" ELSE "index"]
    <3>1. Needed(header, fill[g].request.bypass) \subseteq Open BY DEF Needed, Open
    <3>2. (IF fill[g].request.headers \/ reconciled = "never" THEN {}
           ELSE Needed(header, fill[g].request.bypass)) \in SUBSET Open
      BY <3>1
    <3> QED BY <1>5, <3>2 DEF Admit
  <2> QED BY <1>1, <2>1 DEF FillsTyped, FillTypes, Asked, Others
<1> QED BY <1>3, <1>4, <1>5

\* What the steps that end a pass or a goroutine leave in it.
LEMMA Ends ==
    ASSUME FillsTyped, NEW g \in Fills
    PROVE  /\ Leave(g) => Fresh(g, "ended") /\ Asked(g)
           /\ FinishQueued(g) =>
                  \/ Fresh(g, "idle")
                  \/ Fresh(g, "handing") /\ fill'[g].request = pending /\ pending # None
           /\ EndPass(g) =>
                  \/ Fresh(g, "idle") /\ running' = None
                  \/ /\ Fresh(g, "top") /\ deferring = {} /\ running' = running
                     /\ fill'[g].request \in {pending, Stronger(pending,
                        fill[g].request)} \ {None}
<1>1. Leave(g) => Fresh(g, "ended") /\ Asked(g)
  BY IdleFields DEF Leave, Fresh, Asked, Others, FillsTyped
<1>2. FinishQueued(g) => \/ Fresh(g, "idle")
                         \/ Fresh(g, "handing") /\ fill'[g].request = pending /\ pending # None
  <2> DEFINE handing == [IdleFill EXCEPT !.pc = "handing", !.request = pending]
  <2>1. handing.pc = "handing" /\ handing.request = pending /\ handing.observed = 0
    BY IdleFields
  <2>2. FinishQueued(g) => \/ fill' = [fill EXCEPT ![g] = IdleFill]
                           \/ fill' = [fill EXCEPT ![g] = handing] /\ pending # None
    BY DEF FinishQueued, Closed
  <2> HIDE DEF handing
  <2> QED BY <2>1, <2>2, IdleFields DEF Fresh, Others, FillsTyped
<1>3. EndPass(g) => \/ Fresh(g, "idle") /\ running' = None
                    \/ /\ Fresh(g, "top") /\ deferring = {} /\ running' = running
                       /\ fill'[g].request \in {pending, Stronger(pending,
                          fill[g].request)} \ {None}
  <2> DEFINE top(r) == [IdleFill EXCEPT !.pc = "top", !.request = r,
     !.cancel = fill[g].cancel \ {"run"}]
  <2>1. \A r : top(r).pc = "top" /\ top(r).request = r /\ top(r).observed = 0 BY IdleFields
  <2>2. EndPass(g) =>
            \/ fill' = [fill EXCEPT ![g] = IdleFill] /\ running' = None
            \/ deferring = {} /\ running' = running /\ \E r \in {pending, Stronger(pending,
               fill[g].request)} \ {None} :
                  fill' = [fill EXCEPT ![g] = top(r)]
    BY DEF EndPass, Closed
  <2> HIDE DEF top
  <2> QED BY <2>1, <2>2, IdleFields DEF Fresh, Others, FillsTyped
<1> QED BY <1>1, <1>2, <1>3

\* What the steps of a pass leave in the goroutine that takes them.
LEMMA Passes ==
    ASSUME FillsTyped, NEW g \in Fills
    PROVE  /\ List(g) /\ ~Leave(g) =>
                  /\ fill'[g].pc \in {"publish", "rebuild"} /\ Asked(g) /\ Others(g)
                  /\ fill'[g].pass = fill[g].pass /\ fill'[g].seen = native
                  /\ fill'[g].observed = required'
           /\ Publish(g) =>
                  /\ fill'[g].pc = "index" /\ Asked(g) /\ Others(g)
                  /\ fill'[g].pass = fill[g].pass
                  /\ fill'[g].observed = IF required = fill[g].observed THEN required'
                                         ELSE fill[g].observed
                  /\ fill'[g].work \subseteq Open'
           /\ Index(g) => /\ fill'[g].pc = "index" /\ Asked(g) /\ Others(g)
                           /\ fill'[g].pass = fill[g].pass /\ fill'[g].seen = fill[g].seen
                           /\ fill'[g].observed = fill[g].observed
                           /\ fill'[g].work \subseteq fill[g].work
           /\ CompletePass(g) /\ ~Leave(g) =>
                  /\ fill'[g].pc = "list" /\ Asked(g) /\ Others(g)
                  /\ fill'[g].pass = Evaluation /\ fill'[g].observed = 0
<1>1. fill[g] \in FillTypes BY DEF FillsTyped
<1>2. ASSUME List(g), ~Leave(g)
      PROVE  /\ fill'[g].pc \in {"publish", "rebuild"} /\ Asked(g) /\ Others(g)
             /\ fill'[g].pass = fill[g].pass /\ fill'[g].seen = native
             /\ fill'[g].observed = required'
  <2>1. \/ fill' = [fill EXCEPT ![g].seen = native, ![g].observed = required',
                               ![g].pc = "publish"]
        \/ fill' = [fill EXCEPT ![g].seen = native, ![g].observed = required',
                               ![g].rebuilding = TRUE, ![g].pc = "rebuild"]
    BY <1>2 DEF List
  <2> QED BY <1>1, <2>1 DEF FillsTyped, FillTypes, Asked, Others
<1>3. ASSUME Publish(g)
      PROVE  /\ fill'[g].pc = "index" /\ Asked(g) /\ Others(g)
             /\ fill'[g].pass = fill[g].pass
             /\ fill'[g].observed = IF required = fill[g].observed THEN required'
                                    ELSE fill[g].observed
             /\ fill'[g].work \subseteq Open'
  <2>1. CASE required = fill[g].observed
    <3>1. PICK work \in SUBSET Open' :
            fill' = [fill EXCEPT ![g].pc = "index", ![g].observed = required',
                                 ![g].seen = {}, ![g].work = work]
      <4>1. Needed(header', fill[g].pass.bypass) \subseteq Open' BY DEF Needed, Open
      <4> QED BY <1>3, <2>1, <4>1 DEF Publish
    <3> QED BY <1>1, <2>1, <3>1 DEF FillsTyped, FillTypes, Asked, Others
  <2>2. CASE required # fill[g].observed
    <3>1. PICK work \in SUBSET Open' :
            fill' = [fill EXCEPT ![g].pc = "index", ![g].seen = {}, ![g].work = work]
      <4>1. Needed(header', fill[g].pass.bypass) \subseteq Open' BY DEF Needed, Open
      <4>2. header' = header BY <1>3, <2>2 DEF Publish
      <4> QED BY <1>3, <2>2, <4>1, <4>2 DEF Publish
    <3> QED BY <1>1, <2>2, <3>1 DEF FillsTyped, FillTypes, Asked, Others
  <2> QED BY <2>1, <2>2
<1>4. ASSUME Index(g)
      PROVE  /\ fill'[g].pc = "index" /\ Asked(g) /\ Others(g)
             /\ fill'[g].pass = fill[g].pass /\ fill'[g].seen = fill[g].seen
             /\ fill'[g].observed = fill[g].observed /\ fill'[g].work \subseteq fill[g].work
  <2>1. fill[g].pc = "index" BY <1>4 DEF Index
  <2>2. PICK s : \/ fill' = [fill EXCEPT ![g].work = @ \ {s}]
                 \/ fill' = [fill EXCEPT ![g].work = @ \ {s}, ![g].faulty = TRUE]
    BY <1>4 DEF Index
  <2> QED BY <1>1, <2>1, <2>2 DEF FillsTyped, FillTypes, Same, Asked, Others
<1>5. ASSUME CompletePass(g), ~Leave(g)
      PROVE  /\ fill'[g].pc = "list" /\ Asked(g) /\ Others(g)
             /\ fill'[g].pass = Evaluation /\ fill'[g].observed = 0
  <2>1. fill' = [fill EXCEPT ![g].pass = Evaluation, ![g].observed = 0, ![g].pc = "list"]
    BY <1>5 DEF CompletePass
  <2> QED BY <1>1, <2>1 DEF FillsTyped, FillTypes, Asked, Others
<1> QED BY <1>2, <1>3, <1>4, <1>5

\* What the steps of others leave in the goroutines.
LEMMA Elsewhere ==
    ASSUME FillsTyped
    PROVE  /\ \A w \in Writers : Defer(w) =>
                  \A g \in Fills : fill'[g].pc = fill[g].pc /\ Same(g)
           /\ Restart => \A g \in Fills : fill'[g].pc = "idle" /\ fill'[g].observed = 0
           /\ \A r : Scheduling(fill, r) =>
                  \/ fill' = fill
                  \/ \E g \in Fills :
                         Fresh(g, "queued") /\ fill'[g].request = r /\ fill[g].pc = "idle"
           /\ \A g \in Fills : \A r :
                  fill[g].pc = "handing" /\ Scheduling([fill EXCEPT ![g] = IdleFill], r) =>
                  \A h \in Fills : \/ h # g /\ fill'[h] = fill[h]
                                   \/ /\ fill[h].pc \in {"idle", "handing"}
                                      /\ fill'[h].observed = 0
                                      /\ fill'[h].pc = "idle"
                                         \/ (fill'[h].pc = "queued" /\ fill'[h].request = r)
<1>1. ASSUME NEW w \in Writers, Defer(w), NEW g \in Fills
      PROVE  fill'[g].pc = fill[g].pc /\ Same(g)
  <2>1. fill' = fill \/ \E h, c : fill' = [fill EXCEPT ![h].cancel = c]
    BY <1>1 DEF Defer
  <2> QED BY <2>1 DEF FillsTyped, FillTypes, Same, Asked
<1>2. Restart => \A g \in Fills : fill'[g].pc = "idle" /\ fill'[g].observed = 0
  BY IdleFields DEF Restart
<1>3. ASSUME NEW r, Scheduling(fill, r)
      PROVE  \/ fill' = fill
             \/ \E g \in Fills :
                    Fresh(g, "queued") /\ fill'[g].request = r /\ fill[g].pc = "idle"
  <2> DEFINE queued == [IdleFill EXCEPT !.pc = "queued", !.request = r]
  <2>1. queued.pc = "queued" /\ queued.request = r /\ queued.observed = 0 BY IdleFields
  <2>2. fill' = fill
     \/ \E g \in Fills : fill[g].pc = "idle" /\ fill' = [fill EXCEPT ![g] = queued]
    BY <1>3 DEF Scheduling
  <2> HIDE DEF queued
  <2> QED BY <2>1, <2>2 DEF Fresh, Others, FillsTyped
<1>4. ASSUME NEW g \in Fills, NEW r, fill[g].pc = "handing",
             Scheduling([fill EXCEPT ![g] = IdleFill], r), NEW h \in Fills
      PROVE  \/ h # g /\ fill'[h] = fill[h]
             \/ /\ fill[h].pc \in {"idle", "handing"} /\ fill'[h].observed = 0
                /\ fill'[h].pc = "idle" \/ (fill'[h].pc = "queued" /\ fill'[h].request = r)
  <2> DEFINE queued == [IdleFill EXCEPT !.pc = "queued", !.request = r]
             F == [fill EXCEPT ![g] = IdleFill]
  <2>1. queued.pc = "queued" /\ queued.request = r /\ queued.observed = 0 BY IdleFields
  <2>2. fill' = F \/ \E i \in Fills : F[i].pc = "idle" /\ fill' = [F EXCEPT ![i] = queued]
    BY <1>4 DEF Scheduling
  <2>3. F[g] = IdleFill /\ \A i \in Fills : i # g => F[i] = fill[i] BY DEF FillsTyped
  <2>4. F \in [Fills -> {F[i] : i \in Fills}] BY DEF FillsTyped
  <2> HIDE DEF queued, F
  <2> QED BY <1>4, <2>1, <2>2, <2>3, <2>4, IdleFields
<1> QED BY <1>1, <1>2, <1>3, <1>4

\* Nobody hands on nothing.
LEMMA RequestsKept == IInv /\ Next => RequestsKnown'
<1> SUFFICES ASSUME IInv, Next PROVE RequestsKnown' OBVIOUS
<1>1. /\ FillsTyped /\ WritersTyped /\ QueueTypes /\ VaultTypes
      /\ RequestsKnown /\ RunKnown
  BY DEF IInv, Types
<1> USE DEF Goto, Move, vault, gate, queue
<1>2. ASSUME NEW g \in Fills, StartPass(g) PROVE RequestsKnown'
  BY <1>1, <1>2, Starts DEF RequestsKnown, InPass, At, Others, Same, Asked, Fresh, StartPass
<1>3. ASSUME NEW g \in Fills, FinishQueued(g) PROVE RequestsKnown'
  BY <1>1, <1>3, Ends DEF RequestsKnown, InPass, At, Others, Same, Asked, Fresh, QueueTypes,
     FinishQueued
<1>4. ASSUME NEW g \in Fills, HandBack(g) PROVE RequestsKnown'
  <2>1. fill' = fill \/ \E r \in Requests : Scheduling([fill EXCEPT ![g] = IdleFill], r)
    BY <1>1, <1>4, Schedulers
  <2>2. UNCHANGED writer /\ fill[g].pc = "handing" BY <1>4 DEF HandBack
  <2>3. \A h \in Fills : \/ fill'[h] = fill[h]
                         \/ fill'[h].pc = "idle"
                         \/ fill'[h].pc = "queued" /\ fill'[h].request \in Requests
    BY <1>1, <2>1, <2>2, Elsewhere
  <2> QED BY <1>1, <2>2, <2>3 DEF RequestsKnown, At, InPass
<1>5. ASSUME NEW g \in Fills, Admit(g) PROVE RequestsKnown'
  <2>1. fill[g].request \in Requests /\ UNCHANGED writer BY <1>1, <1>5 DEF Admit, RequestsKnown
  <2> QED BY <1>1, <1>5, <2>1, Starts DEF RequestsKnown, Others, Asked, At
<1>6. ASSUME NEW g \in Fills, NotAdmitted(g) PROVE RequestsKnown'
  BY <1>1, <1>6, Starts DEF RequestsKnown, InPass, At, Others, Same, Asked, Fresh, NotAdmitted
<1>7. ASSUME NEW g \in Fills, Interrupted(g) PROVE RequestsKnown'
  BY <1>1, <1>7, Ends DEF RequestsKnown, InPass, At, Others, Same, Asked, Fresh, Interrupted
<1>8. ASSUME NEW g \in Fills, List(g) PROVE RequestsKnown'
  BY <1>1, <1>8, Ends, Passes DEF RequestsKnown, InPass, At, Others, Same, Asked, Fresh, List
<1>9. ASSUME NEW g \in Fills, Rebuild(g) PROVE RequestsKnown'
  BY <1>1, <1>9, Ends DEF RequestsKnown, InPass, At, Others, Same, Asked, Fresh, Rebuild
<1>10. ASSUME NEW g \in Fills, Publish(g) PROVE RequestsKnown'
  BY <1>1, <1>10, Passes DEF RequestsKnown, InPass, At, Others, Same, Asked, Fresh, Publish
<1>11. ASSUME NEW g \in Fills, PublishHalf(g) PROVE RequestsKnown'
  BY <1>1, <1>11, Ends DEF RequestsKnown, InPass, At, Others, Same, Asked, Fresh, PublishHalf
<1>12. ASSUME NEW g \in Fills, Index(g) PROVE RequestsKnown'
  BY <1>1, <1>12, Passes DEF RequestsKnown, InPass, At, Others, Same, Asked, Fresh, Index
<1>13. ASSUME NEW g \in Fills, CompletePass(g) PROVE RequestsKnown'
  <2>1. fill[g].pc = "index" /\ UNCHANGED writer BY <1>13 DEF CompletePass
  <2>2. CASE Leave(g)
    BY <1>1, <2>1, <2>2, Ends DEF RequestsKnown, Fresh, Asked, Others, At, InPass
  <2>3. CASE ~Leave(g)
    <3>1. Evaluation \in Requests BY DEF Evaluation, Request, Requests
    <3> QED BY <1>1, <1>13, <2>1, <2>3, <3>1, Passes DEF RequestsKnown, Asked, Others, At
  <2> QED BY <2>2, <2>3
<1>14. ASSUME NEW g \in Fills, PassFails(g) PROVE RequestsKnown'
  BY <1>1, <1>14, Ends DEF RequestsKnown, InPass, At, Others, Same, Asked, Fresh, PassFails
<1>15. ASSUME NEW g \in Fills, EndPass(g) PROVE RequestsKnown'
  <2>1. Stronger(pending, fill[g].request) \in Requests /\ pending \in Requests \cup {None}
    BY <1>1, <1>15, RequestTypes DEF EndPass, QueueTypes, RequestsKnown
  <2>2. UNCHANGED writer BY <1>15 DEF EndPass
  <2> QED BY <1>1, <1>15, <2>1, <2>2, Ends DEF RequestsKnown, Fresh, Others, At, InPass
<1>16. ASSUME NEW g \in Fills, Revoke(g) PROVE RequestsKnown'
  BY <1>1, <1>16 DEF RequestsKnown, InPass, At, Others, Same, Asked, Fresh, Revoke
<1>17. ASSUME NEW w \in Writers, Defer(w) PROVE RequestsKnown'
  <2>1. \A g \in Fills : fill'[g].pc = fill[g].pc /\ Same(g) BY <1>1, <1>17, Elsewhere
  <2>2. /\ writer'[w].pc \in {"deferred", "draining"}
        /\ \A x \in Writers : x # w => writer'[x] = writer[x]
    BY <1>1, <1>17 DEF Defer, WritersTyped, WriterTypes
  <2> QED BY <1>1, <2>1, <2>2 DEF RequestsKnown, Same, Asked, At
<1>18. ASSUME NEW w \in Writers, GiveUp(w) PROVE RequestsKnown'
  BY <1>1, <1>18 DEF RequestsKnown, InPass, At, WritersTyped, WriterTypes, IdleWriter, GiveUp
<1>19. ASSUME NEW w \in Writers, AskVault(w) PROVE RequestsKnown'
  BY <1>1, <1>19 DEF RequestsKnown, InPass, At, WritersTyped, WriterTypes, IdleWriter, AskVault
<1>20. ASSUME NEW w \in Writers, EnterVault(w) PROVE RequestsKnown'
  BY <1>1, <1>20 DEF RequestsKnown, InPass, At, WritersTyped, WriterTypes, IdleWriter,
     EnterVault
<1>21. ASSUME NEW w \in Writers, NativeBackup(w) PROVE RequestsKnown'
  BY <1>1, <1>21 DEF RequestsKnown, InPass, At, WritersTyped, WriterTypes, IdleWriter,
     NativeBackup
<1>22. ASSUME NEW w \in Writers, NativeDeletion(w) PROVE RequestsKnown'
  <2>1. PICK s \in native :
          \/ writer' = [writer EXCEPT ![w].pc = "apply", ![w].snapshot = s]
          \/ Move(w, "unlocking")
    BY <1>22 DEF NativeDeletion
  <2>2. s \in Snapshots BY <1>1 DEF VaultTypes
  <2>3. UNCHANGED fill BY <1>22 DEF NativeDeletion
  <2> QED BY <1>1, <2>1, <2>2, <2>3 DEF RequestsKnown, WritersTyped, WriterTypes, IdleWriter, At
<1>23. ASSUME NEW w \in Writers, NotStarted(w) PROVE RequestsKnown'
  BY <1>1, <1>23 DEF RequestsKnown, InPass, At, WritersTyped, WriterTypes, IdleWriter,
     NotStarted
<1>24. ASSUME NEW w \in Writers, Acknowledge(w) PROVE RequestsKnown'
  BY <1>1, <1>24 DEF RequestsKnown, InPass, At, WritersTyped, WriterTypes, IdleWriter,
     Acknowledge
<1>25. ASSUME NEW w \in Writers, ApplyDeletion(w) PROVE RequestsKnown'
  BY <1>1, <1>25 DEF RequestsKnown, InPass, At, WritersTyped, WriterTypes, IdleWriter,
     ApplyDeletion
<1>26. ASSUME NEW w \in Writers, Reconcile(w) PROVE RequestsKnown'
  <2>1. fill' = fill \/ \E r \in Requests : Scheduling(fill, r) BY <1>1, <1>26, Schedulers
  <2> QED
    BY <1>1, <1>26, <2>1, Elsewhere DEF Reconcile, Others, Same, Asked, Fresh, RequestsKnown,
       WritersTyped, WriterTypes, IdleWriter, At, InPass
<1>27. ASSUME NEW w \in Writers, LeaveAfterUse(w) PROVE RequestsKnown'
  BY <1>1, <1>27 DEF RequestsKnown, InPass, At, WritersTyped, WriterTypes, IdleWriter,
     LeaveAfterUse
<1>28. ASSUME NEW w \in Writers, Evaluate(w) PROVE RequestsKnown'
  <2>1. fill' = fill \/ \E r \in Requests : Scheduling(fill, r) BY <1>1, <1>28, Schedulers
  <2> QED
    BY <1>1, <1>28, <2>1, Elsewhere DEF Evaluate, Others, Same, Asked, Fresh, RequestsKnown,
       WritersTyped, WriterTypes, IdleWriter, At, InPass
<1>29. ASSUME NEW w \in Writers, Resume(w) PROVE RequestsKnown'
  BY <1>1, <1>29 DEF RequestsKnown, InPass, At, WritersTyped, WriterTypes, IdleWriter,
     QueueTypes, Resume
<1>30. ASSUME NEW w \in Writers, Give(w) PROVE RequestsKnown'
  <2>1. fill' = fill \/ \E r \in Requests : Scheduling(fill, r) BY <1>1, <1>30, Schedulers
  <2> QED
    BY <1>1, <1>30, <2>1, Elsewhere DEF Give, Others, Same, Asked, Fresh, RequestsKnown,
       WritersTyped, WriterTypes, IdleWriter, At, InPass
<1>31. CASE Access
  <2>1. fill' = fill \/ \E r \in Requests : Scheduling(fill, r) BY <1>1, <1>31, Schedulers
  <2> QED
    BY <1>1, <1>31, <2>1, Elsewhere DEF Access, Others, Same, Asked, Fresh, RequestsKnown,
       WritersTyped, WriterTypes, IdleWriter, At, InPass
<1>32. CASE AskFor
  <2>1. fill' = fill \/ \E r \in Requests : Scheduling(fill, r) BY <1>1, <1>32, Schedulers
  <2> QED
    BY <1>1, <1>32, <2>1, Elsewhere DEF AskFor, Others, Same, Asked, Fresh, RequestsKnown,
       WritersTyped, WriterTypes, IdleWriter, At, InPass
<1>33. CASE CooldownEnds
  BY <1>1, <1>33 DEF RequestsKnown, InPass, At, CooldownEnds
<1>34. CASE TenDays
  BY <1>1, <1>34 DEF RequestsKnown, InPass, At, TenDays
<1>35. CASE Stop
  BY <1>1, <1>35 DEF RequestsKnown, InPass, At, Stop
<1>36. CASE Restart
  BY <1>1, <1>36, Elsewhere DEF RequestsKnown, InPass, At, Others, Same, Asked, Fresh,
     WritersTyped, WriterTypes, IdleWriter, Restart
<1>37. CASE ChangeJobs
  BY <1>1, <1>37 DEF RequestsKnown, InPass, At, ChangeJobs
<1> QED
  BY <1>2, <1>3, <1>4, <1>5, <1>6, <1>7, <1>8, <1>9, <1>10, <1>11, <1>12, <1>13, <1>14, <1>15,
     <1>16, <1>17, <1>18, <1>19, <1>20, <1>21, <1>22, <1>23, <1>24, <1>25, <1>26, <1>27, <1>28,
     <1>29, <1>30, <1>31, <1>32, <1>33, <1>34, <1>35, <1>36, <1>37 DEF Next, FillStep,
     WriterStep

\* Only one goroutine runs.
LEMMA RunKept == IInv /\ Next => RunKnown'
<1> SUFFICES ASSUME IInv, Next PROVE RunKnown' OBVIOUS
<1>1. FillsTyped /\ QueueTypes /\ RequestsKnown /\ RunKnown
  BY DEF IInv, Types
<1> USE DEF Goto, Move, vault, gate, queue
<1>2. ASSUME NEW g \in Fills, StartPass(g) PROVE RunKnown'
  BY <1>1, <1>2, NoneAssumption, Starts DEF RunKnown, InPass, QueueTypes, RequestsKnown, Others,
     Same, Asked, Fresh, StartPass
<1>3. ASSUME NEW g \in Fills, FinishQueued(g) PROVE RunKnown'
  BY <1>1, <1>3, NoneAssumption, Ends DEF RunKnown, InPass, QueueTypes, RequestsKnown, Others,
     Same, Asked, Fresh, Closed, FinishQueued
<1>4. ASSUME NEW g \in Fills, HandBack(g) PROVE RunKnown'
  <2> DEFINE F == [fill EXCEPT ![g] = IdleFill]
  <2>1. UNCHANGED <<fill, running, active, stopper, doneOf>>
     \/ \E r \in Requests : Scheduling(F, r)
    BY <1>1, <1>4, Schedulers
  <2>2. \A h \in Fills : F[h].pc = fill[h].pc \/ (fill[h].pc = "handing" /\ F[h].pc = "idle")
    BY <1>1, <1>4, IdleFields DEF FillsTyped, HandBack
  <2>3. F \in [Fills -> {F[h] : h \in Fills}] BY <1>1 DEF FillsTyped
  <2>4. ASSUME fill' = F, doneOf' = OpenIn(F), UNCHANGED <<running, active, stopper>>
        PROVE  RunKnown'
    BY <1>1, <2>2, <2>4, NoneAssumption DEF RunKnown, OpenIn, QueueTypes
  <2>5. ASSUME NEW r \in Requests, NEW h \in Fills, running = None, running' = h, doneOf' = h,
               active' = r, stopper' = "queue",
               fill' = [F EXCEPT ![h] = [IdleFill EXCEPT !.pc = "queued", !.request = r]]
        PROVE  RunKnown'
    <3> DEFINE queued == [IdleFill EXCEPT !.pc = "queued", !.request = r]
    <3>1. queued.pc = "queued" BY IdleFields
    <3>2. fill' = [F EXCEPT ![h] = queued] BY <2>5
    <3> HIDE DEF queued, F
    <3> QED BY <1>1, <2>2, <2>3, <2>5, <3>1, <3>2, NoneAssumption DEF RunKnown
  <2>6. UNCHANGED <<fill, running, active, stopper, doneOf>> => RunKnown' BY <1>1 DEF RunKnown
  <2> HIDE DEF F
  <2> QED BY <2>1, <2>4, <2>5, <2>6 DEF Scheduling
<1>5. ASSUME NEW g \in Fills, Admit(g) PROVE RunKnown'
  <2>1. UNCHANGED <<running, doneOf, active, stopper>> /\ fill[g].pc = "acquire"
    BY <1>5 DEF Admit
  <2>2. fill'[g].pc \in {"list", "index"} /\ Others(g) BY <1>1, <1>5, Starts
  <2> QED BY <1>1, <2>1, <2>2 DEF RunKnown, Others
<1>6. ASSUME NEW g \in Fills, NotAdmitted(g) PROVE RunKnown'
  BY <1>1, <1>6, NoneAssumption, Starts DEF RunKnown, InPass, QueueTypes, RequestsKnown, Others,
     Same, Asked, Fresh, NotAdmitted
<1>7. ASSUME NEW g \in Fills, Interrupted(g) PROVE RunKnown'
  BY <1>1, <1>7, NoneAssumption, Ends DEF RunKnown, InPass, QueueTypes, RequestsKnown, Others,
     Same, Asked, Fresh, Interrupted
<1>8. ASSUME NEW g \in Fills, List(g) PROVE RunKnown'
  BY <1>1, <1>8, NoneAssumption, Ends, Passes DEF RunKnown, InPass, QueueTypes, RequestsKnown,
     Others, Same, Asked, Fresh, List
<1>9. ASSUME NEW g \in Fills, Rebuild(g) PROVE RunKnown'
  BY <1>1, <1>9, NoneAssumption, Ends DEF RunKnown, InPass, QueueTypes, RequestsKnown, Others,
     Same, Asked, Fresh, Rebuild
<1>10. ASSUME NEW g \in Fills, Publish(g) PROVE RunKnown'
  BY <1>1, <1>10, NoneAssumption, Passes DEF RunKnown, InPass, QueueTypes, RequestsKnown,
     Others, Same, Asked, Fresh, Publish
<1>11. ASSUME NEW g \in Fills, PublishHalf(g) PROVE RunKnown'
  BY <1>1, <1>11, NoneAssumption, Ends DEF RunKnown, InPass, QueueTypes, RequestsKnown, Others,
     Same, Asked, Fresh, PublishHalf
<1>12. ASSUME NEW g \in Fills, Index(g) PROVE RunKnown'
  BY <1>1, <1>12, NoneAssumption, Passes DEF RunKnown, InPass, QueueTypes, RequestsKnown,
     Others, Same, Asked, Fresh, Index
<1>13. ASSUME NEW g \in Fills, CompletePass(g) PROVE RunKnown'
  <2>1. UNCHANGED <<running, doneOf, active, stopper>> /\ fill[g].pc = "index"
    BY <1>13 DEF CompletePass
  <2>2. fill'[g].pc \in {"ended", "list"} /\ Others(g) BY <1>1, <1>13, Ends, Passes DEF Fresh
  <2> QED BY <1>1, <2>1, <2>2 DEF RunKnown, Others
<1>14. ASSUME NEW g \in Fills, PassFails(g) PROVE RunKnown'
  BY <1>1, <1>14, NoneAssumption, Ends DEF RunKnown, InPass, QueueTypes, RequestsKnown, Others,
     Same, Asked, Fresh, PassFails
<1>15. ASSUME NEW g \in Fills, EndPass(g) PROVE RunKnown'
  <2>1. fill[g].pc = "ended" /\ active' = None /\ stopper' = "none" BY <1>15 DEF EndPass
  <2>2. (running' = running /\ doneOf' = doneOf) \/ running' = None BY <1>15 DEF EndPass
  <2>3. fill'[g].pc \in {"idle", "top"} /\ Others(g) BY <1>1, <1>15, Ends DEF Fresh
  <2>4. running' = None <=> fill'[g].pc = "idle"
    BY <1>1, <1>15, <2>1, Ends, NoneAssumption DEF Fresh, RunKnown
  <2> QED BY <1>1, <2>1, <2>2, <2>3, <2>4, NoneAssumption DEF RunKnown, Others
<1>16. ASSUME NEW g \in Fills, Revoke(g) PROVE RunKnown'
  BY <1>1, <1>16, NoneAssumption DEF RunKnown, InPass, QueueTypes, RequestsKnown, Others, Same,
     Asked, Fresh, Revoke
<1>17. ASSUME NEW w \in Writers, Defer(w) PROVE RunKnown'
  BY <1>1, <1>17, NoneAssumption, Elsewhere DEF RunKnown, InPass, QueueTypes, RequestsKnown,
     Others, Same, Asked, Fresh, Defer
<1>18. ASSUME NEW w \in Writers, GiveUp(w) PROVE RunKnown'
  BY <1>1, <1>18, NoneAssumption DEF RunKnown, InPass, QueueTypes, RequestsKnown, GiveUp
<1>19. ASSUME NEW w \in Writers, AskVault(w) PROVE RunKnown'
  BY <1>1, <1>19, NoneAssumption DEF RunKnown, InPass, QueueTypes, RequestsKnown, AskVault
<1>20. ASSUME NEW w \in Writers, EnterVault(w) PROVE RunKnown'
  BY <1>1, <1>20, NoneAssumption DEF RunKnown, InPass, QueueTypes, RequestsKnown, EnterVault
<1>21. ASSUME NEW w \in Writers, NativeBackup(w) PROVE RunKnown'
  BY <1>1, <1>21, NoneAssumption DEF RunKnown, InPass, QueueTypes, RequestsKnown, NativeBackup
<1>22. ASSUME NEW w \in Writers, NativeDeletion(w) PROVE RunKnown'
  BY <1>1, <1>22, NoneAssumption DEF RunKnown, InPass, QueueTypes, RequestsKnown, NativeDeletion
<1>23. ASSUME NEW w \in Writers, NotStarted(w) PROVE RunKnown'
  BY <1>1, <1>23, NoneAssumption DEF RunKnown, InPass, QueueTypes, RequestsKnown, NotStarted
<1>24. ASSUME NEW w \in Writers, Acknowledge(w) PROVE RunKnown'
  BY <1>1, <1>24, NoneAssumption DEF RunKnown, InPass, QueueTypes, RequestsKnown, Acknowledge
<1>25. ASSUME NEW w \in Writers, ApplyDeletion(w) PROVE RunKnown'
  BY <1>1, <1>25, NoneAssumption DEF RunKnown, InPass, QueueTypes, RequestsKnown, ApplyDeletion
<1>26. ASSUME NEW w \in Writers, Reconcile(w) PROVE RunKnown'
  <2> DEFINE F == fill
  <2>1. UNCHANGED <<fill, running, active, stopper, doneOf>>
     \/ \E r \in Requests : Scheduling(F, r)
    BY <1>1, <1>26, Schedulers
  <2>2. \A h \in Fills : F[h].pc = fill[h].pc \/ (fill[h].pc = "handing" /\ F[h].pc = "idle")
    BY <1>1, <1>26, IdleFields DEF FillsTyped, Reconcile
  <2>3. F \in [Fills -> {F[h] : h \in Fills}] BY <1>1 DEF FillsTyped
  <2>4. ASSUME fill' = F, doneOf' = OpenIn(F), UNCHANGED <<running, active, stopper>>
        PROVE  RunKnown'
    BY <1>1, <2>2, <2>4, NoneAssumption DEF RunKnown, OpenIn, QueueTypes
  <2>5. ASSUME NEW r \in Requests, NEW h \in Fills, running = None, running' = h, doneOf' = h,
               active' = r, stopper' = "queue",
               fill' = [F EXCEPT ![h] = [IdleFill EXCEPT !.pc = "queued", !.request = r]]
        PROVE  RunKnown'
    <3> DEFINE queued == [IdleFill EXCEPT !.pc = "queued", !.request = r]
    <3>1. queued.pc = "queued" BY IdleFields
    <3>2. fill' = [F EXCEPT ![h] = queued] BY <2>5
    <3> HIDE DEF queued, F
    <3> QED BY <1>1, <2>2, <2>3, <2>5, <3>1, <3>2, NoneAssumption DEF RunKnown
  <2>6. UNCHANGED <<fill, running, active, stopper, doneOf>> => RunKnown' BY <1>1 DEF RunKnown
  <2> HIDE DEF F
  <2> QED BY <2>1, <2>4, <2>5, <2>6 DEF Scheduling
<1>27. ASSUME NEW w \in Writers, LeaveAfterUse(w) PROVE RunKnown'
  BY <1>1, <1>27, NoneAssumption DEF RunKnown, InPass, QueueTypes, RequestsKnown, LeaveAfterUse
<1>28. ASSUME NEW w \in Writers, Evaluate(w) PROVE RunKnown'
  <2> DEFINE F == fill
  <2>1. UNCHANGED <<fill, running, active, stopper, doneOf>>
     \/ \E r \in Requests : Scheduling(F, r)
    BY <1>1, <1>28, Schedulers
  <2>2. \A h \in Fills : F[h].pc = fill[h].pc \/ (fill[h].pc = "handing" /\ F[h].pc = "idle")
    BY <1>1, <1>28, IdleFields DEF FillsTyped, Evaluate
  <2>3. F \in [Fills -> {F[h] : h \in Fills}] BY <1>1 DEF FillsTyped
  <2>4. ASSUME fill' = F, doneOf' = OpenIn(F), UNCHANGED <<running, active, stopper>>
        PROVE  RunKnown'
    BY <1>1, <2>2, <2>4, NoneAssumption DEF RunKnown, OpenIn, QueueTypes
  <2>5. ASSUME NEW r \in Requests, NEW h \in Fills, running = None, running' = h, doneOf' = h,
               active' = r, stopper' = "queue",
               fill' = [F EXCEPT ![h] = [IdleFill EXCEPT !.pc = "queued", !.request = r]]
        PROVE  RunKnown'
    <3> DEFINE queued == [IdleFill EXCEPT !.pc = "queued", !.request = r]
    <3>1. queued.pc = "queued" BY IdleFields
    <3>2. fill' = [F EXCEPT ![h] = queued] BY <2>5
    <3> HIDE DEF queued, F
    <3> QED BY <1>1, <2>2, <2>3, <2>5, <3>1, <3>2, NoneAssumption DEF RunKnown
  <2>6. UNCHANGED <<fill, running, active, stopper, doneOf>> => RunKnown' BY <1>1 DEF RunKnown
  <2> HIDE DEF F
  <2> QED BY <2>1, <2>4, <2>5, <2>6 DEF Scheduling
<1>29. ASSUME NEW w \in Writers, Resume(w) PROVE RunKnown'
  BY <1>1, <1>29, NoneAssumption DEF RunKnown, InPass, QueueTypes, RequestsKnown, Resume
<1>30. ASSUME NEW w \in Writers, Give(w) PROVE RunKnown'
  <2> DEFINE F == fill
  <2>1. UNCHANGED <<fill, running, active, stopper, doneOf>>
     \/ \E r \in Requests : Scheduling(F, r)
    BY <1>1, <1>30, Schedulers
  <2>2. \A h \in Fills : F[h].pc = fill[h].pc \/ (fill[h].pc = "handing" /\ F[h].pc = "idle")
    BY <1>1, <1>30, IdleFields DEF FillsTyped, Give
  <2>3. F \in [Fills -> {F[h] : h \in Fills}] BY <1>1 DEF FillsTyped
  <2>4. ASSUME fill' = F, doneOf' = OpenIn(F), UNCHANGED <<running, active, stopper>>
        PROVE  RunKnown'
    BY <1>1, <2>2, <2>4, NoneAssumption DEF RunKnown, OpenIn, QueueTypes
  <2>5. ASSUME NEW r \in Requests, NEW h \in Fills, running = None, running' = h, doneOf' = h,
               active' = r, stopper' = "queue",
               fill' = [F EXCEPT ![h] = [IdleFill EXCEPT !.pc = "queued", !.request = r]]
        PROVE  RunKnown'
    <3> DEFINE queued == [IdleFill EXCEPT !.pc = "queued", !.request = r]
    <3>1. queued.pc = "queued" BY IdleFields
    <3>2. fill' = [F EXCEPT ![h] = queued] BY <2>5
    <3> HIDE DEF queued, F
    <3> QED BY <1>1, <2>2, <2>3, <2>5, <3>1, <3>2, NoneAssumption DEF RunKnown
  <2>6. UNCHANGED <<fill, running, active, stopper, doneOf>> => RunKnown' BY <1>1 DEF RunKnown
  <2> HIDE DEF F
  <2> QED BY <2>1, <2>4, <2>5, <2>6 DEF Scheduling
<1>31. CASE Access
  <2> DEFINE F == fill
  <2>1. UNCHANGED <<fill, running, active, stopper, doneOf>>
     \/ \E r \in Requests : Scheduling(F, r)
    BY <1>1, <1>31, Schedulers
  <2>2. \A h \in Fills : F[h].pc = fill[h].pc \/ (fill[h].pc = "handing" /\ F[h].pc = "idle")
    BY <1>1, <1>31, IdleFields DEF FillsTyped, Access
  <2>3. F \in [Fills -> {F[h] : h \in Fills}] BY <1>1 DEF FillsTyped
  <2>4. ASSUME fill' = F, doneOf' = OpenIn(F), UNCHANGED <<running, active, stopper>>
        PROVE  RunKnown'
    BY <1>1, <2>2, <2>4, NoneAssumption DEF RunKnown, OpenIn, QueueTypes
  <2>5. ASSUME NEW r \in Requests, NEW h \in Fills, running = None, running' = h, doneOf' = h,
               active' = r, stopper' = "queue",
               fill' = [F EXCEPT ![h] = [IdleFill EXCEPT !.pc = "queued", !.request = r]]
        PROVE  RunKnown'
    <3> DEFINE queued == [IdleFill EXCEPT !.pc = "queued", !.request = r]
    <3>1. queued.pc = "queued" BY IdleFields
    <3>2. fill' = [F EXCEPT ![h] = queued] BY <2>5
    <3> HIDE DEF queued, F
    <3> QED BY <1>1, <2>2, <2>3, <2>5, <3>1, <3>2, NoneAssumption DEF RunKnown
  <2>6. UNCHANGED <<fill, running, active, stopper, doneOf>> => RunKnown' BY <1>1 DEF RunKnown
  <2> HIDE DEF F
  <2> QED BY <2>1, <2>4, <2>5, <2>6 DEF Scheduling
<1>32. CASE AskFor
  <2> DEFINE F == fill
  <2>1. UNCHANGED <<fill, running, active, stopper, doneOf>>
     \/ \E r \in Requests : Scheduling(F, r)
    BY <1>1, <1>32, Schedulers
  <2>2. \A h \in Fills : F[h].pc = fill[h].pc \/ (fill[h].pc = "handing" /\ F[h].pc = "idle")
    BY <1>1, <1>32, IdleFields DEF FillsTyped, AskFor
  <2>3. F \in [Fills -> {F[h] : h \in Fills}] BY <1>1 DEF FillsTyped
  <2>4. ASSUME fill' = F, doneOf' = OpenIn(F), UNCHANGED <<running, active, stopper>>
        PROVE  RunKnown'
    BY <1>1, <2>2, <2>4, NoneAssumption DEF RunKnown, OpenIn, QueueTypes
  <2>5. ASSUME NEW r \in Requests, NEW h \in Fills, running = None, running' = h, doneOf' = h,
               active' = r, stopper' = "queue",
               fill' = [F EXCEPT ![h] = [IdleFill EXCEPT !.pc = "queued", !.request = r]]
        PROVE  RunKnown'
    <3> DEFINE queued == [IdleFill EXCEPT !.pc = "queued", !.request = r]
    <3>1. queued.pc = "queued" BY IdleFields
    <3>2. fill' = [F EXCEPT ![h] = queued] BY <2>5
    <3> HIDE DEF queued, F
    <3> QED BY <1>1, <2>2, <2>3, <2>5, <3>1, <3>2, NoneAssumption DEF RunKnown
  <2>6. UNCHANGED <<fill, running, active, stopper, doneOf>> => RunKnown' BY <1>1 DEF RunKnown
  <2> HIDE DEF F
  <2> QED BY <2>1, <2>4, <2>5, <2>6 DEF Scheduling
<1>33. CASE CooldownEnds
  BY <1>1, <1>33, NoneAssumption DEF RunKnown, InPass, QueueTypes, RequestsKnown, CooldownEnds
<1>34. CASE TenDays
  BY <1>1, <1>34, NoneAssumption DEF RunKnown, InPass, QueueTypes, RequestsKnown, TenDays
<1>35. CASE Stop
  BY <1>1, <1>35, NoneAssumption DEF RunKnown, InPass, QueueTypes, RequestsKnown, Stop
<1>36. CASE Restart
  BY <1>1, <1>36, NoneAssumption, Elsewhere DEF RunKnown, InPass, QueueTypes, RequestsKnown,
     Others, Same, Asked, Fresh, Restart
<1>37. CASE ChangeJobs
  BY <1>1, <1>37, NoneAssumption DEF RunKnown, InPass, QueueTypes, RequestsKnown, ChangeJobs
<1> QED
  BY <1>2, <1>3, <1>4, <1>5, <1>6, <1>7, <1>8, <1>9, <1>10, <1>11, <1>12, <1>13, <1>14, <1>15,
     <1>16, <1>17, <1>18, <1>19, <1>20, <1>21, <1>22, <1>23, <1>24, <1>25, <1>26, <1>27, <1>28,
     <1>29, <1>30, <1>31, <1>32, <1>33, <1>34, <1>35, <1>36, <1>37 DEF Next, FillStep,
     WriterStep

\* Nobody uses the vault without the gate, and the gate is for one writer or for passes.
LEMMA GateKept == IInv /\ Next => GateKnown'
<1> SUFFICES ASSUME IInv, Next PROVE GateKnown' OBVIOUS
<1>1. /\ FillsTyped /\ WritersTyped /\ QueueTypes /\ RequestsKnown
      /\ RunKnown /\ GateKnown
  BY DEF IInv, Types
<1> USE DEF Goto, Move, vault, gate, queue
<1>2. ASSUME NEW g \in Fills, StartPass(g) PROVE GateKnown'
  BY <1>1, <1>2, Starts DEF GateKnown, Using, InPass, Others, Same, Asked, Fresh, StartPass
<1>3. ASSUME NEW g \in Fills, FinishQueued(g) PROVE GateKnown'
  BY <1>1, <1>3, Ends DEF GateKnown, Using, InPass, Others, Same, Asked, Fresh, FinishQueued
<1>4. ASSUME NEW g \in Fills, HandBack(g) PROVE GateKnown'
  <2>1. UNCHANGED <<gate, writer>> /\ fill[g].pc = "handing" BY <1>4 DEF HandBack
  <2>2. \A h \in Fills : fill'[h].pc \in InPass <=> fill[h].pc \in InPass
    <3>1. PICK r \in Requests : Scheduling([fill EXCEPT ![g] = IdleFill], r)
      BY <1>1, <1>4, Schedulers
    <3> QED BY <1>1, <2>1, <3>1, Elsewhere DEF InPass
  <2> QED BY <1>1, <2>1, <2>2 DEF GateKnown
<1>5. ASSUME NEW g \in Fills, Admit(g) PROVE GateKnown'
  <2>1. fill[g].pc = "acquire" /\ Gate!Lease(g) /\ UNCHANGED writer BY <1>5 DEF Admit
  <2>2. fill'[g].pc \in InPass /\ Others(g) BY <1>1, <1>5, Starts DEF InPass
  <2> QED BY <1>1, <2>1, <2>2 DEF GateKnown, Others, Gate!Lease
<1>6. ASSUME NEW g \in Fills, NotAdmitted(g) PROVE GateKnown'
  BY <1>1, <1>6, Starts DEF GateKnown, Using, InPass, Others, Same, Asked, Fresh, NotAdmitted
<1>7. ASSUME NEW g \in Fills, Interrupted(g) PROVE GateKnown'
  BY <1>1, <1>7, Ends DEF GateKnown, Using, InPass, Others, Same, Asked, Fresh, Leave,
     Interrupted, Gate!Return
<1>8. ASSUME NEW g \in Fills, List(g) PROVE GateKnown'
  BY <1>1, <1>8, Ends, Passes DEF GateKnown, Using, InPass, Others, Same, Asked, Fresh, Leave,
     List, Gate!Return
<1>9. ASSUME NEW g \in Fills, Rebuild(g) PROVE GateKnown'
  BY <1>1, <1>9, Ends DEF GateKnown, Using, InPass, Others, Same, Asked, Fresh, Leave, Rebuild,
     Gate!Return
<1>10. ASSUME NEW g \in Fills, Publish(g) PROVE GateKnown'
  BY <1>1, <1>10, Passes DEF GateKnown, Using, InPass, Others, Same, Asked, Fresh, Publish
<1>11. ASSUME NEW g \in Fills, PublishHalf(g) PROVE GateKnown'
  BY <1>1, <1>11, Ends DEF GateKnown, Using, InPass, Others, Same, Asked, Fresh, Leave,
     PublishHalf, Gate!Return
<1>12. ASSUME NEW g \in Fills, Index(g) PROVE GateKnown'
  BY <1>1, <1>12, Passes DEF GateKnown, Using, InPass, Others, Same, Asked, Fresh, Index
<1>13. ASSUME NEW g \in Fills, CompletePass(g) PROVE GateKnown'
  <2>1. CASE Leave(g)
    BY <1>1, <1>13, <2>1, Ends DEF GateKnown, Using, InPass, Others, Asked, Fresh, Leave,
       CompletePass, Gate!Return
  <2>2. CASE ~Leave(g)
    BY <1>1, <1>13, <2>2, Passes DEF GateKnown, Using, InPass, Others, CompletePass
  <2> QED BY <2>1, <2>2
<1>14. ASSUME NEW g \in Fills, PassFails(g) PROVE GateKnown'
  BY <1>1, <1>14, Ends DEF GateKnown, Using, InPass, Others, Same, Asked, Fresh, Leave,
     PassFails, Gate!Return
<1>15. ASSUME NEW g \in Fills, EndPass(g) PROVE GateKnown'
  BY <1>1, <1>15, Ends DEF GateKnown, Using, InPass, Others, Same, Asked, Fresh, EndPass
<1>16. ASSUME NEW g \in Fills, Revoke(g) PROVE GateKnown'
  BY <1>1, <1>16 DEF GateKnown, Using, InPass, Others, Same, Asked, Fresh, Revoke, Gate!Revoke
<1>17. ASSUME NEW w \in Writers, Defer(w) PROVE GateKnown'
  <2>1. \A g \in Fills : fill'[g].pc = fill[g].pc BY <1>1, <1>17, Elsewhere
  <2>2. \A x \in Writers : writer'[x].pc \in Using <=> writer[x].pc \in Using
    BY <1>1, <1>17 DEF Defer, Using, At, WritersTyped, WriterTypes
  <2> QED BY <1>1, <1>17, <2>1, <2>2 DEF Defer, GateKnown
<1>18. ASSUME NEW w \in Writers, GiveUp(w) PROVE GateKnown'
  BY <1>1, <1>18 DEF GateKnown, Using, InPass, WritersTyped, WriterTypes, IdleWriter, At,
     GiveUp, Gate!Refuse
<1>19. ASSUME NEW w \in Writers, AskVault(w) PROVE GateKnown'
  BY <1>1, <1>19 DEF GateKnown, Using, InPass, WritersTyped, WriterTypes, IdleWriter, At,
     AskVault, Gate!Ask
<1>20. ASSUME NEW w \in Writers, EnterVault(w) PROVE GateKnown'
  BY <1>1, <1>20 DEF GateKnown, Using, InPass, WritersTyped, WriterTypes, IdleWriter, At,
     EnterVault, Gate!Grant
<1>21. ASSUME NEW w \in Writers, NativeBackup(w) PROVE GateKnown'
  BY <1>1, <1>21 DEF GateKnown, Using, InPass, WritersTyped, WriterTypes, IdleWriter, At,
     NativeBackup
<1>22. ASSUME NEW w \in Writers, NativeDeletion(w) PROVE GateKnown'
  BY <1>1, <1>22 DEF GateKnown, Using, InPass, WritersTyped, WriterTypes, IdleWriter, At,
     NativeDeletion
<1>23. ASSUME NEW w \in Writers, NotStarted(w) PROVE GateKnown'
  BY <1>1, <1>23 DEF GateKnown, Using, InPass, WritersTyped, WriterTypes, IdleWriter, At,
     NotStarted
<1>24. ASSUME NEW w \in Writers, Acknowledge(w) PROVE GateKnown'
  BY <1>1, <1>24 DEF GateKnown, Using, InPass, WritersTyped, WriterTypes, IdleWriter, At,
     Acknowledge
<1>25. ASSUME NEW w \in Writers, ApplyDeletion(w) PROVE GateKnown'
  BY <1>1, <1>25 DEF GateKnown, Using, InPass, WritersTyped, WriterTypes, IdleWriter, At,
     ApplyDeletion
<1>26. ASSUME NEW w \in Writers, Reconcile(w) PROVE GateKnown'
  <2>1. fill' = fill \/ \E r \in Requests : Scheduling(fill, r) BY <1>1, <1>26, Schedulers
  <2> QED
    BY <1>1, <1>26, <2>1, Elsewhere DEF Reconcile, Others, Same, Asked, Fresh, GateKnown, Using,
       WritersTyped, WriterTypes, IdleWriter, At, InPass
<1>27. ASSUME NEW w \in Writers, LeaveAfterUse(w) PROVE GateKnown'
  BY <1>1, <1>27 DEF GateKnown, Using, InPass, WritersTyped, WriterTypes, IdleWriter, At,
     LeaveAfterUse, Gate!Release
<1>28. ASSUME NEW w \in Writers, Evaluate(w) PROVE GateKnown'
  <2>1. fill' = fill \/ \E r \in Requests : Scheduling(fill, r) BY <1>1, <1>28, Schedulers
  <2> QED
    BY <1>1, <1>28, <2>1, Elsewhere DEF Evaluate, Others, Same, Asked, Fresh, GateKnown, Using,
       WritersTyped, WriterTypes, IdleWriter, At, InPass
<1>29. ASSUME NEW w \in Writers, Resume(w) PROVE GateKnown'
  BY <1>1, <1>29 DEF GateKnown, Using, InPass, WritersTyped, WriterTypes, IdleWriter, At, Resume
<1>30. ASSUME NEW w \in Writers, Give(w) PROVE GateKnown'
  <2>1. fill' = fill \/ \E r \in Requests : Scheduling(fill, r) BY <1>1, <1>30, Schedulers
  <2> QED
    BY <1>1, <1>30, <2>1, Elsewhere DEF Give, Others, Same, Asked, Fresh, GateKnown, Using,
       WritersTyped, WriterTypes, IdleWriter, At, InPass
<1>31. CASE Access
  <2>1. fill' = fill \/ \E r \in Requests : Scheduling(fill, r) BY <1>1, <1>31, Schedulers
  <2> QED
    BY <1>1, <1>31, <2>1, Elsewhere DEF Access, Others, Same, Asked, Fresh, GateKnown, Using,
       WritersTyped, WriterTypes, IdleWriter, At, InPass
<1>32. CASE AskFor
  <2>1. fill' = fill \/ \E r \in Requests : Scheduling(fill, r) BY <1>1, <1>32, Schedulers
  <2> QED
    BY <1>1, <1>32, <2>1, Elsewhere DEF AskFor, Others, Same, Asked, Fresh, GateKnown, Using,
       WritersTyped, WriterTypes, IdleWriter, At, InPass
<1>33. CASE CooldownEnds
  BY <1>1, <1>33 DEF GateKnown, Using, InPass, CooldownEnds
<1>34. CASE TenDays
  BY <1>1, <1>34 DEF GateKnown, Using, InPass, TenDays
<1>35. CASE Stop
  BY <1>1, <1>35 DEF GateKnown, Using, InPass, Stop
<1>36. CASE Restart
  BY <1>1, <1>36, Elsewhere DEF GateKnown, Using, InPass, Others, Same, Asked, Fresh,
     WritersTyped, WriterTypes, IdleWriter, At, Restart
<1>37. CASE ChangeJobs
  BY <1>1, <1>37 DEF GateKnown, Using, InPass, ChangeJobs
<1> QED
  BY <1>2, <1>3, <1>4, <1>5, <1>6, <1>7, <1>8, <1>9, <1>10, <1>11, <1>12, <1>13, <1>14, <1>15,
     <1>16, <1>17, <1>18, <1>19, <1>20, <1>21, <1>22, <1>23, <1>24, <1>25, <1>26, <1>27, <1>28,
     <1>29, <1>30, <1>31, <1>32, <1>33, <1>34, <1>35, <1>36, <1>37 DEF Next, FillStep,
     WriterStep

\* The same for the writers.
Turns(w, p) == /\ writer'[w].pc = p /\ writer'[w].kind = writer[w].kind
               /\ \A x \in Writers : x # w => writer'[x] = writer[x]

\* What a step of a writer leaves in it.
LEMMA WriterMoves ==
    ASSUME WritersTyped, NEW w \in Writers
    PROVE  /\ Defer(w) => \/ w \in Backups /\ Turns(w, "deferred")
                          \/ /\ w \notin Backups /\ Turns(w, "draining")
                             /\ writer'[w].drain = doneOf
           /\ AskVault(w) => Turns(w, "asking")
           /\ EnterVault(w) =>
                  \/ Turns(w, "unlocking") /\ required' = required
                  \/ /\ Turns(w, "native") /\ required' = required + 1
                     /\ writer'[w].generation = required'
           /\ NativeDeletion(w) =>
                  \/ Turns(w, "unlocking")
                  \/ /\ Turns(w, "apply") /\ writer'[w].generation = writer[w].generation
                     /\ native' = native \ {writer'[w].snapshot} /\ writer'[w].snapshot \in native
           /\ NotStarted(w) =>
                  Turns(w, "acknowledge") /\ writer'[w].generation = writer[w].generation
           /\ Acknowledge(w) \/ ApplyDeletion(w) => Turns(w, "unlocking")
           /\ NativeBackup(w) => Turns(w, "reconcile")
<1>1. writer[w] \in WriterTypes BY DEF WritersTyped
<1>2. ASSUME NEW p, Move(w, p) PROVE Turns(w, p)
  BY <1>1, <1>2 DEF Move, Turns, WritersTyped, WriterTypes, IdleWriter
<1>3. ASSUME Defer(w)
      PROVE  \/ w \in Backups /\ Turns(w, "deferred")
             \/ w \notin Backups /\ Turns(w, "draining") /\ writer'[w].drain = doneOf
  BY <1>1, <1>3 DEF Defer, Turns, WritersTyped, WriterTypes
<1>4. ASSUME EnterVault(w)
      PROVE  \/ Turns(w, "unlocking") /\ required' = required
             \/ /\ Turns(w, "native") /\ required' = required + 1
                /\ writer'[w].generation = required'
  <2>1. CASE Move(w, "unlocking") /\ UNCHANGED required BY <1>2, <2>1
  <2>2. CASE required' = required + 1 /\ writer' = [writer EXCEPT ![w].pc = "native",
             ![w].generation = required']
    BY <1>1, <2>2 DEF Turns, WritersTyped, WriterTypes
  <2> QED BY <1>4, <2>1, <2>2 DEF EnterVault
<1>5. ASSUME NativeDeletion(w)
      PROVE  \/ Turns(w, "unlocking")
             \/ /\ Turns(w, "apply") /\ writer'[w].generation = writer[w].generation
                /\ native' = native \ {writer'[w].snapshot} /\ writer'[w].snapshot \in native
  <2>1. CASE Move(w, "unlocking") BY <1>2, <2>1
  <2>2. CASE \E s \in native : /\ native' = native \ {s}
                               /\ writer' = [writer EXCEPT ![w].pc = "apply", ![w].snapshot = s]
    BY <1>1, <2>2 DEF Turns, WritersTyped, WriterTypes
  <2> QED BY <1>5, <2>1, <2>2 DEF NativeDeletion
<1>6. ASSUME NotStarted(w)
      PROVE  Turns(w, "acknowledge") /\ writer'[w].generation = writer[w].generation
  BY <1>1, <1>6 DEF NotStarted, Turns, WritersTyped, WriterTypes
<1>7. ASSUME ApplyDeletion(w) PROVE Turns(w, "unlocking")
  <2>1. CASE Move(w, "unlocking") BY <1>2, <2>1
  <2>2. CASE writer' = [writer EXCEPT ![w].pc = "unlocking", ![w].generation = 0]
    BY <1>1, <2>2 DEF Turns, WritersTyped, WriterTypes
  <2> QED BY <1>7, <2>1, <2>2 DEF ApplyDeletion
<1>8. /\ AskVault(w) => Turns(w, "asking")
      /\ Acknowledge(w) => Turns(w, "unlocking")
      /\ NativeBackup(w) => Turns(w, "reconcile")
  BY <1>2 DEF AskVault, Acknowledge, NativeBackup
<1> QED BY <1>3, <1>4, <1>5, <1>6, <1>7, <1>8

\* No pass works beside a deletion that has the vault; what is pending is taken up.
LEMMA DeferringKept == IInv /\ Next => DeferringKnown'
<1> SUFFICES ASSUME IInv, Next PROVE DeferringKnown' OBVIOUS
<1>1. /\ FillsTyped /\ WritersTyped /\ QueueTypes /\ RequestsKnown
      /\ RunKnown /\ DeferringKnown
  BY DEF IInv, Types
<1> USE DEF Goto, Move, vault, gate, queue
<1>2. ASSUME NEW g \in Fills, StartPass(g) PROVE DeferringKnown'
  <2>1. \A h \in Fills : fill'[h].pc \in InPass \cup {"acquire"} =>
            fill[h].pc \in InPass \cup {"acquire"} \/ deferring = {}
    BY <1>1, <1>2, Starts DEF StartPass, InPass, Others, Same, Asked, Fresh
  <2>2. UNCHANGED <<writer, deferring>> BY <1>2 DEF StartPass
  <2>3. pending' # None => deferring # {} \/ running' # None
    BY <1>1, <1>2, NoneAssumption DEF StartPass, DeferringKnown, RunKnown
  <2> QED BY <1>1, <2>1, <2>2, <2>3 DEF DeferringKnown
<1>3. ASSUME NEW g \in Fills, FinishQueued(g) PROVE DeferringKnown'
  BY <1>1, <1>3, Ends DEF DeferringKnown, InPass, Others, Same, Asked, Fresh, FinishQueued
<1>4. ASSUME NEW g \in Fills, HandBack(g) PROVE DeferringKnown'
  <2>1. \/ UNCHANGED queue /\ fill' = fill
        \/ \E r \in Requests : Scheduling([fill EXCEPT ![g] = IdleFill], r)
    BY <1>1, <1>4, Schedulers
  <2>2. \A h \in Fills : fill'[h].pc \in InPass \cup {"acquire"} => fill'[h].pc = fill[h].pc
    BY <1>1, <1>4, <2>1, Elsewhere DEF HandBack, Fresh, Others, InPass
  <2>3. deferring' = deferring /\ (pending' # None => deferring # {} \/ running' # None)
    BY <1>1, <2>1, NoneAssumption DEF Scheduling, DeferringKnown
  <2> QED
    BY <1>1, <1>4, <2>2, <2>3 DEF HandBack, DeferringKnown, WritersTyped, WriterTypes,
       IdleWriter, At
<1>5. ASSUME NEW g \in Fills, Admit(g) PROVE DeferringKnown'
  <2>1. \A h \in Fills : fill'[h].pc \in InPass \cup {"acquire"} =>
            fill[h].pc \in InPass \cup {"acquire"} \/ deferring = {}
    BY <1>1, <1>5, Starts DEF Admit, InPass, Others, Same, Asked, Fresh
  <2>2. UNCHANGED <<writer, deferring>> BY <1>5 DEF Admit
  <2>3. pending' # None => deferring # {} \/ running' # None
    BY <1>1, <1>5, NoneAssumption DEF Admit, DeferringKnown, RunKnown
  <2> QED BY <1>1, <2>1, <2>2, <2>3 DEF DeferringKnown
<1>6. ASSUME NEW g \in Fills, NotAdmitted(g) PROVE DeferringKnown'
  BY <1>1, <1>6, Starts DEF DeferringKnown, InPass, Others, Same, Asked, Fresh, NotAdmitted
<1>7. ASSUME NEW g \in Fills, Interrupted(g) PROVE DeferringKnown'
  BY <1>1, <1>7, Ends DEF DeferringKnown, InPass, Others, Same, Asked, Fresh, Interrupted
<1>8. ASSUME NEW g \in Fills, List(g) PROVE DeferringKnown'
  <2>1. \A h \in Fills : fill'[h].pc \in InPass \cup {"acquire"} =>
            fill[h].pc \in InPass \cup {"acquire"} \/ deferring = {}
    BY <1>1, <1>8, Ends, Passes DEF List, InPass, Others, Same, Asked, Fresh
  <2>2. UNCHANGED <<writer, deferring>> BY <1>8 DEF List
  <2>3. pending' # None => deferring # {} \/ running' # None
    BY <1>1, <1>8, NoneAssumption DEF List, DeferringKnown, RunKnown
  <2> QED BY <1>1, <2>1, <2>2, <2>3 DEF DeferringKnown
<1>9. ASSUME NEW g \in Fills, Rebuild(g) PROVE DeferringKnown'
  BY <1>1, <1>9, Ends DEF DeferringKnown, InPass, Others, Same, Asked, Fresh, Rebuild
<1>10. ASSUME NEW g \in Fills, Publish(g) PROVE DeferringKnown'
  <2>1. \A h \in Fills : fill'[h].pc \in InPass \cup {"acquire"} =>
            fill[h].pc \in InPass \cup {"acquire"} \/ deferring = {}
    BY <1>1, <1>10, Passes DEF Publish, InPass, Others, Same, Asked, Fresh
  <2>2. UNCHANGED <<writer, deferring>> BY <1>10 DEF Publish
  <2>3. pending' # None => deferring # {} \/ running' # None
    BY <1>1, <1>10, NoneAssumption DEF Publish, DeferringKnown, RunKnown
  <2> QED BY <1>1, <2>1, <2>2, <2>3 DEF DeferringKnown
<1>11. ASSUME NEW g \in Fills, PublishHalf(g) PROVE DeferringKnown'
  BY <1>1, <1>11, Ends DEF DeferringKnown, InPass, Others, Same, Asked, Fresh, PublishHalf
<1>12. ASSUME NEW g \in Fills, Index(g) PROVE DeferringKnown'
  <2>1. \A h \in Fills : fill'[h].pc \in InPass \cup {"acquire"} =>
            fill[h].pc \in InPass \cup {"acquire"} \/ deferring = {}
    BY <1>1, <1>12, Passes DEF Index, InPass, Others, Same, Asked, Fresh
  <2>2. UNCHANGED <<writer, deferring>> BY <1>12 DEF Index
  <2>3. pending' # None => deferring # {} \/ running' # None
    BY <1>1, <1>12, NoneAssumption DEF Index, DeferringKnown, RunKnown
  <2> QED BY <1>1, <2>1, <2>2, <2>3 DEF DeferringKnown
<1>13. ASSUME NEW g \in Fills, CompletePass(g) PROVE DeferringKnown'
  <2>1. \A h \in Fills : fill'[h].pc \in InPass \cup {"acquire"} =>
            fill[h].pc \in InPass \cup {"acquire"} \/ deferring = {}
    BY <1>1, <1>13, Ends, Passes DEF CompletePass, InPass, Others, Same, Asked, Fresh
  <2>2. UNCHANGED <<writer, deferring>> BY <1>13 DEF CompletePass
  <2>3. pending' # None => deferring # {} \/ running' # None
    BY <1>1, <1>13, NoneAssumption DEF CompletePass, DeferringKnown, RunKnown
  <2> QED BY <1>1, <2>1, <2>2, <2>3 DEF DeferringKnown
<1>14. ASSUME NEW g \in Fills, PassFails(g) PROVE DeferringKnown'
  BY <1>1, <1>14, Ends DEF DeferringKnown, InPass, Others, Same, Asked, Fresh, PassFails
<1>15. ASSUME NEW g \in Fills, EndPass(g) PROVE DeferringKnown'
  BY <1>1, <1>15, Ends DEF DeferringKnown, InPass, Others, Same, Asked, Fresh, EndPass
<1>16. ASSUME NEW g \in Fills, Revoke(g) PROVE DeferringKnown'
  BY <1>1, <1>16 DEF DeferringKnown, InPass, Others, Same, Asked, Fresh, Revoke
<1>17. ASSUME NEW w \in Writers, Defer(w) PROVE DeferringKnown'
  <2>1. \A g \in Fills : fill'[g].pc = fill[g].pc BY <1>1, <1>17, Elsewhere
  <2>2. /\ deferring' = deferring \cup {w} /\ At(w, "idle") /\ writer[w].kind # "check"
        /\ UNCHANGED <<running, doneOf>>
    BY <1>17 DEF Defer
  <2>3. \A g \in Fills : fill[g].pc \in InPass \cup {"acquire"} => g = doneOf
    BY <1>1, NoneAssumption DEF RunKnown, InPass
  <2>4. \/ w \in Backups /\ Turns(w, "deferred")
        \/ w \notin Backups /\ Turns(w, "draining") /\ writer'[w].drain = doneOf
    BY <1>1, <1>17, WriterMoves
  <2>5. \A x \in Writers : writer'[x].kind = writer[x].kind BY <2>4 DEF Turns
  <2>6. \A x \in deferring' \ Backups : \A g \in Fills :
           fill'[g].pc \in InPass \cup {"acquire"} =>
               \/ writer'[x].pc = "draining" /\ writer'[x].drain = g
               \/ writer'[x].pc = "resuming"
    BY <1>1, <2>1, <2>2, <2>3, <2>4 DEF DeferringKnown, Turns, QueueTypes
  <2> QED BY <1>1, <2>2, <2>4, <2>5, <2>6 DEF DeferringKnown, Turns, At, QueueTypes
<1>18. ASSUME NEW w \in Writers, GiveUp(w) PROVE DeferringKnown'
  BY <1>1, <1>18 DEF DeferringKnown, InPass, WritersTyped, WriterTypes, IdleWriter, At, GiveUp
<1>19. ASSUME NEW w \in Writers, AskVault(w) PROVE DeferringKnown'
  <2>1. UNCHANGED <<deferring, pending, running, fill>> BY <1>19 DEF AskVault
  <2>2. Turns(w, "asking") BY <1>1, <1>19, WriterMoves
  <2>3. w \in deferring => At(w, "deferred") \/ (At(w, "draining") /\ Drained(w))
    BY <1>1, <1>19 DEF AskVault, DeferringKnown, At
  <2>4. w \in deferring \ Backups => \A g \in Fills : fill[g].pc \notin InPass \cup {"acquire"}
    BY <1>1, <2>3 DEF DeferringKnown, Drained, At, InPass
  <2> QED BY <1>1, <2>1, <2>2, <2>4 DEF DeferringKnown, Turns, QueueTypes
<1>20. ASSUME NEW w \in Writers, EnterVault(w) PROVE DeferringKnown'
  <2>1. UNCHANGED <<deferring, pending, running, fill>> BY <1>20 DEF EnterVault
  <2>2. PICK p \in {"unlocking", "native", "apply"} : Turns(w, p) BY <1>1, <1>20, WriterMoves
  <2>3. writer[w].pc \in {"asking", "native", "apply"} BY <1>20 DEF EnterVault, At
  <2>4. w \in deferring \ Backups => \A g \in Fills : fill[g].pc \notin InPass \cup {"acquire"}
    BY <1>1, <2>3 DEF DeferringKnown
  <2> QED BY <1>1, <2>1, <2>2, <2>3, <2>4 DEF DeferringKnown, Turns, QueueTypes
<1>21. ASSUME NEW w \in Writers, NativeBackup(w) PROVE DeferringKnown'
  BY <1>1, <1>21 DEF DeferringKnown, InPass, WritersTyped, WriterTypes, IdleWriter, At,
     NativeBackup
<1>22. ASSUME NEW w \in Writers, NativeDeletion(w) PROVE DeferringKnown'
  <2>1. UNCHANGED <<deferring, pending, running, fill>> BY <1>22 DEF NativeDeletion
  <2>2. PICK p \in {"unlocking", "native", "apply"} : Turns(w, p) BY <1>1, <1>22, WriterMoves
  <2>3. writer[w].pc \in {"asking", "native", "apply"} BY <1>22 DEF NativeDeletion, At
  <2>4. w \in deferring \ Backups => \A g \in Fills : fill[g].pc \notin InPass \cup {"acquire"}
    BY <1>1, <2>3 DEF DeferringKnown
  <2> QED BY <1>1, <2>1, <2>2, <2>3, <2>4 DEF DeferringKnown, Turns, QueueTypes
<1>23. ASSUME NEW w \in Writers, NotStarted(w) PROVE DeferringKnown'
  BY <1>1, <1>23 DEF DeferringKnown, InPass, WritersTyped, WriterTypes, IdleWriter, At,
     NotStarted
<1>24. ASSUME NEW w \in Writers, Acknowledge(w) PROVE DeferringKnown'
  BY <1>1, <1>24 DEF DeferringKnown, InPass, WritersTyped, WriterTypes, IdleWriter, At,
     Acknowledge
<1>25. ASSUME NEW w \in Writers, ApplyDeletion(w) PROVE DeferringKnown'
  <2>1. UNCHANGED <<deferring, pending, running, fill>> BY <1>25 DEF ApplyDeletion
  <2>2. PICK p \in {"unlocking", "native", "apply"} : Turns(w, p) BY <1>1, <1>25, WriterMoves
  <2>3. writer[w].pc \in {"asking", "native", "apply"} BY <1>25 DEF ApplyDeletion, At
  <2>4. w \in deferring \ Backups => \A g \in Fills : fill[g].pc \notin InPass \cup {"acquire"}
    BY <1>1, <2>3 DEF DeferringKnown
  <2> QED BY <1>1, <2>1, <2>2, <2>3, <2>4 DEF DeferringKnown, Turns, QueueTypes
<1>26. ASSUME NEW w \in Writers, Reconcile(w) PROVE DeferringKnown'
  <2>1. \/ UNCHANGED queue /\ fill' = fill
        \/ \E r \in Requests : Scheduling(fill, r)
    BY <1>1, <1>26, Schedulers
  <2>2. \A g \in Fills : fill'[g].pc \in InPass \cup {"acquire"} => fill'[g].pc = fill[g].pc
    BY <1>1, <1>26, <2>1, Elsewhere DEF Reconcile, Fresh, Others, InPass
  <2>3. deferring' = deferring /\ (pending' # None => deferring # {} \/ running' # None)
    BY <1>1, <2>1, NoneAssumption DEF Scheduling, DeferringKnown
  <2> QED
    BY <1>1, <1>26, <2>2, <2>3 DEF Reconcile, DeferringKnown, WritersTyped, WriterTypes,
       IdleWriter, At
<1>27. ASSUME NEW w \in Writers, LeaveAfterUse(w) PROVE DeferringKnown'
  BY <1>1, <1>27 DEF DeferringKnown, InPass, WritersTyped, WriterTypes, IdleWriter, At,
     LeaveAfterUse
<1>28. ASSUME NEW w \in Writers, Evaluate(w) PROVE DeferringKnown'
  <2>1. \/ UNCHANGED queue /\ fill' = fill
        \/ \E r \in Requests : Scheduling(fill, r)
    BY <1>1, <1>28, Schedulers
  <2>2. \A g \in Fills : fill'[g].pc \in InPass \cup {"acquire"} => fill'[g].pc = fill[g].pc
    BY <1>1, <1>28, <2>1, Elsewhere DEF Evaluate, Fresh, Others, InPass
  <2>3. deferring' = deferring /\ (pending' # None => deferring # {} \/ running' # None)
    BY <1>1, <2>1, NoneAssumption DEF Scheduling, DeferringKnown
  <2> QED
    BY <1>1, <1>28, <2>2, <2>3 DEF Evaluate, DeferringKnown, WritersTyped, WriterTypes,
       IdleWriter, At
<1>29. ASSUME NEW w \in Writers, Resume(w) PROVE DeferringKnown'
  BY <1>1, <1>29 DEF DeferringKnown, InPass, WritersTyped, WriterTypes, IdleWriter, At, Resume
<1>30. ASSUME NEW w \in Writers, Give(w) PROVE DeferringKnown'
  <2>1. \/ UNCHANGED queue /\ fill' = fill
        \/ \E r \in Requests : Scheduling(fill, r)
    BY <1>1, <1>30, Schedulers
  <2>2. \A g \in Fills : fill'[g].pc \in InPass \cup {"acquire"} => fill'[g].pc = fill[g].pc
    BY <1>1, <1>30, <2>1, Elsewhere DEF Give, Fresh, Others, InPass
  <2>3. deferring' = deferring /\ (pending' # None => deferring # {} \/ running' # None)
    BY <1>1, <2>1, NoneAssumption DEF Scheduling, DeferringKnown
  <2> QED
    BY <1>1, <1>30, <2>2, <2>3 DEF Give, DeferringKnown, WritersTyped, WriterTypes, IdleWriter,
       At
<1>31. CASE Access
  <2>1. \/ UNCHANGED queue /\ fill' = fill
        \/ \E r \in Requests : Scheduling(fill, r)
    BY <1>1, <1>31, Schedulers
  <2>2. \A g \in Fills : fill'[g].pc \in InPass \cup {"acquire"} => fill'[g].pc = fill[g].pc
    BY <1>1, <1>31, <2>1, Elsewhere DEF Access, Fresh, Others, InPass
  <2>3. deferring' = deferring /\ (pending' # None => deferring # {} \/ running' # None)
    BY <1>1, <2>1, NoneAssumption DEF Scheduling, DeferringKnown
  <2> QED
    BY <1>1, <1>31, <2>2, <2>3 DEF Access, DeferringKnown, WritersTyped, WriterTypes,
       IdleWriter, At
<1>32. CASE AskFor
  <2>1. \/ UNCHANGED queue /\ fill' = fill
        \/ \E r \in Requests : Scheduling(fill, r)
    BY <1>1, <1>32, Schedulers
  <2>2. \A g \in Fills : fill'[g].pc \in InPass \cup {"acquire"} => fill'[g].pc = fill[g].pc
    BY <1>1, <1>32, <2>1, Elsewhere DEF AskFor, Fresh, Others, InPass
  <2>3. deferring' = deferring /\ (pending' # None => deferring # {} \/ running' # None)
    BY <1>1, <2>1, NoneAssumption DEF Scheduling, DeferringKnown
  <2> QED
    BY <1>1, <1>32, <2>2, <2>3 DEF AskFor, DeferringKnown, WritersTyped, WriterTypes,
       IdleWriter, At
<1>33. CASE CooldownEnds
  BY <1>1, <1>33 DEF DeferringKnown, InPass, CooldownEnds
<1>34. CASE TenDays
  BY <1>1, <1>34 DEF DeferringKnown, InPass, TenDays
<1>35. CASE Stop
  BY <1>1, <1>35 DEF DeferringKnown, InPass, Stop
<1>36. CASE Restart
  BY <1>1, <1>36, Elsewhere DEF DeferringKnown, InPass, Others, Same, Asked, Fresh,
     WritersTyped, WriterTypes, IdleWriter, At, Restart
<1>37. CASE ChangeJobs
  BY <1>1, <1>37 DEF DeferringKnown, InPass, ChangeJobs
<1> QED
  BY <1>2, <1>3, <1>4, <1>5, <1>6, <1>7, <1>8, <1>9, <1>10, <1>11, <1>12, <1>13, <1>14, <1>15,
     <1>16, <1>17, <1>18, <1>19, <1>20, <1>21, <1>22, <1>23, <1>24, <1>25, <1>26, <1>27, <1>28,
     <1>29, <1>30, <1>31, <1>32, <1>33, <1>34, <1>35, <1>36, <1>37 DEF Next, FillStep,
     WriterStep

\* A change that has the vault has the latest generation, and the cache is behind it.
LEMMA GenerationsKept == IInv /\ Next => GenerationsKnown'
<1> SUFFICES ASSUME IInv, Next PROVE GenerationsKnown' OBVIOUS
<1>1. /\ VaultTypes /\ FillsTyped /\ WritersTyped /\ QueueTypes
      /\ RequestsKnown /\ RunKnown /\ GateKnown /\ GenerationsKnown
  BY DEF IInv, Types
<1> USE DEF Goto, Move, vault, gate, queue
<1>2. ASSUME NEW g \in Fills, StartPass(g) PROVE GenerationsKnown'
  BY <1>1, <1>2, Starts DEF GenerationsKnown, InPass, VaultTypes, Using, GateKnown, Others,
     Same, Asked, Fresh, StartPass
<1>3. ASSUME NEW g \in Fills, FinishQueued(g) PROVE GenerationsKnown'
  BY <1>1, <1>3, Ends DEF GenerationsKnown, InPass, VaultTypes, Using, GateKnown, Others, Same,
     Asked, Fresh, FinishQueued
<1>4. ASSUME NEW g \in Fills, HandBack(g) PROVE GenerationsKnown'
  <2>1. fill' = fill \/ \E r \in Requests : Scheduling([fill EXCEPT ![g] = IdleFill], r)
    BY <1>1, <1>4, Schedulers
  <2>2. \A h \in Fills : fill'[h].observed = fill[h].observed \/ fill'[h].observed = 0
    BY <1>1, <1>4, <2>1, Elsewhere DEF HandBack, Fresh, Others
  <2> QED
    BY <1>1, <1>4, <2>2 DEF HandBack, GenerationsKnown, VaultTypes, WritersTyped, WriterTypes,
       IdleWriter, At
<1>5. ASSUME NEW g \in Fills, Admit(g) PROVE GenerationsKnown'
  <2>1. \A h \in Fills : fill'[h].observed \in {fill[h].observed, 0}
    BY <1>1, <1>5, Starts DEF Fresh, Others, Same
  <2>2. UNCHANGED <<required, applied>> BY <1>5 DEF Admit
  <2>3. UNCHANGED writer BY <1>5 DEF Admit
  <2> QED BY <1>1, <2>1, <2>2, <2>3 DEF GenerationsKnown, VaultTypes
<1>6. ASSUME NEW g \in Fills, NotAdmitted(g) PROVE GenerationsKnown'
  BY <1>1, <1>6, Starts DEF GenerationsKnown, InPass, VaultTypes, Using, GateKnown, Others,
     Same, Asked, Fresh, NotAdmitted
<1>7. ASSUME NEW g \in Fills, Interrupted(g) PROVE GenerationsKnown'
  BY <1>1, <1>7, Ends DEF GenerationsKnown, InPass, VaultTypes, Using, GateKnown, Others, Same,
     Asked, Fresh, Interrupted
<1>8. ASSUME NEW g \in Fills, List(g) PROVE GenerationsKnown'
  <2>1. \A h \in Fills : fill'[h].observed \in {fill[h].observed, 0, required'}
    BY <1>1, <1>8, Ends, Passes DEF List, Fresh, Others, Same
  <2>2. /\ UNCHANGED writer /\ required' \in {required, required + 1}
        /\ applied' \in {applied, required} /\ applied' <= required'
    BY <1>1, <1>8 DEF List, GenerationsKnown, VaultTypes
  <2>3. \A w \in Writers : writer[w].pc \notin Using BY <1>1, <1>8 DEF List, GateKnown, InPass
  <2>4. \A h \in Fills : fill[h].observed \in Nat BY <1>1, FillFields
  <2> QED BY <1>1, <2>1, <2>2, <2>3, <2>4 DEF GenerationsKnown, VaultTypes, Using
<1>9. ASSUME NEW g \in Fills, Rebuild(g) PROVE GenerationsKnown'
  BY <1>1, <1>9, Ends DEF GenerationsKnown, InPass, VaultTypes, Using, GateKnown, Others, Same,
     Asked, Fresh, Rebuild
<1>10. ASSUME NEW g \in Fills, Publish(g) PROVE GenerationsKnown'
  <2>1. \A h \in Fills : fill'[h].observed \in {fill[h].observed, 0, required'}
    BY <1>1, <1>10, Passes DEF Publish, Fresh, Others, Same
  <2>2. /\ UNCHANGED writer /\ required' \in {required, required + 1}
        /\ applied' \in {applied, required} /\ applied' <= required'
    BY <1>1, <1>10 DEF Publish, GenerationsKnown, VaultTypes
  <2>3. \A w \in Writers : writer[w].pc \notin Using
    BY <1>1, <1>10 DEF Publish, GateKnown, InPass
  <2>4. \A h \in Fills : fill[h].observed \in Nat BY <1>1, FillFields
  <2> QED BY <1>1, <2>1, <2>2, <2>3, <2>4 DEF GenerationsKnown, VaultTypes, Using
<1>11. ASSUME NEW g \in Fills, PublishHalf(g) PROVE GenerationsKnown'
  <2>1. \A h \in Fills : fill'[h].observed \in {fill[h].observed, 0, required'}
    BY <1>1, <1>11, Ends DEF PublishHalf, Fresh, Others, Same
  <2>2. /\ UNCHANGED writer /\ required' \in {required, required + 1}
        /\ applied' \in {applied, required} /\ applied' <= required'
    BY <1>1, <1>11 DEF PublishHalf, GenerationsKnown, VaultTypes
  <2>3. \A w \in Writers : writer[w].pc \notin Using
    BY <1>1, <1>11 DEF PublishHalf, GateKnown, InPass
  <2>4. \A h \in Fills : fill[h].observed \in Nat BY <1>1, FillFields
  <2> QED BY <1>1, <2>1, <2>2, <2>3, <2>4 DEF GenerationsKnown, VaultTypes, Using
<1>12. ASSUME NEW g \in Fills, Index(g) PROVE GenerationsKnown'
  BY <1>1, <1>12, Passes DEF GenerationsKnown, InPass, VaultTypes, Using, GateKnown, Others,
     Same, Asked, Fresh, Index
<1>13. ASSUME NEW g \in Fills, CompletePass(g) PROVE GenerationsKnown'
  <2>1. \A h \in Fills : fill'[h].observed \in {fill[h].observed, 0, required'}
    BY <1>1, <1>13, Ends, Passes DEF CompletePass, Fresh, Others, Same
  <2>2. /\ UNCHANGED writer /\ required' \in {required, required + 1}
        /\ applied' \in {applied, required} /\ applied' <= required'
    BY <1>1, <1>13 DEF CompletePass, GenerationsKnown, VaultTypes
  <2>3. \A w \in Writers : writer[w].pc \notin Using
    BY <1>1, <1>13 DEF CompletePass, GateKnown, InPass
  <2>4. \A h \in Fills : fill[h].observed \in Nat BY <1>1, FillFields
  <2> QED BY <1>1, <2>1, <2>2, <2>3, <2>4 DEF GenerationsKnown, VaultTypes, Using
<1>14. ASSUME NEW g \in Fills, PassFails(g) PROVE GenerationsKnown'
  BY <1>1, <1>14, Ends DEF GenerationsKnown, InPass, VaultTypes, Using, GateKnown, Others, Same,
     Asked, Fresh, PassFails
<1>15. ASSUME NEW g \in Fills, EndPass(g) PROVE GenerationsKnown'
  <2>1. \A h \in Fills : fill'[h].observed \in {fill[h].observed, 0}
    BY <1>1, <1>15, Ends DEF Fresh, Others, Same
  <2>2. UNCHANGED <<required, applied>> BY <1>15 DEF EndPass
  <2>3. UNCHANGED writer BY <1>15 DEF EndPass
  <2> QED BY <1>1, <2>1, <2>2, <2>3 DEF GenerationsKnown, VaultTypes
<1>16. ASSUME NEW g \in Fills, Revoke(g) PROVE GenerationsKnown'
  BY <1>1, <1>16 DEF GenerationsKnown, InPass, VaultTypes, Using, GateKnown, Others, Same,
     Asked, Fresh, Revoke
<1>17. ASSUME NEW w \in Writers, Defer(w) PROVE GenerationsKnown'
  <2>1. \A h \in Fills : fill'[h].observed \in {fill[h].observed, 0}
    BY <1>1, <1>17, Elsewhere DEF Fresh, Others, Same
  <2>2. UNCHANGED <<required, applied>> BY <1>17 DEF Defer
  <2>3. Turns(w, "deferred") \/ Turns(w, "draining") BY <1>1, <1>17, WriterMoves
  <2> QED BY <1>1, <2>1, <2>2, <2>3 DEF GenerationsKnown, VaultTypes, Turns
<1>18. ASSUME NEW w \in Writers, GiveUp(w) PROVE GenerationsKnown'
  BY <1>1, <1>18 DEF GenerationsKnown, InPass, VaultTypes, Using, GateKnown, WritersTyped,
     WriterTypes, IdleWriter, At, GiveUp
<1>19. ASSUME NEW w \in Writers, AskVault(w) PROVE GenerationsKnown'
  BY <1>1, <1>19 DEF GenerationsKnown, InPass, VaultTypes, Using, GateKnown, WritersTyped,
     WriterTypes, IdleWriter, At, AskVault
<1>20. ASSUME NEW w \in Writers, EnterVault(w) PROVE GenerationsKnown'
  <2>1. fill' = fill /\ applied' = applied /\ required' \in {required, required + 1}
    BY <1>20 DEF EnterVault
  <2>2. exclusive = {} BY <1>20 DEF EnterVault, Gate!Grant
  <2>3. \A x \in Writers : writer[x].pc \notin Using BY <1>1, <2>2 DEF GateKnown
  <2>4. \A h \in Fills : fill[h].observed \in Nat BY <1>1, FillFields
  <2>5. \/ Turns(w, "unlocking")
        \/ Turns(w, "native") /\ required' = required + 1 /\ writer'[w].generation = required'
    BY <1>1, <1>20, WriterMoves
  <2> QED BY <1>1, <2>1, <2>3, <2>4, <2>5 DEF GenerationsKnown, VaultTypes, Using, Turns
<1>21. ASSUME NEW w \in Writers, NativeBackup(w) PROVE GenerationsKnown'
  BY <1>1, <1>21 DEF GenerationsKnown, InPass, VaultTypes, Using, GateKnown, WritersTyped,
     WriterTypes, IdleWriter, At, NativeBackup
<1>22. ASSUME NEW w \in Writers, NativeDeletion(w) PROVE GenerationsKnown'
  BY <1>1, <1>22 DEF GenerationsKnown, InPass, VaultTypes, Using, GateKnown, WritersTyped,
     WriterTypes, IdleWriter, At, NativeDeletion
<1>23. ASSUME NEW w \in Writers, NotStarted(w) PROVE GenerationsKnown'
  BY <1>1, <1>23 DEF GenerationsKnown, InPass, VaultTypes, Using, GateKnown, WritersTyped,
     WriterTypes, IdleWriter, At, NotStarted
<1>24. ASSUME NEW w \in Writers, Acknowledge(w) PROVE GenerationsKnown'
  BY <1>1, <1>24 DEF GenerationsKnown, InPass, VaultTypes, Using, GateKnown, WritersTyped,
     WriterTypes, IdleWriter, At, Advanced, Acknowledge
<1>25. ASSUME NEW w \in Writers, ApplyDeletion(w) PROVE GenerationsKnown'
  BY <1>1, <1>25 DEF GenerationsKnown, InPass, VaultTypes, Using, GateKnown, WritersTyped,
     WriterTypes, IdleWriter, At, Advanced, ApplyDeletion
<1>26. ASSUME NEW w \in Writers, Reconcile(w) PROVE GenerationsKnown'
  <2>1. fill' = fill \/ \E r \in Requests : Scheduling(fill, r) BY <1>1, <1>26, Schedulers
  <2>2. \A g \in Fills : fill'[g].observed = fill[g].observed \/ fill'[g].observed = 0
    BY <1>1, <1>26, <2>1, Elsewhere DEF Reconcile, Fresh, Others
  <2> QED
    BY <1>1, <1>26, <2>2 DEF Reconcile, GenerationsKnown, VaultTypes, WritersTyped, WriterTypes,
       IdleWriter, At
<1>27. ASSUME NEW w \in Writers, LeaveAfterUse(w) PROVE GenerationsKnown'
  BY <1>1, <1>27 DEF GenerationsKnown, InPass, VaultTypes, Using, GateKnown, WritersTyped,
     WriterTypes, IdleWriter, At, LeaveAfterUse
<1>28. ASSUME NEW w \in Writers, Evaluate(w) PROVE GenerationsKnown'
  <2>1. fill' = fill \/ \E r \in Requests : Scheduling(fill, r) BY <1>1, <1>28, Schedulers
  <2>2. \A g \in Fills : fill'[g].observed = fill[g].observed \/ fill'[g].observed = 0
    BY <1>1, <1>28, <2>1, Elsewhere DEF Evaluate, Fresh, Others
  <2> QED
    BY <1>1, <1>28, <2>2 DEF Evaluate, GenerationsKnown, VaultTypes, WritersTyped, WriterTypes,
       IdleWriter, At
<1>29. ASSUME NEW w \in Writers, Resume(w) PROVE GenerationsKnown'
  BY <1>1, <1>29 DEF GenerationsKnown, InPass, VaultTypes, Using, GateKnown, WritersTyped,
     WriterTypes, IdleWriter, At, Resume
<1>30. ASSUME NEW w \in Writers, Give(w) PROVE GenerationsKnown'
  <2>1. fill' = fill \/ \E r \in Requests : Scheduling(fill, r) BY <1>1, <1>30, Schedulers
  <2>2. \A g \in Fills : fill'[g].observed = fill[g].observed \/ fill'[g].observed = 0
    BY <1>1, <1>30, <2>1, Elsewhere DEF Give, Fresh, Others
  <2> QED
    BY <1>1, <1>30, <2>2 DEF Give, GenerationsKnown, VaultTypes, WritersTyped, WriterTypes,
       IdleWriter, At
<1>31. CASE Access
  <2>1. fill' = fill \/ \E r \in Requests : Scheduling(fill, r) BY <1>1, <1>31, Schedulers
  <2>2. \A g \in Fills : fill'[g].observed = fill[g].observed \/ fill'[g].observed = 0
    BY <1>1, <1>31, <2>1, Elsewhere DEF Access, Fresh, Others
  <2> QED
    BY <1>1, <1>31, <2>2 DEF Access, GenerationsKnown, VaultTypes, WritersTyped, WriterTypes,
       IdleWriter, At
<1>32. CASE AskFor
  <2>1. fill' = fill \/ \E r \in Requests : Scheduling(fill, r) BY <1>1, <1>32, Schedulers
  <2>2. \A g \in Fills : fill'[g].observed = fill[g].observed \/ fill'[g].observed = 0
    BY <1>1, <1>32, <2>1, Elsewhere DEF AskFor, Fresh, Others
  <2> QED
    BY <1>1, <1>32, <2>2 DEF AskFor, GenerationsKnown, VaultTypes, WritersTyped, WriterTypes,
       IdleWriter, At
<1>33. CASE CooldownEnds
  BY <1>1, <1>33 DEF GenerationsKnown, InPass, VaultTypes, Using, GateKnown, CooldownEnds
<1>34. CASE TenDays
  BY <1>1, <1>34 DEF GenerationsKnown, InPass, VaultTypes, Using, GateKnown, TenDays
<1>35. CASE Stop
  BY <1>1, <1>35 DEF GenerationsKnown, InPass, VaultTypes, Using, GateKnown, Stop
<1>36. CASE Restart
  BY <1>1, <1>36, Elsewhere DEF GenerationsKnown, InPass, VaultTypes, Using, GateKnown, Others,
     Same, Asked, Fresh, WritersTyped, WriterTypes, IdleWriter, At, Restart
<1>37. CASE ChangeJobs
  <2>1. required' = required + 1 /\ UNCHANGED <<applied, fill, writer>> BY <1>37 DEF ChangeJobs
  <2>2. \A g \in Fills : fill[g].observed \in Nat BY <1>1, FillFields
  <2>3. \A w \in Writers : writer[w].generation \in Nat BY <1>1 DEF WritersTyped, WriterTypes
  <2> QED BY <1>1, <2>1, <2>2, <2>3 DEF GenerationsKnown, VaultTypes
<1> QED
  BY <1>2, <1>3, <1>4, <1>5, <1>6, <1>7, <1>8, <1>9, <1>10, <1>11, <1>12, <1>13, <1>14, <1>15,
     <1>16, <1>17, <1>18, <1>19, <1>20, <1>21, <1>22, <1>23, <1>24, <1>25, <1>26, <1>27, <1>28,
     <1>29, <1>30, <1>31, <1>32, <1>33, <1>34, <1>35, <1>36, <1>37 DEF Next, FillStep,
     WriterStep

\* The rows are those of the vault that the generations say they are.
LEMMA RowsKept == IInv /\ Next => RowsKnown'
<1> SUFFICES ASSUME IInv, Next PROVE RowsKnown' OBVIOUS
<1>1. /\ VaultTypes /\ FillsTyped /\ WritersTyped /\ QueueTypes
      /\ RequestsKnown /\ RunKnown /\ GateKnown /\ GenerationsKnown /\ RowsKnown
  BY DEF IInv, Types
<1> USE DEF Goto, Move, vault, gate, queue
<1>2. ASSUME NEW g \in Fills, StartPass(g) PROVE RowsKnown'
  BY <1>1, <1>2, Starts DEF RowsKnown, Rows, InPass, VaultTypes, Using, GateKnown,
     GenerationsKnown, Others, Same, Asked, Fresh, StartPass
<1>3. ASSUME NEW g \in Fills, FinishQueued(g) PROVE RowsKnown'
  BY <1>1, <1>3, Ends DEF RowsKnown, Rows, InPass, VaultTypes, Using, GateKnown,
     GenerationsKnown, Others, Same, Asked, Fresh, FinishQueued
<1>4. ASSUME NEW g \in Fills, HandBack(g) PROVE RowsKnown'
  <2>1. fill' = fill \/ \E r \in Requests : Scheduling([fill EXCEPT ![g] = IdleFill], r)
    BY <1>1, <1>4, Schedulers
  <2>2. \A h \in Fills : fill'[h].pc \in InPass => fill'[h] = fill[h]
    BY <1>1, <1>4, <2>1, Elsewhere DEF HandBack, Fresh, Others, InPass
  <2>3. Rows' = Rows BY <1>4 DEF Rows, HandBack
  <2> QED
    BY <1>1, <1>4, <2>2, <2>3 DEF HandBack, RowsKnown, VaultTypes, WritersTyped, WriterTypes,
       IdleWriter, At, InPass
<1>5. ASSUME NEW g \in Fills, Admit(g) PROVE RowsKnown'
  <2>1. UNCHANGED <<vault, writer>> BY <1>5 DEF Admit
  <2>2. /\ fill'[g].pc \in {"list", "index"}
        /\ fill'[g].pc = "index" => ~fill'[g].pass.headers /\ fill'[g].work \subseteq Open
        /\ Others(g)
    BY <1>1, <1>5, Starts
  <2>3. Rows' = Rows /\ Open \subseteq Rows BY <2>1 DEF Rows, Open
  <2> QED BY <1>1, <2>1, <2>2, <2>3 DEF RowsKnown, Others
<1>6. ASSUME NEW g \in Fills, NotAdmitted(g) PROVE RowsKnown'
  BY <1>1, <1>6, Starts DEF RowsKnown, Rows, InPass, VaultTypes, Using, GateKnown,
     GenerationsKnown, Others, Same, Asked, Fresh, NotAdmitted
<1>7. ASSUME NEW g \in Fills, Interrupted(g) PROVE RowsKnown'
  BY <1>1, <1>7, Ends DEF RowsKnown, Rows, InPass, VaultTypes, Using, GateKnown,
     GenerationsKnown, Others, Same, Asked, Fresh, Interrupted
<1>8. ASSUME NEW g \in Fills, List(g) PROVE RowsKnown'
  <2>8. /\ \A w \in Writers : writer[w].pc \notin Using
        /\ \A h \in Fills : h # g => fill'[h] = fill[h] /\ fill[h].pc \notin InPass
    <3>1. fill[g].pc \in InPass BY <1>8 DEF List, InPass
    <3>2. Others(g) BY <1>1, <1>8, Ends, Passes DEF Fresh
    <3> QED BY <1>1, <3>1, <3>2 DEF GateKnown, RunKnown, InPass, Others
  <2>1. UNCHANGED <<native, applied, reconciled, header, regrouped, writer>>
    BY <1>8 DEF List
  <2>2. required' \in {required, required + 1} /\ (applied = required' => required' = required)
    BY <1>1, <1>8 DEF List, VaultTypes, GenerationsKnown
  <2>3. \/ fill'[g].pc \in {"publish", "rebuild"} /\ fill'[g].seen = native
        \/ fill'[g].pc = "ended"
    BY <1>1, <1>8, Ends, Passes DEF Fresh
  <2>4. Rows' = Rows BY <2>1 DEF Rows
  <2>5. regrouped' # {} => applied' < required'
    BY <1>1, <2>1, <2>2 DEF RowsKnown, VaultTypes
  <2>6. applied' = required' => applied = required BY <2>1, <2>2
  <2>7. fill'[g].pc # "index" BY <2>3
  <2> QED BY <1>1, <2>1, <2>3, <2>4, <2>5, <2>6, <2>7, <2>8 DEF RowsKnown, Using, InPass
<1>9. ASSUME NEW g \in Fills, Rebuild(g) PROVE RowsKnown'
  <2>8. /\ \A w \in Writers : writer[w].pc \notin Using
        /\ \A h \in Fills : h # g => fill'[h] = fill[h] /\ fill[h].pc \notin InPass
    <3>1. fill[g].pc \in InPass BY <1>9 DEF Rebuild, InPass
    <3>2. Others(g) BY <1>1, <1>9, Ends DEF Rebuild, Fresh
    <3> QED BY <1>1, <3>1, <3>2 DEF GateKnown, RunKnown, InPass, Others
  <2>1. UNCHANGED <<native, required, writer>> /\ fill[g].seen = native
    BY <1>1, <1>9 DEF Rebuild, RowsKnown
  <2>2. fill'[g].pc = "ended" BY <1>1, <1>9, Ends DEF Rebuild, Fresh
  <2>3. CASE required = fill[g].observed
    <3>1. /\ header' = [s \in Snapshots |-> IF s \in native THEN "ready" ELSE "absent"]
          /\ reconciled' = "fresh" /\ regrouped' = {}
      BY <1>9, <2>1, <2>3 DEF Rebuild
    <3>2. Rows' = native BY <1>1, <3>1 DEF Rows, VaultTypes
    <3> QED BY <1>1, <2>1, <2>2, <2>8, <3>1, <3>2 DEF RowsKnown, Using, InPass
  <2>4. CASE required # fill[g].observed
    <3>1. UNCHANGED <<applied, reconciled, header, regrouped>>
      BY <1>9, <2>4 DEF Rebuild
    <3>2. Rows' = Rows BY <3>1 DEF Rows
    <3> QED BY <1>1, <2>1, <2>2, <2>8, <3>1, <3>2 DEF RowsKnown, Using, InPass
  <2> QED BY <2>3, <2>4
<1>10. ASSUME NEW g \in Fills, Publish(g) PROVE RowsKnown'
  <2>8. /\ \A w \in Writers : writer[w].pc \notin Using
        /\ \A h \in Fills : h # g => fill'[h] = fill[h] /\ fill[h].pc \notin InPass
    <3>1. fill[g].pc \in InPass BY <1>10 DEF Publish, InPass
    <3>2. Others(g) BY <1>1, <1>10, Passes
    <3> QED BY <1>1, <3>1, <3>2 DEF GateKnown, RunKnown, InPass, Others
  <2>1. UNCHANGED <<native, applied, writer>> /\ fill[g].seen = native
    BY <1>1, <1>10 DEF Publish, RowsKnown
  <2>2. fill'[g].pc = "index" /\ fill'[g].work \subseteq Rows'
    BY <1>1, <1>10, Passes DEF Rows, Open
  <2>3. CASE required = fill[g].observed
    <3>1. header' = Listed(native) /\ reconciled' = "fresh" /\ regrouped' = {}
      BY <1>10, <2>1, <2>3 DEF Publish
    <3>2. Rows' = native
      <4>1. \A s \in Snapshots : header'[s] # "absent" <=> s \in native
        BY <3>1 DEF Listed
      <4> QED BY <1>1, <4>1 DEF Rows, VaultTypes
    <3> QED BY <1>1, <2>1, <2>2, <2>8, <3>1, <3>2 DEF RowsKnown, Using, InPass
  <2>4. CASE required # fill[g].observed
    <3>1. UNCHANGED <<required, reconciled, header, regrouped>>
      BY <1>10, <2>4 DEF Publish
    <3>2. Rows' = Rows BY <3>1 DEF Rows
    <3>3. fill'[g].observed # required' BY <1>1, <1>10, <2>4, <3>1, Passes
    <3> QED BY <1>1, <2>1, <2>2, <2>8, <3>1, <3>2, <3>3 DEF RowsKnown, Using, InPass
  <2> QED BY <2>3, <2>4
<1>11. ASSUME NEW g \in Fills, PublishHalf(g) PROVE RowsKnown'
  BY <1>1, <1>11, Ends DEF RowsKnown, Rows, InPass, VaultTypes, Using, GateKnown,
     GenerationsKnown, Others, Same, Asked, Fresh, PublishHalf
<1>12. ASSUME NEW g \in Fills, Index(g) PROVE RowsKnown'
  <2>8. /\ \A w \in Writers : writer[w].pc \notin Using
        /\ \A h \in Fills : h # g => fill'[h] = fill[h] /\ fill[h].pc \notin InPass
    <3>1. fill[g].pc \in InPass BY <1>12 DEF Index, InPass
    <3>2. Others(g) BY <1>1, <1>12, Passes
    <3> QED BY <1>1, <3>1, <3>2 DEF GateKnown, RunKnown, InPass, Others
  <2>1. UNCHANGED <<native, required, applied, reconciled, regrouped, writer>>
    BY <1>12 DEF Index
  <2>2. /\ fill[g].pc = "index" /\ fill[g].work \subseteq Rows
        /\ fill'[g].work \subseteq fill[g].work
        /\ fill'[g].pc = "index" /\ fill'[g].pass = fill[g].pass
        /\ fill'[g].observed = fill[g].observed
    BY <1>1, <1>12, Passes DEF Index, RowsKnown
  <2>3. PICK s \in fill[g].work, n \in {"ready", "failed"} : header' = [header EXCEPT ![s] = n]
    BY <1>12 DEF Index
  <2>4. Rows' = Rows BY <1>1, <2>2, <2>3 DEF Rows, VaultTypes
  <2> QED BY <1>1, <2>1, <2>2, <2>4, <2>8 DEF RowsKnown, Using, InPass
<1>13. ASSUME NEW g \in Fills, CompletePass(g) PROVE RowsKnown'
  <2>8. /\ \A w \in Writers : writer[w].pc \notin Using
        /\ \A h \in Fills : h # g => fill'[h] = fill[h] /\ fill[h].pc \notin InPass
    <3>1. fill[g].pc \in InPass BY <1>13 DEF CompletePass, InPass
    <3>2. Others(g) BY <1>1, <1>13, Ends, Passes DEF Fresh
    <3> QED BY <1>1, <3>1, <3>2 DEF GateKnown, RunKnown, InPass, Others
  <2>1. UNCHANGED <<native, required, reconciled, header, regrouped, writer>>
    BY <1>13 DEF CompletePass
  <2>2. fill'[g].pc \in {"ended", "list"} BY <1>1, <1>13, Ends, Passes DEF Fresh
  <2>3. Rows' = Rows BY <2>1 DEF Rows
  <2>4. applied' = applied \/ (applied' = required /\ Rows = native /\ regrouped = {})
    BY <1>1, <1>13 DEF CompletePass, RowsKnown
  <2> QED BY <1>1, <2>1, <2>2, <2>3, <2>4, <2>8 DEF RowsKnown, Using, InPass
<1>14. ASSUME NEW g \in Fills, PassFails(g) PROVE RowsKnown'
  BY <1>1, <1>14, Ends DEF RowsKnown, Rows, InPass, VaultTypes, Using, GateKnown,
     GenerationsKnown, Others, Same, Asked, Fresh, PassFails
<1>15. ASSUME NEW g \in Fills, EndPass(g) PROVE RowsKnown'
  <2>1. UNCHANGED <<vault, writer>> BY <1>15 DEF EndPass
  <2>2. fill'[g].pc \in {"idle", "top"} /\ Others(g) BY <1>1, <1>15, Ends DEF Fresh
  <2>3. Rows' = Rows BY <2>1 DEF Rows
  <2> QED BY <1>1, <2>1, <2>2, <2>3 DEF RowsKnown, Others
<1>16. ASSUME NEW g \in Fills, Revoke(g) PROVE RowsKnown'
  BY <1>1, <1>16 DEF RowsKnown, Rows, InPass, VaultTypes, Using, GateKnown, GenerationsKnown,
     Others, Same, Asked, Fresh, Revoke
<1>17. ASSUME NEW w \in Writers, Defer(w) PROVE RowsKnown'
  <2>1. UNCHANGED vault BY <1>17 DEF Defer
  <2>2. \A h \in Fills : fill'[h].pc = fill[h].pc /\ Same(h) BY <1>1, <1>17, Elsewhere
  <2>3. Turns(w, "deferred") \/ Turns(w, "draining") BY <1>1, <1>17, WriterMoves
  <2>4. Rows' = Rows BY <2>1 DEF Rows
  <2> QED BY <1>1, <2>1, <2>2, <2>3, <2>4 DEF RowsKnown, Same, Turns
<1>18. ASSUME NEW w \in Writers, GiveUp(w) PROVE RowsKnown'
  BY <1>1, <1>18 DEF RowsKnown, Rows, InPass, VaultTypes, Using, GateKnown, GenerationsKnown,
     WritersTyped, WriterTypes, IdleWriter, At, GiveUp
<1>19. ASSUME NEW w \in Writers, AskVault(w) PROVE RowsKnown'
  BY <1>1, <1>19 DEF RowsKnown, Rows, InPass, VaultTypes, Using, GateKnown, GenerationsKnown,
     WritersTyped, WriterTypes, IdleWriter, At, AskVault
<1>20. ASSUME NEW w \in Writers, EnterVault(w) PROVE RowsKnown'
  <2>1. UNCHANGED <<native, applied, reconciled, header, regrouped, fill>> BY <1>20 DEF EnterVault
  <2>2. exclusive = {} /\ leases = {} BY <1>20 DEF EnterVault, Gate!Grant
  <2>3. /\ \A x \in Writers : writer[x].pc \notin Using
        /\ \A h \in Fills : fill[h].pc \notin InPass
    BY <1>1, <2>2 DEF GateKnown
  <2>4. \/ Turns(w, "unlocking") /\ required' = required
        \/ Turns(w, "native") /\ required' = required + 1 /\ writer'[w].generation = required'
    BY <1>1, <1>20, WriterMoves
  <2>5. Rows' = Rows BY <2>1 DEF Rows
  <2> QED BY <1>1, <2>1, <2>3, <2>4, <2>5
      DEF RowsKnown, Turns, Using, InPass, VaultTypes, GenerationsKnown
<1>21. ASSUME NEW w \in Writers, NativeBackup(w) PROVE RowsKnown'
  BY <1>1, <1>21 DEF RowsKnown, Rows, InPass, VaultTypes, Using, GateKnown, GenerationsKnown,
     WritersTyped, WriterTypes, IdleWriter, At, NativeBackup
<1>22. ASSUME NEW w \in Writers, NativeDeletion(w) PROVE RowsKnown'
  BY <1>1, <1>22 DEF RowsKnown, Rows, InPass, VaultTypes, Using, GateKnown, GenerationsKnown,
     WritersTyped, WriterTypes, IdleWriter, At, NativeDeletion
<1>23. ASSUME NEW w \in Writers, NotStarted(w) PROVE RowsKnown'
  BY <1>1, <1>23 DEF RowsKnown, Rows, InPass, VaultTypes, Using, GateKnown, GenerationsKnown,
     WritersTyped, WriterTypes, IdleWriter, At, NotStarted
<1>24. ASSUME NEW w \in Writers, Acknowledge(w) PROVE RowsKnown'
  BY <1>1, <1>24 DEF RowsKnown, Rows, InPass, VaultTypes, Using, GateKnown, GenerationsKnown,
     WritersTyped, WriterTypes, IdleWriter, At, Advanced, Acknowledge
<1>25. ASSUME NEW w \in Writers, ApplyDeletion(w) PROVE RowsKnown'
  BY <1>1, <1>25 DEF RowsKnown, Rows, InPass, VaultTypes, Using, GateKnown, GenerationsKnown,
     WritersTyped, WriterTypes, IdleWriter, At, Advanced, ApplyDeletion
<1>26. ASSUME NEW w \in Writers, Reconcile(w) PROVE RowsKnown'
  <2>1. fill' = fill \/ \E r \in Requests : Scheduling(fill, r) BY <1>1, <1>26, Schedulers
  <2>2. \A g \in Fills : fill'[g].pc \in InPass => fill'[g] = fill[g]
    BY <1>1, <1>26, <2>1, Elsewhere DEF Reconcile, Fresh, Others, InPass
  <2>3. Rows' = Rows BY <1>26 DEF Rows, Reconcile
  <2> QED
    BY <1>1, <1>26, <2>2, <2>3 DEF Reconcile, RowsKnown, VaultTypes, WritersTyped, WriterTypes,
       IdleWriter, At, InPass
<1>27. ASSUME NEW w \in Writers, LeaveAfterUse(w) PROVE RowsKnown'
  BY <1>1, <1>27 DEF RowsKnown, Rows, InPass, VaultTypes, Using, GateKnown, GenerationsKnown,
     WritersTyped, WriterTypes, IdleWriter, At, LeaveAfterUse
<1>28. ASSUME NEW w \in Writers, Evaluate(w) PROVE RowsKnown'
  <2>1. fill' = fill \/ \E r \in Requests : Scheduling(fill, r) BY <1>1, <1>28, Schedulers
  <2>2. \A g \in Fills : fill'[g].pc \in InPass => fill'[g] = fill[g]
    BY <1>1, <1>28, <2>1, Elsewhere DEF Evaluate, Fresh, Others, InPass
  <2>3. Rows' = Rows BY <1>28 DEF Rows, Evaluate
  <2> QED
    BY <1>1, <1>28, <2>2, <2>3 DEF Evaluate, RowsKnown, VaultTypes, WritersTyped, WriterTypes,
       IdleWriter, At, InPass
<1>29. ASSUME NEW w \in Writers, Resume(w) PROVE RowsKnown'
  BY <1>1, <1>29 DEF RowsKnown, Rows, InPass, VaultTypes, Using, GateKnown, GenerationsKnown,
     WritersTyped, WriterTypes, IdleWriter, At, Resume
<1>30. ASSUME NEW w \in Writers, Give(w) PROVE RowsKnown'
  <2>1. fill' = fill \/ \E r \in Requests : Scheduling(fill, r) BY <1>1, <1>30, Schedulers
  <2>2. \A g \in Fills : fill'[g].pc \in InPass => fill'[g] = fill[g]
    BY <1>1, <1>30, <2>1, Elsewhere DEF Give, Fresh, Others, InPass
  <2>3. Rows' = Rows BY <1>30 DEF Rows, Give
  <2> QED
    BY <1>1, <1>30, <2>2, <2>3 DEF Give, RowsKnown, VaultTypes, WritersTyped, WriterTypes,
       IdleWriter, At, InPass
<1>31. CASE Access
  <2>1. fill' = fill \/ \E r \in Requests : Scheduling(fill, r) BY <1>1, <1>31, Schedulers
  <2>2. \A g \in Fills : fill'[g].pc \in InPass => fill'[g] = fill[g]
    BY <1>1, <1>31, <2>1, Elsewhere DEF Access, Fresh, Others, InPass
  <2>3. Rows' = Rows BY <1>31 DEF Rows, Access
  <2> QED
    BY <1>1, <1>31, <2>2, <2>3 DEF Access, RowsKnown, VaultTypes, WritersTyped, WriterTypes,
       IdleWriter, At, InPass
<1>32. CASE AskFor
  <2>1. fill' = fill \/ \E r \in Requests : Scheduling(fill, r) BY <1>1, <1>32, Schedulers
  <2>2. \A g \in Fills : fill'[g].pc \in InPass => fill'[g] = fill[g]
    BY <1>1, <1>32, <2>1, Elsewhere DEF AskFor, Fresh, Others, InPass
  <2>3. Rows' = Rows BY <1>32 DEF Rows, AskFor
  <2> QED
    BY <1>1, <1>32, <2>2, <2>3 DEF AskFor, RowsKnown, VaultTypes, WritersTyped, WriterTypes,
       IdleWriter, At, InPass
<1>33. CASE CooldownEnds
  BY <1>1, <1>33 DEF RowsKnown, Rows, InPass, VaultTypes, Using, GateKnown, GenerationsKnown,
     CooldownEnds
<1>34. CASE TenDays
  BY <1>1, <1>34 DEF RowsKnown, Rows, InPass, VaultTypes, Using, GateKnown, GenerationsKnown,
     TenDays
<1>35. CASE Stop
  BY <1>1, <1>35 DEF RowsKnown, Rows, InPass, VaultTypes, Using, GateKnown, GenerationsKnown,
     Stop
<1>36. CASE Restart
  BY <1>1, <1>36, Elsewhere DEF RowsKnown, Rows, InPass, VaultTypes, Using, GateKnown,
     GenerationsKnown, Others, Same, Asked, Fresh, WritersTyped, WriterTypes, IdleWriter, At,
     Restart
<1>37. CASE ChangeJobs
  <2>1. /\ required' = required + 1
        /\ UNCHANGED <<native, applied, reconciled, header, fill, writer>>
    BY <1>37 DEF ChangeJobs
  <2>2. applied < required' BY <1>1, <2>1 DEF GenerationsKnown, VaultTypes
  <2>3. \A g \in Fills : fill[g].observed # required'
    <3>1. \A g \in Fills : fill[g].observed \in Nat BY <1>1, FillFields
    <3> QED BY <1>1, <2>1, <3>1 DEF GenerationsKnown, VaultTypes
  <2>4. \A w \in Writers : writer[w].pc \in {"native", "acknowledge", "apply"} =>
            applied + 1 < required'
    <3>1. \A w \in Writers : writer[w].generation \in Nat
      BY <1>1 DEF WritersTyped, WriterTypes
    <3> QED BY <1>1, <2>1, <3>1 DEF GenerationsKnown, VaultTypes
  <2>5. Rows' = Rows BY <2>1 DEF Rows
  <2> QED BY <1>1, <2>1, <2>2, <2>3, <2>4, <2>5 DEF RowsKnown, VaultTypes
<1> QED
  BY <1>2, <1>3, <1>4, <1>5, <1>6, <1>7, <1>8, <1>9, <1>10, <1>11, <1>12, <1>13, <1>14, <1>15,
     <1>16, <1>17, <1>18, <1>19, <1>20, <1>21, <1>22, <1>23, <1>24, <1>25, <1>26, <1>27, <1>28,
     <1>29, <1>30, <1>31, <1>32, <1>33, <1>34, <1>35, <1>36, <1>37 DEF Next, FillStep,
     WriterStep

-----------------------------------------------------------------------------
(* The theorems.                                                             *)

\* The invariant holds when the application first starts.
LEMMA InvAtStart == Init => IInv
<1> SUFFICES ASSUME Init PROVE IInv OBVIOUS
<1>1. \A w \in Writers : \E k \in Kinds, q \in {"idle", "done"} :
          writer[w] = [IdleWriter(k) EXCEPT !.pc = q]
  BY DEF Init
<1>2. /\ WritersTyped
      /\ \A w \in Writers : writer[w].pc \in {"idle", "done"}
  <2>1. ASSUME NEW k \in Kinds, NEW q \in {"idle", "done"}
        PROVE  /\ [IdleWriter(k) EXCEPT !.pc = q] \in WriterTypes
               /\ [IdleWriter(k) EXCEPT !.pc = q].pc = q
    BY DEF WriterTypes, IdleWriter
  <2>2. DOMAIN writer = Writers /\ writer = [w \in Writers |-> writer[w]] BY DEF Init
  <2>3. \A w \in Writers : writer[w] \in WriterTypes /\ writer[w].pc \in {"idle", "done"}
    <3> SUFFICES ASSUME NEW w \in Writers
                 PROVE  writer[w] \in WriterTypes /\ writer[w].pc \in {"idle", "done"} OBVIOUS
    <3>1. PICK k \in Kinds, q \in {"idle", "done"} : writer[w] = [IdleWriter(k) EXCEPT !.pc = q]
      BY <1>1
    <3>2. /\ [IdleWriter(k) EXCEPT !.pc = q] \in WriterTypes
          /\ [IdleWriter(k) EXCEPT !.pc = q].pc = q
      BY <2>1
    <3> QED BY <3>1, <3>2
  <2> QED BY <2>2, <2>3 DEF WritersTyped
<1>3. FillsTyped BY FillValues DEF Init, FillsTyped, Control
<1>4. \A g \in Fills : fill[g].pc = "idle" /\ fill[g].observed = 0 BY IdleFields DEF Init
<1>5. VaultTypes /\ QueueTypes
  <2>1. /\ native \in SUBSET Old /\ required = 0 /\ applied = 0 /\ reconciled = "never"
        /\ header = [s \in Snapshots |-> "absent"] /\ regrouped = {}
        /\ headerFailure = "none" /\ entryCooling = FALSE
    BY DEF Init
  <2>3. VaultTypes BY <2>1 DEF VaultTypes, Snapshots
  <2>2. QueueTypes BY DEF Init, QueueTypes
  <2> QED BY <2>2, <2>3
<1>6. RequestsKnown BY <1>2, <1>4 DEF RequestsKnown, InPass, At
<1>7. RunKnown BY <1>4, NoneAssumption DEF Init, RunKnown
<1>8. GateKnown BY <1>2, <1>4 DEF Init, GateKnown, Gate!Init, Using, InPass
<1>9. DeferringKnown BY <1>2, <1>4 DEF Init, DeferringKnown
<1>10. GenerationsKnown BY <1>2, <1>4 DEF Init, GenerationsKnown
<1>11. RowsKnown
  <2>1. Rows = {} BY DEF Init, Rows
  <2> QED BY <1>2, <1>4, <2>1 DEF Init, RowsKnown
<1> QED BY <1>2, <1>3, <1>5, <1>6, <1>7, <1>8, <1>9, <1>10, <1>11 DEF IInv, Types

\* A stuttering step keeps it.
LEMMA Stuttering == IInv /\ UNCHANGED vars => IInv'
<1> SUFFICES ASSUME IInv, UNCHANGED vars PROVE IInv' OBVIOUS
<1> USE DEF vars, vault, gate, queue
<1>1. Types' BY DEF IInv, Types, VaultTypes, QueueTypes, FillsTyped, WritersTyped
<1>2. RequestsKnown' /\ RunKnown' /\ GateKnown'
  BY DEF IInv, RequestsKnown, RunKnown, GateKnown, At
<1>3. DeferringKnown' /\ GenerationsKnown' BY DEF IInv, DeferringKnown, GenerationsKnown
<1>4. RowsKnown' BY DEF IInv, RowsKnown, Rows
<1> QED BY <1>1, <1>2, <1>3, <1>4 DEF IInv

\* Every step of the specification keeps it.
LEMMA InvKept == IInv /\ [Next]_vars => IInv'
BY Stuttering, VaultTyped, QueueTyped, FillTyped, WriterTyped, RequestsKept, RunKept, GateKept,
   DeferringKept, GenerationsKept, RowsKept DEF IInv, Types

\* So it always holds.
LEMMA AlwaysInv == Spec => []IInv
BY InvAtStart, InvKept, PTL DEF Spec

\* The type invariant, with the generation of the cache never beyond that of the vault and
\* a cancellation wherever a request is active (cache.go).
THEOREM TypeCorrect == Spec => []TypeOK
<1>1. IInv => TypeOK
  <2> SUFFICES ASSUME IInv PROVE TypeOK OBVIOUS
  <2>1. VaultTypes /\ QueueTypes /\ FillsTyped /\ WritersTyped /\ RunKnown /\ GenerationsKnown
    BY DEF IInv, Types
  <2>2. applied \in 0..required BY <2>1 DEF VaultTypes, GenerationsKnown
  <2> QED BY <2>1, <2>2 DEF TypeOK, VaultTypes, QueueTypes, FillsTyped, WritersTyped, RunKnown
<1> QED BY <1>1, AlwaysInv, PTL

\* Whatever failed, was cancelled or crashed between a change of the vault and the cache,
\* a cache that is shown as complete shows the snapshots in the vault, no more and no less
\* (repositoryMetadataIndexState, StartMetadataMutationStep, CompleteMetadataRefresh). And a
\* change of the jobs that leaves rows under a stale grouping root hides the cache until a
\* pass or a rebuild that began later has stored the new roots, whatever else moves the
\* generation or tries to catch up with it (RefreshStaleMetadataGrouping).
THEOREM ReadersTrust == Spec => []ReadersSeeTruth
<1>1. IInv => ReadersSeeTruth
  <2> SUFFICES ASSUME IInv, Complete
               PROVE  {s \in Snapshots : header[s] = "ready"} = native /\ regrouped = {}
    BY DEF ReadersSeeTruth
  <2>1. Rows = native BY DEF IInv, RowsKnown, Complete
  <2>2. {s \in Snapshots : header[s] = "ready"} = Rows BY DEF Complete, AllReady, Rows
  <2>3. regrouped = {}
    <3>1. applied = required /\ applied \in Nat /\ required \in Nat
      BY DEF IInv, Types, VaultTypes, Complete
    <3>2. regrouped # {} => applied < required BY DEF IInv, RowsKnown
    <3> QED BY <3>1, <3>2
  <2> QED BY <2>1, <2>2, <2>3
<1> QED BY <1>1, AlwaysInv, PTL

\* No saved request is without somebody to take it up, and nothing that deletes or
\* restores works beside a fill (deferRepositorySync, finishQueued).
THEOREM RequestsTakenUp == Spec => []NothingStranded
<1>1. IInv => NothingStranded
  <2> SUFFICES ASSUME IInv PROVE NothingStranded OBVIOUS
  <2>1. DeferringKnown BY DEF IInv
  <2> QED BY <2>1 DEF DeferringKnown, NothingStranded
<1> QED BY <1>1, AlwaysInv, PTL

\* Commands that change the vault run one at a time, never beside a pass, and with the
\* cache already behind them: a crash at any moment leaves a cache that tells so.
ChangesAnnounced ==
    \A w \in Writers : At(w, "native") =>
        /\ applied < required
        /\ \A x \in Writers : At(x, "native") => x = w
        /\ \A g \in Fills : fill[g].pc \notin InPass
THEOREM ChangesAreAnnounced == Spec => []ChangesAnnounced
<1>1. IInv => ChangesAnnounced
  <2> SUFFICES ASSUME IInv PROVE ChangesAnnounced OBVIOUS
  <2>1. \A w \in Writers : writer[w].generation \in Nat
    BY DEF IInv, Types, WritersTyped, WriterTypes
  <2>2. \A w \in Writers : At(w, "native") => applied < required
    BY <2>1 DEF IInv, Types, VaultTypes, GenerationsKnown, At
  <2> QED BY <2>2 DEF IInv, ChangesAnnounced, At, GateKnown, Using
<1> QED BY <1>1, AlwaysInv, PTL
=============================================================================
