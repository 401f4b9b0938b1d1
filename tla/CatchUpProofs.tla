---------------------------- MODULE CatchUpProofs ----------------------------
(***************************************************************************)
(* Proofs about CatchUp for any vaults and operations, any clock, and any  *)
(* number of failed writes, edits and restarts.                            *)
(*                                                                         *)
(* The tables that a transaction leaves are Sound, which each of the       *)
(* bookkeeping functions preserves; they are taken one by one first.  With *)
(* the memory of the process the invariant is IInv.  A step then has one   *)
(* of a few Outcomes for the occurrences of the job, and each of them is a *)
(* step that CatchUpPromise allows.                                        *)
(***************************************************************************)
EXTENDS CatchUp, TLAPS, WellFoundedInduction, FiniteSetTheorems

----------------------------------------------------------------------------
(* The invariant.  Sound: what every transaction leaves in the tables.      *)

(* The rows that hold the occurrences of a vault in the tables d.           *)
HeldIn(d, v) == {o \in EligibleOps(d) : d.ops[o].vault = v /\ d.ops[o].status \in Active}

\* Generations have an upper bound, so the newest and the oldest of some exist.
Bounded(G) == \E b \in Nat : \A g \in G : g.gen <= b

\* Every restoration row has its group.
GroupedRows(d) ==
    \A o \in Ops : d.ops[o].rest # "none" => \E g \in d.groups : g.gen = d.ops[o].gen

\* Every row in use has a vault.
NamedRows(d) == \A o \in Ops : d.ops[o] = Free \/ d.ops[o].vault \in Vaults

\* Every range that is saved is one.
RangesParse(d) ==
    /\ \A v \in Vaults : d.pend[v] = NoPending \/ RangeOK(d.pend[v])
    /\ \A o \in EligibleOps(d) : RangeOK(d.ops[o].due)

\* A queued row has not used its occurrence up.
QueuedRows(d) ==
    \A o \in Ops : d.ops[o].status = "queued" => d.ops[o].rest \in {"none", "eligible"}

\* No vault has two live rows.
OneLive(d) ==
    \A o, q \in Ops :
        /\ d.ops[o].status \in Active /\ d.ops[q].status \in Active
        /\ d.ops[o].vault = d.ops[q].vault
        => o = q

\* Nothing is scheduled for v any more.
Gone(d, v) == d.manual \/ v \notin d.targets

\* Then nothing waits for it, and no live row holds anything.
NothingBehind(d) ==
    /\ \A v \in Vaults : Gone(d, v) => d.pend[v] = NoPending
    /\ \A o \in EligibleOps(d) : d.ops[o].status \in Active => ~Gone(d, d.ops[o].vault)

\* A manual job has no next run.
ManualHasNoTime(d) == d.manual => d.nextRun = NoTime

\* What holds also between the parts of one transaction.
Kept(d) ==
    /\ d \in Tables
    /\ Bounded(d.groups)
    /\ GroupedRows(d)
    /\ NamedRows(d)
    /\ RangesParse(d)
    /\ QueuedRows(d)
    /\ OneLive(d)
    /\ NothingBehind(d)
    /\ ManualHasNoTime(d)

\* With the groups: each has a restoration row or a started backup.
Sound(d) == Kept(d) /\ GroupsSound(d)

\* The job's own row, but for its last run, is as it was.
SameJob(d, e) ==
    /\ e.enabled = d.enabled /\ e.manual = d.manual
    /\ e.targets = d.targets /\ e.nextRun = d.nextRun

\* Phases before the run of an operation ...
Waiting == {"admitted", "queued", "quarantined"}
\* ... and during it.
InRun == {"running", "checked", "launched", "paused", "ended", "settled"}

\* The memory of the process has the shape that TypeOK asks for.
Shapes ==
    /\ now \in 1..MaxTime
    /\ tick \in [due : Nat, sel : SUBSET Vaults]
    /\ phase \in [Ops -> Phases]
    /\ failing \subseteq Ops /\ launched \subseteq Ops
    /\ faults \in 0..Faults /\ disturbances \in 0..Disturbances

\* What the process is doing with an operation is what its row says.
PhaseFits(o) ==
    /\ phase[o] \in Waiting => db.ops[o].status = "queued"
    /\ phase[o] \in InRun => db.ops[o].status = "running"
    /\ phase[o] = "checked" => db.ops[o].native \in StepDurable

\* Memory and tables agree about every operation.
PhaseRows == \A o \in Ops : PhaseFits(o)

(* A launched native backup is in the database as started, and no operation *)
(* that could still be put back has one.                                    *)
LaunchedRuns ==
    \A o \in launched :
        /\ o \in EligibleOps(db)
        /\ db.ops[o].status = "running" /\ db.ops[o].native \in StepDurable
        /\ phase[o] \in {"launched", "ended", "settled", "none"}

\* The inductive invariant.
IInv == Sound(db) /\ Shapes /\ PhaseRows /\ LaunchedRuns

----------------------------------------------------------------------------
(* Numbers and the clock.                                                   *)

\* A set of numbers that is not empty has a least one.
LEMMA LeastNumber ==
    ASSUME NEW T, T \subseteq Nat, T # {}
    PROVE  \E m \in T : \A n \in T : m <= n
<1> DEFINE Below == {p \in Nat \X Nat : p[1] < p[2]}
<1>1. IsWellFoundedOn(Below, Nat)
  BY NatLessThanWellFounded DEF OpToRel
<1>2. PICK m \in T : \A n \in T : <<n, m>> \notin Below
  <2> HIDE DEF Below
  <2> QED
    BY <1>1, WFMin
<1>3. \A n \in T : ~(n < m)
  BY <1>2
<1> QED
  BY <1>3

\* A bounded one has a greatest.
LEMMA GreatestNumber ==
    ASSUME NEW T, T \subseteq Nat, T # {}, NEW b \in Nat, \A n \in T : n <= b
    PROVE  \E m \in T : \A n \in T : n <= m
<1> DEFINE U == {u \in Nat : \A n \in T : n <= u}
<1>1. PICK u \in U : \A w \in U : u <= w
  BY LeastNumber
<1>2. u \in T
  <2> SUFFICES ASSUME u \notin T PROVE FALSE
    OBVIOUS
  <2>1. PICK t \in T : TRUE
    OBVIOUS
  <2>2. \A n \in T : n <= u - 1 /\ n \in Nat
    OBVIOUS
  <2>3. u - 1 \in U
    BY <2>1, <2>2
  <2> QED
    BY <1>1, <2>3
<1> QED
  BY <1>2

\* The smaller of two times, as Min of the pair gives it.
LEMMA MinOfTwo == \A a, b \in Nat : Min({a, b}) = (IF a <= b THEN a ELSE b)
  BY DEF Min

\* The larger of two times.
LEMMA MaxOfTwo == \A a, b \in Nat : Max({a, b}) = (IF a <= b THEN b ELSE a)
  BY DEF Max

\* The first occurrence of the schedule after now is a time.
LEMMA AdvanceType ==
    ASSUME NEW due \in Nat, now \in Nat
    PROVE  AdvanceAfter(due) \in Nat
<1> USE TimesPositive
<1>1. CASE due + Interval > now
  BY <1>1 DEF AdvanceAfter
<1>2. CASE ~(due + Interval > now)
  <2> DEFINE k == (now - due) \div Interval
  <2>1. now - due \in Nat /\ Interval \in Nat /\ Interval > 0
    BY <1>2
  <2>2. k \in Nat
    BY <2>1
  <2>3. Interval * (k + 1) \in Nat
    BY <2>1, <2>2
  <2> QED
    BY <1>2, <2>3 DEF AdvanceAfter
<1> QED
  BY <1>1, <1>2

----------------------------------------------------------------------------
(* Forgetting finished rows, cutting groups, and reconciling the last run.  *)

\* A group of the newest generation exists, and no group is newer.
LEMMA NewestIn ==
    ASSUME NEW G \in SUBSET Group, G # {}, Bounded(G)
    PROVE  Newest(G) \in G /\ \A h \in G : h.gen <= Newest(G).gen
<1> DEFINE T == {g.gen : g \in G}
<1>1. T \subseteq Nat /\ T # {} /\ \E b \in Nat : \A n \in T : n <= b
  BY DEF Bounded, Group
<1>2. \E m \in T : \A n \in T : n <= m
  <2> HIDE DEF T
  <2> QED
    BY <1>1, GreatestNumber
<1>3. \E g \in G : \A h \in G : h.gen <= g.gen
  BY <1>2
<1> QED
  BY <1>3 DEF Newest

\* A group of the oldest generation exists, and no group is older.
LEMMA OldestIn ==
    ASSUME NEW G \in SUBSET Group, G # {}
    PROVE  Oldest(G) \in G
<1> DEFINE T == {g.gen : g \in G}
<1>1. T \subseteq Nat /\ T # {}
  BY DEF Group
<1>2. \E m \in T : \A n \in T : m <= n
  <2> HIDE DEF T
  <2> QED
    BY <1>1, LeastNumber
<1>3. \E g \in G : \A h \in G : g.gen <= h.gen
  BY <1>2
<1> QED
  BY <1>3 DEF Oldest

\* A pair that nothing waits for has a pending record.
LEMMA NoPendingType == NoPending \in Pending
  BY DEF NoPending, Pending, NoTime

\* A row that holds no operation is a row.
LEMMA FreeType == Free \in Row
  BY NoPendingType DEF Free, Row

\* What forgetting leaves of the tables.
LEMMA ForgetLeaves ==
    ASSUME NEW d \in Tables
    PROVE  /\ Forget(d) \in Tables
           /\ SameJob(d, Forget(d)) /\ Forget(d).pend = d.pend
           /\ Forget(d).groups = d.groups /\ Forget(d).lastRun = d.lastRun
           /\ \A o \in Ops : Forget(d).ops[o] =
                 IF d.ops[o].rest = "none" /\ d.ops[o].status \notin Active THEN Free ELSE d.ops[o]
  BY FreeType DEF Forget, Tables, SameJob

\* What a cut of all groups leaves of the row r.
Dropped(r) ==
    IF r.status \notin Active THEN Free
    ELSE IF r.rest = "none" THEN r
    ELSE [r EXCEPT !.rest = "none", !.gen = 0, !.due = NoPending]

\* A row that has lost its occurrence is still a row.
LEMMA UnheldType ==
    ASSUME NEW r \in Row
    PROVE  [r EXCEPT !.rest = "none", !.gen = 0, !.due = NoPending] \in Row
  BY NoPendingType DEF Row

\* The cascade keeps of a live row what says where its run is.
LEMMA DroppedType ==
    ASSUME NEW r \in Row
    PROVE  /\ Dropped(r) \in Row /\ Dropped(r).rest = "none"
           /\ r.status \in Active => Dropped(r).status = r.status /\ Dropped(r).vault = r.vault
                                     /\ Dropped(r).native = r.native
           /\ r.status \notin Active => Dropped(r) = Free
<1>1. CASE r.status \notin Active
  BY <1>1, FreeType DEF Dropped, Free
<1>2. CASE r.status \in Active /\ r.rest = "none"
  BY <1>2 DEF Dropped
<1>3. CASE r.status \in Active /\ r.rest # "none"
  BY <1>3, UnheldType DEF Dropped, Row
<1> QED
  BY <1>1, <1>2, <1>3

\* The cascade once every group is gone.
LEMMA CascadeLeaves ==
    ASSUME NEW d \in Tables, d.groups = {}
    PROVE  /\ Cascade(d) \in Tables
           /\ SameJob(d, Cascade(d)) /\ Cascade(d).pend = d.pend
           /\ Cascade(d).groups = {}
           /\ \A o \in Ops : Cascade(d).ops[o] = Dropped(d.ops[o])
<1> DEFINE row(o) == IF d.ops[o].rest # "none" /\ \A g \in d.groups : g.gen # d.ops[o].gen
                     THEN [d.ops[o] EXCEPT !.rest = "none", !.gen = 0, !.due = NoPending]
                     ELSE d.ops[o]
           c == [d EXCEPT !.ops = [o \in Ops |-> row(o)]]
<1>1. \A o \in Ops : row(o) \in Row
  BY UnheldType DEF Tables
<1>2. /\ c \in Tables /\ SameJob(d, c) /\ c.pend = d.pend /\ c.groups = {}
      /\ \A o \in Ops : c.ops[o] = row(o)
  <2> HIDE DEF row
  <2> QED
    BY <1>1 DEF Tables, SameJob
<1>3. Cascade(d) = Forget(c)
  BY DEF Cascade, Tables
<1>4. \A o \in Ops : d.ops[o] \in Row /\ row(o).rest = "none" /\ row(o).status = d.ops[o].status
  BY DEF Tables, Row
<1>5. \A o \in Ops : row(o).status \in Active => row(o) = Dropped(d.ops[o])
  BY <1>4 DEF Dropped
<1> HIDE DEF c, row
<1>6. \A o \in Ops : Cascade(d).ops[o] = IF row(o).status \notin Active THEN Free ELSE row(o)
  BY <1>2, <1>3, <1>4, ForgetLeaves
<1>7. \A o \in Ops : Cascade(d).ops[o] = Dropped(d.ops[o])
  <2>1. \A o \in Ops : d.ops[o].status \notin Active => Dropped(d.ops[o]) = Free
    BY DEF Dropped
  <2> QED
    BY <1>4, <1>5, <1>6, <2>1
<1>8. /\ Cascade(d) \in Tables /\ SameJob(d, Cascade(d)) /\ Cascade(d).pend = d.pend
      /\ Cascade(d).groups = {}
  BY <1>2, <1>3, ForgetLeaves DEF SameJob
<1> QED
  BY <1>7, <1>8

\* e is d after a reconciliation: nothing but lastRun, or every group is gone.
Reconciled(d, e) ==
    /\ e \in Tables /\ SameJob(d, e) /\ e.pend = d.pend
    /\ \/ e.ops = d.ops /\ e.groups = d.groups
       \/ /\ EligibleOps(d) = {} /\ e.groups = {}
          /\ \A o \in Ops : e.ops[o] = Dropped(d.ops[o])

\* Reconciling the last run cuts no group that a held occurrence needs.
LEMMA ReconcileLeaves ==
    ASSUME NEW d \in Tables, Bounded(d.groups), GroupedRows(d)
    PROVE  Reconciled(d, Reconcile(d))
<1> DEFINE live == {g \in d.groups : Rows(d, g) \cap EligibleOps(d) # {}}
           ran == {g \in d.groups : g.started}
           lastRun == IF live \cup ran = {} THEN Oldest(d.groups).prev
                      ELSE Newest(live \cup ran).admittedAt
<1>1. CASE d.groups = {}
  BY <1>1 DEF Reconcile, Reconciled, SameJob
<1>2. CASE d.groups # {}
  <2>1. d.groups \in SUBSET Group /\ live \cup ran \in SUBSET Group /\ Bounded(live \cup ran)
    BY DEF Tables, Bounded
  <2>2. lastRun \in Nat
    <3>1. CASE live \cup ran = {}
      BY <3>1, <2>1, <1>2, OldestIn DEF Group
    <3>2. CASE live \cup ran # {}
      <4> HIDE DEF live, ran
      <4> QED
        BY <3>2, <2>1, NewestIn DEF Group
    <3> QED
      BY <3>1, <3>2
  <2>3. CASE live # {}
    <3>1. Reconcile(d) = [d EXCEPT !.lastRun = lastRun]
      BY <1>2, <2>3 DEF Reconcile
    <3> HIDE DEF lastRun
    <3> QED
      BY <2>2, <3>1 DEF Reconciled, SameJob, Tables
  <2>4. CASE live = {}
    <3> DEFINE c == [d EXCEPT !.lastRun = lastRun, !.groups = {}]
    <3>1. Reconcile(d) = Cascade(c)
      BY <1>2, <2>4 DEF Reconcile
    <3>2. EligibleOps(d) = {}
      BY <2>4 DEF GroupedRows, EligibleOps, Rows
    <3>3. c \in Tables /\ SameJob(d, c) /\ c.pend = d.pend /\ c.groups = {} /\ c.ops = d.ops
      <4> HIDE DEF lastRun
      <4> QED
        BY <2>2 DEF Tables, SameJob
    <3> HIDE DEF c
    <3> QED
      BY <3>1, <3>2, <3>3, CascadeLeaves DEF Reconciled, SameJob
  <2> QED
    BY <2>3, <2>4
<1> QED
  BY <1>1, <1>2

\* Sound tables stay sound when the last run is reconciled ...
LEMMA ReconcileSound ==
    ASSUME NEW d, Sound(d), NEW e, Reconciled(d, e)
    PROVE  Sound(e)
<1>1. CASE e.ops = d.ops /\ e.groups = d.groups
  BY <1>1 DEF Sound, Kept, Reconciled, SameJob, GroupsSound, Rows, GroupedRows, NamedRows,
     RangesParse, QueuedRows, OneLive, NothingBehind, Gone, ManualHasNoTime, EligibleOps
<1>2. CASE /\ EligibleOps(d) = {} /\ e.groups = {}
           /\ \A o \in Ops : e.ops[o] = Dropped(d.ops[o])
  <2>1. \A o \in Ops : d.ops[o] \in Row
    BY DEF Sound, Kept, Tables
  <2>2. \A o \in Ops : e.ops[o].rest = "none" /\ (d.ops[o].status \notin Active => e.ops[o] = Free)
    BY <1>2, <2>1, DroppedType
  <2>3. \A o \in Ops : d.ops[o].status \in Active =>
            e.ops[o].status = d.ops[o].status /\ e.ops[o].vault = d.ops[o].vault
    BY <1>2, <2>1, DroppedType
  <2>4. \A o \in Ops : e.ops[o].status \in Active => d.ops[o].status \in Active
    BY <2>2 DEF Free, Active
  <2>5. EligibleOps(e) = {}
    BY <2>2 DEF EligibleOps
  <2>6. Bounded(e.groups) /\ GroupedRows(e) /\ QueuedRows(e) /\ GroupsSound(e)
    BY <1>2, <2>2 DEF Bounded, GroupedRows, QueuedRows, GroupsSound
  <2>7. NamedRows(e) /\ OneLive(e)
    BY <2>2, <2>3, <2>4 DEF Sound, Kept, NamedRows, OneLive, Free, Active
  <2>8. RangesParse(e) /\ NothingBehind(e) /\ ManualHasNoTime(e)
    BY <2>5 DEF Sound, Kept, Reconciled, SameJob, RangesParse, NothingBehind, Gone, ManualHasNoTime
  <2> QED
    BY <2>6, <2>7, <2>8 DEF Sound, Kept, Reconciled
<1> QED
  BY <1>1, <1>2 DEF Reconciled

\* The live rows that S leaves alone keep what says where their run is.
KeepsLive(d, e, S) ==
    \A o \in Ops \ S : d.ops[o].status \in Active =>
        /\ e.ops[o].status = d.ops[o].status
        /\ e.ops[o].native = d.ops[o].native
        /\ e.ops[o].vault = d.ops[o].vault

\* The live rows of S no longer hold an occurrence, the others still do.
KeepsHeld(d, e, S) ==
    \A v \in Vaults :
        /\ HeldIn(e, v) = HeldIn(d, v) \ S
        /\ \A o \in HeldIn(e, v) : e.ops[o].due = d.ops[o].due

\* Both at once.
KeepsRows(d, e, S) == KeepsLive(d, e, S) /\ KeepsHeld(d, e, S)

\* One change after another, each keeping rows, keeps the rows of both.
LEMMA KeepsCompose ==
    ASSUME NEW d, NEW e, NEW f, NEW S \in SUBSET Ops, NEW T \in SUBSET Ops,
           KeepsRows(d, e, S), KeepsRows(e, f, T)
    PROVE  KeepsRows(d, f, S \cup T)
<1>1. KeepsLive(d, f, S \cup T)
  BY DEF KeepsLive, KeepsRows
<1>2. KeepsHeld(d, f, S \cup T)
  BY DEF KeepsHeld, KeepsRows
<1> QED
  BY <1>1, <1>2 DEF KeepsRows

\* ... and every live row keeps its run and its occurrence.
LEMMA ReconciledKeeps ==
    ASSUME NEW d, Sound(d), NEW e, Reconciled(d, e)
    PROVE  KeepsRows(d, e, {})
<1>1. CASE e.ops = d.ops
  BY <1>1 DEF KeepsRows, KeepsLive, KeepsHeld, HeldIn, EligibleOps
<1>2. CASE EligibleOps(d) = {} /\ \A o \in Ops : e.ops[o] = Dropped(d.ops[o])
  <2>1. \A o \in Ops : d.ops[o] \in Row
    BY DEF Sound, Kept, Tables
  <2>2. KeepsLive(d, e, {})
    BY <1>2, <2>1, DroppedType DEF KeepsLive
  <2>3. EligibleOps(e) = {}
    BY <1>2, <2>1, DroppedType DEF EligibleOps
  <2> QED
    BY <1>2, <2>2, <2>3 DEF KeepsRows, KeepsHeld, HeldIn
<1> QED
  BY <1>1, <1>2 DEF Reconciled

\* What reconcileLastRunAt does to sound tables.
LEMMA ReconcileSettles ==
    ASSUME NEW d, Sound(d)
    PROVE  /\ Sound(Reconcile(d)) /\ SameJob(d, Reconcile(d)) /\ Reconcile(d).pend = d.pend
           /\ KeepsRows(d, Reconcile(d), {})
<1>1. Reconciled(d, Reconcile(d))
  BY ReconcileLeaves DEF Sound, Kept
<1> QED
  BY <1>1, ReconcileSound, ReconciledKeeps DEF Reconciled

\* The rows of finished are forgotten, the others keep all.
LEMMA ForgetSettles ==
    ASSUME NEW d, Sound(d)
    PROVE  /\ Sound(Forget(d)) /\ SameJob(d, Forget(d)) /\ Forget(d).pend = d.pend
           /\ KeepsRows(d, Forget(d), {})
<1> DEFINE e == Forget(d)
<1>1. /\ e \in Tables /\ SameJob(d, e) /\ e.pend = d.pend /\ e.groups = d.groups
      /\ \A o \in Ops : e.ops[o] = IF d.ops[o].rest = "none" /\ d.ops[o].status \notin Active
                                   THEN Free ELSE d.ops[o]
  BY ForgetLeaves DEF Sound, Kept
<1> HIDE DEF e
<1>2. \A o \in Ops : d.ops[o].rest # "none" \/ d.ops[o].status \in Active => e.ops[o] = d.ops[o]
  BY <1>1
<1>3. \A o \in Ops : ~(d.ops[o].rest # "none" \/ d.ops[o].status \in Active) => e.ops[o] = Free
  BY <1>1
<1>4. /\ \A o \in Ops : e.ops[o].rest = d.ops[o].rest
      /\ \A o \in Ops : e.ops[o].status \in Active <=> d.ops[o].status \in Active
  BY <1>2, <1>3 DEF Free, Active
<1>5. EligibleOps(e) = EligibleOps(d) /\ \A o \in EligibleOps(e) : e.ops[o] = d.ops[o]
  BY <1>2, <1>4 DEF EligibleOps
<1>6. GroupedRows(e) /\ NamedRows(e) /\ QueuedRows(e) /\ OneLive(e) /\ GroupsSound(e)
  <2>1. GroupedRows(e) /\ GroupsSound(e)
    BY <1>1, <1>2, <1>4 DEF Sound, Kept, GroupedRows, GroupsSound, Rows
  <2>2. NamedRows(e)
    BY <1>2, <1>3 DEF Sound, Kept, NamedRows
  <2>3. QueuedRows(e) /\ OneLive(e)
    BY <1>2, <1>4 DEF Sound, Kept, QueuedRows, OneLive, Active
  <2> QED
    BY <2>1, <2>2, <2>3
<1>7. RangesParse(e) /\ NothingBehind(e) /\ ManualHasNoTime(e) /\ Bounded(e.groups)
  BY <1>1, <1>5 DEF Sound, Kept, SameJob, RangesParse, NothingBehind, Gone, ManualHasNoTime
<1>8. KeepsRows(d, e, {})
  BY <1>2, <1>4, <1>5 DEF KeepsRows, KeepsLive, KeepsHeld, HeldIn
<1> QED
  BY <1>1, <1>6, <1>7, <1>8 DEF Sound, Kept, e

\* Two ranges merge into one that parses and counts the occurrences of both.
LEMMA MergeKeeps ==
    ASSUME NEW p \in Pending, NEW q \in Pending, p = NoPending \/ RangeOK(p), RangeOK(q)
    PROVE  /\ Merge(p, q) \in Pending /\ RangeOK(Merge(p, q))
           /\ Merge(p, q).count = p.count + q.count
<1>1. p.count \in Nat /\ p.first \in Nat /\ p.last \in Nat
      /\ q.count \in Nat /\ q.first \in Nat /\ q.last \in Nat
  BY DEF Pending
<1>2. Min({p.first, q.first}) = IF p.first <= q.first THEN p.first ELSE q.first
  BY <1>1, MinOfTwo
<1>3. Max({p.last, q.last}) = IF p.last <= q.last THEN q.last ELSE p.last
  BY <1>1, MaxOfTwo
<1> QED
  BY <1>1, <1>2, <1>3 DEF Merge, RangeOK, Pending, NoPending, NoTime

\* A pending record without an occurrence is no range.
LEMMA NotRange == ~RangeOK(NoPending)
  BY DEF RangeOK, NoPending

\* An occurrence that a live row holds belongs to a vault of the job.
LEMMA HeldBelongs ==
    ASSUME NEW d, Sound(d), NEW o \in EligibleOps(d), d.ops[o].status \in Active
    PROVE  /\ o \in Ops /\ d.ops[o] \in Row /\ d.ops[o].vault \in Vaults
           /\ ~Gone(d, d.ops[o].vault) /\ RangeOK(d.ops[o].due) /\ d.ops[o].due \in Pending
           /\ o \in HeldIn(d, d.ops[o].vault)
           /\ \A q \in HeldIn(d, d.ops[o].vault) : q = o
<1>1. o \in Ops /\ d.ops[o] \in Row
  BY DEF EligibleOps, Sound, Kept, Tables
<1>2. d.ops[o].vault \in Vaults
  BY <1>1 DEF Sound, Kept, NamedRows, Free, Active
<1>3. ~Gone(d, d.ops[o].vault) /\ RangeOK(d.ops[o].due)
  BY DEF Sound, Kept, NothingBehind, RangesParse
<1>4. d.ops[o].due \in Pending
  BY <1>1 DEF Row
<1>5. o \in HeldIn(d, d.ops[o].vault) /\ \A q \in HeldIn(d, d.ops[o].vault) : q = o
  BY <1>1 DEF Sound, Kept, OneLive, HeldIn, EligibleOps
<1> QED
  BY <1>1, <1>2, <1>3, <1>4, <1>5

----------------------------------------------------------------------------
(* Giving occurrences back.                                                 *)

\* The occurrences of S have gone back to their pairs, those of the others stay.
GivenBack(d, e, S) ==
    \A v \in Vaults :
        /\ HeldIn(d, v) \cap S = {} => e.pend[v] = d.pend[v]
        /\ \A o \in HeldIn(d, v) \cap S : e.pend[v].count = d.pend[v].count + d.ops[o].due.count

(* Interrupting live rows in one transaction, in the order of no row.       *)
LEMMA InterruptSettles ==
    ASSUME NEW d, Sound(d), NEW S \in SUBSET Ops, \A o \in S : d.ops[o].status \in Active
    PROVE  LET e == InterruptAll(d, S)
           IN  /\ Sound(e) /\ SameJob(d, e)
               /\ KeepsRows(d, e, S) /\ GivenBack(d, e, S)
<1> DEFINE back == S \cap EligibleOps(d)
           given(v) == {o \in back : d.ops[o].vault = v}
           row(o) == IF o \notin S THEN d.ops[o]
                     ELSE [d.ops[o] EXCEPT !.status = "interrupted", !.native = "none",
                               !.rest = IF o \in back THEN "restored" ELSE @]
           pend(v) == IF given(v) = {} THEN d.pend[v]
                      ELSE Merge(d.pend[v], d.ops[CHOOSE o \in given(v) : TRUE].due)
           c == [d EXCEPT !.ops = [o \in Ops |-> row(o)], !.pend = [v \in Vaults |-> pend(v)]]
<1>1. InterruptAll(d, S) = IF back = {} THEN Forget(c) ELSE Reconcile(Forget(c))
  BY DEF InterruptAll
<1>2. \A v \in Vaults : given(v) = HeldIn(d, v) \cap S
  BY DEF HeldIn, EligibleOps
<1>3. \A o \in Ops : d.ops[o] \in Row
  BY DEF Sound, Kept, Tables
<1>4. \A v \in Vaults : d.pend[v] \in Pending /\ (d.pend[v] = NoPending \/ RangeOK(d.pend[v]))
  BY DEF Sound, Kept, Tables, RangesParse
<1>5. ASSUME NEW v \in Vaults, NEW o \in HeldIn(d, v) \cap S
      PROVE  /\ pend(v) = Merge(d.pend[v], d.ops[o].due)
             /\ d.ops[o].due \in Pending /\ RangeOK(d.ops[o].due)
             /\ ~Gone(d, v)
  <2>1. o \in EligibleOps(d) /\ d.ops[o].status \in Active /\ d.ops[o].vault = v
    BY <1>5 DEF HeldIn
  <2>2. \A q \in HeldIn(d, v) : q = o
    BY <2>1, HeldBelongs
  <2>3. (CHOOSE q \in given(v) : TRUE) = o
    BY <1>2, <1>5, <2>2
  <2> QED
    BY <1>2, <1>5, <2>1, <2>3, HeldBelongs
<1>6. \A v \in Vaults : pend(v) \in Pending /\ (pend(v) = NoPending \/ RangeOK(pend(v)))
  <2> TAKE v \in Vaults
  <2>1. CASE given(v) = {}
    BY <1>4, <2>1
  <2>2. CASE given(v) # {}
    <3>1. PICK o \in HeldIn(d, v) \cap S : TRUE
      BY <1>2, <2>2
    <3> QED
      BY <1>4, <1>5, <3>1, MergeKeeps
  <2> QED
    BY <2>1, <2>2
<1>7. \A o \in Ops : row(o) \in Row
  BY <1>3 DEF Row
<1>8. \A o \in Ops : /\ o \notin S => row(o) = d.ops[o]
                     /\ o \in S => row(o).status = "interrupted"
                     /\ o \in S => row(o).rest # "eligible"
                     /\ row(o).vault = d.ops[o].vault /\ row(o).gen = d.ops[o].gen
                     /\ row(o).rest = "none" <=> d.ops[o].rest = "none"
  BY <1>3 DEF Row, EligibleOps
<1>9. /\ c \in Tables /\ SameJob(d, c) /\ c.groups = d.groups
      /\ \A o \in Ops : c.ops[o] = row(o)
      /\ \A v \in Vaults : c.pend[v] = pend(v)
  <2> HIDE DEF row, pend
  <2> QED
    BY <1>6, <1>7 DEF Sound, Kept, Tables, SameJob
<1>10. \A v \in Vaults : given(v) = {} => pend(v) = d.pend[v]
  OBVIOUS
<1> HIDE DEF c, row, pend, given, back
<1>11. EligibleOps(c) = EligibleOps(d) \ S
  BY <1>8, <1>9 DEF EligibleOps
<1>12. Sound(c)
  <2>1. GroupedRows(c) /\ GroupsSound(c)
    BY <1>8, <1>9 DEF Sound, Kept, GroupedRows, GroupsSound, Rows
  <2>2. NamedRows(c)
    <3>1. \A o \in S : d.ops[o].vault \in Vaults
      BY DEF Sound, Kept, NamedRows, Free, Active
    <3> QED
      BY <1>8, <1>9, <3>1 DEF Sound, Kept, NamedRows
  <2>3. QueuedRows(c) /\ OneLive(c)
    BY <1>8, <1>9 DEF Sound, Kept, QueuedRows, OneLive, Active
  <2>4. RangesParse(c)
    BY <1>6, <1>8, <1>9, <1>11 DEF Sound, Kept, RangesParse, EligibleOps
  <2>5. NothingBehind(c)
    <3>1. \A v \in Vaults : Gone(d, v) => given(v) = {}
      BY <1>2, <1>5
    <3> QED
      BY <1>8, <1>9, <1>10, <1>11, <3>1 DEF Sound, Kept, NothingBehind, Gone, SameJob, EligibleOps
  <2> QED
    BY <1>9, <2>1, <2>2, <2>3, <2>4, <2>5 DEF Sound, Kept, SameJob, ManualHasNoTime
<1>13. KeepsRows(d, c, S)
  BY <1>8, <1>9, <1>11 DEF KeepsRows, KeepsLive, KeepsHeld, HeldIn, Active, EligibleOps
<1>14. GivenBack(d, c, S)
  <2>1. ASSUME NEW v \in Vaults, NEW o \in HeldIn(d, v) \cap S
        PROVE  c.pend[v].count = d.pend[v].count + d.ops[o].due.count
    BY <1>4, <1>5, <1>9, MergeKeeps
  <2>2. \A v \in Vaults : HeldIn(d, v) \cap S = {} => c.pend[v] = d.pend[v]
    BY <1>2, <1>9, <1>10
  <2> QED
    BY <2>1, <2>2 DEF GivenBack
<1>15. /\ Sound(Forget(c)) /\ SameJob(d, Forget(c)) /\ Forget(c).pend = c.pend
       /\ KeepsRows(d, Forget(c), S)
  BY <1>9, <1>12, <1>13, ForgetSettles, KeepsCompose, S \cup {} = S DEF SameJob
<1>16. /\ Sound(Reconcile(Forget(c))) /\ SameJob(d, Reconcile(Forget(c)))
       /\ Reconcile(Forget(c)).pend = c.pend /\ KeepsRows(d, Reconcile(Forget(c)), S)
  BY <1>15, ReconcileSettles, KeepsCompose, S \cup {} = S DEF SameJob
<1> QED
  BY <1>1, <1>14, <1>15, <1>16 DEF GivenBack

\* The occurrence of a running row that is put back, its run going on to its end.
LEMMA PutBackSettles ==
    ASSUME NEW d, Sound(d), NEW o \in EligibleOps(d), d.ops[o].status = "running"
    PROVE  LET e == PutBack(d, o)
           IN  /\ Sound(e) /\ SameJob(d, e)
               /\ KeepsLive(d, e, {}) /\ KeepsHeld(d, e, {o}) /\ GivenBack(d, e, {o})
<1> DEFINE u == d.ops[o].vault
           c == [d EXCEPT !.pend[u] = Merge(@, d.ops[o].due), !.ops[o].rest = "restored"]
<1>1. /\ o \in Ops /\ d.ops[o] \in Row /\ u \in Vaults /\ ~Gone(d, u)
      /\ RangeOK(d.ops[o].due) /\ d.ops[o].due \in Pending
      /\ o \in HeldIn(d, u) /\ \A q \in HeldIn(d, u) : q = o
  BY HeldBelongs DEF Active
<1>2. d.pend[u] \in Pending /\ (d.pend[u] = NoPending \/ RangeOK(d.pend[u]))
  BY <1>1 DEF Sound, Kept, Tables, RangesParse
<1>3. /\ Merge(d.pend[u], d.ops[o].due) \in Pending /\ RangeOK(Merge(d.pend[u], d.ops[o].due))
      /\ Merge(d.pend[u], d.ops[o].due).count = d.pend[u].count + d.ops[o].due.count
  BY <1>1, <1>2, MergeKeeps
<1>4. [d.ops[o] EXCEPT !.rest = "restored"] \in Row
  BY <1>1 DEF Row
<1>5. /\ c \in Tables /\ SameJob(d, c) /\ c.groups = d.groups
      /\ \A q \in Ops \ {o} : c.ops[q] = d.ops[q]
      /\ c.ops[o] = [d.ops[o] EXCEPT !.rest = "restored"]
      /\ \A v \in Vaults \ {u} : c.pend[v] = d.pend[v]
      /\ c.pend[u] = Merge(d.pend[u], d.ops[o].due)
  <2> HIDE DEF u
  <2> QED
    BY <1>1, <1>3, <1>4 DEF Sound, Kept, Tables, SameJob
<1>6. PutBack(d, o) = Reconcile(c)
  BY DEF PutBack
<1> HIDE DEF c
<1> HIDE DEF u
<1>7. /\ c.ops[o].rest = "restored" /\ d.ops[o].rest = "eligible"
      /\ \A q \in Ops : q # o => c.ops[q].rest = d.ops[q].rest /\ c.ops[q].due = d.ops[q].due
      /\ \A q \in Ops : /\ c.ops[q].status = d.ops[q].status /\ c.ops[q].vault = d.ops[q].vault
                        /\ c.ops[q].gen = d.ops[q].gen /\ c.ops[q].native = d.ops[q].native
                        /\ c.ops[q].rest = "none" <=> d.ops[q].rest = "none"
  BY <1>1, <1>5 DEF Row, EligibleOps
<1>8. EligibleOps(c) = EligibleOps(d) \ {o}
  BY <1>7 DEF EligibleOps
<1>9. Sound(c)
  <2>1. GroupedRows(c) /\ GroupsSound(c)
    BY <1>5, <1>7, <1>8 DEF Sound, Kept, GroupedRows, GroupsSound, Rows
  <2>2. NamedRows(c) /\ QueuedRows(c) /\ OneLive(c)
    <3>1. c.ops[o].vault \in Vaults /\ \A q \in Ops : q # o => c.ops[q] = d.ops[q]
      BY <1>1, <1>5, <1>7 DEF u
    <3>2. NamedRows(c)
      BY <3>1 DEF Sound, Kept, NamedRows
    <3> QED
      BY <1>7, <3>1, <3>2 DEF Sound, Kept, QueuedRows, OneLive, Active
  <2>3. RangesParse(c)
    BY <1>3, <1>5, <1>7, <1>8 DEF Sound, Kept, RangesParse, EligibleOps
  <2>4. NothingBehind(c)
    BY <1>1, <1>5, <1>7, <1>8 DEF Sound, Kept, NothingBehind, Gone, SameJob, EligibleOps
  <2> QED
    BY <1>5, <2>1, <2>2, <2>3, <2>4 DEF Sound, Kept, SameJob, ManualHasNoTime
<1>10. KeepsLive(d, c, {}) /\ KeepsHeld(d, c, {o})
  BY <1>1, <1>5, <1>7, <1>8 DEF KeepsLive, KeepsHeld, HeldIn, EligibleOps
<1>11. GivenBack(d, c, {o})
  BY <1>1, <1>3, <1>5 DEF GivenBack, HeldIn, u
<1>12. /\ Sound(Reconcile(c)) /\ SameJob(c, Reconcile(c)) /\ Reconcile(c).pend = c.pend
       /\ KeepsRows(c, Reconcile(c), {})
  BY <1>9, ReconcileSettles
<1>13. KeepsLive(d, Reconcile(c), {})
  BY <1>10, <1>12 DEF KeepsLive, KeepsRows
<1>14. KeepsHeld(d, Reconcile(c), {o})
  BY <1>10, <1>12 DEF KeepsHeld, KeepsRows
<1> QED
  BY <1>5, <1>6, <1>11, <1>12, <1>13, <1>14 DEF GivenBack, SameJob

----------------------------------------------------------------------------
(* Using them up: an outcome of their own, or the notice.                   *)

(* e is d with the occurrences of S consumed: their rows say so, and every  *)
(* group that had one of them has started.                                  *)
ConsumedOf(d, e, S) ==
    /\ e \in Tables /\ SameJob(d, e) /\ e.pend = d.pend
    /\ \A o \in Ops :
        /\ o \notin S => e.ops[o] = d.ops[o]
        /\ o \in S => e.ops[o].rest = "started"
        /\ e.ops[o].status = d.ops[o].status /\ e.ops[o].native = d.ops[o].native
        /\ e.ops[o].vault = d.ops[o].vault /\ e.ops[o].gen = d.ops[o].gen
    /\ \A g \in e.groups : \E h \in d.groups : h.gen = g.gen /\ (h.started => g.started)
    /\ \A h \in d.groups : \E g \in e.groups : h.gen = g.gen

\* Sound tables stay sound when running rows use their occurrences up.
LEMMA ConsumedSound ==
    ASSUME NEW d, Sound(d), NEW S \in SUBSET EligibleOps(d), NEW e, ConsumedOf(d, e, S),
           \A o \in S : d.ops[o].status = "running"
    PROVE  Sound(e) /\ KeepsLive(d, e, {}) /\ KeepsHeld(d, e, S)
<1>1. \A o \in Ops : e.ops[o].rest = "none" <=> d.ops[o].rest = "none"
  BY DEF ConsumedOf, EligibleOps
<1>2. EligibleOps(e) = EligibleOps(d) \ S
  BY DEF ConsumedOf, EligibleOps
<1>3. Bounded(e.groups)
  BY DEF ConsumedOf, Sound, Kept, Bounded
<1>4. GroupedRows(e)
  <2> SUFFICES ASSUME NEW o \in Ops, e.ops[o].rest # "none"
               PROVE  \E g \in e.groups : g.gen = e.ops[o].gen
    BY DEF GroupedRows
  <2>1. PICK h \in d.groups : h.gen = d.ops[o].gen
    BY <1>1 DEF Sound, Kept, GroupedRows
  <2> QED
    BY <2>1 DEF ConsumedOf
<1>5. GroupsSound(e)
  <2> SUFFICES ASSUME NEW g \in e.groups, ~g.started PROVE Rows(e, g) # {}
    BY DEF GroupsSound
  <2>1. PICK h \in d.groups : h.gen = g.gen /\ ~h.started
    BY DEF ConsumedOf
  <2>2. PICK o \in Rows(d, h) : TRUE
    BY <2>1 DEF Sound, GroupsSound
  <2>3. o \in Rows(e, g)
    BY <1>1, <2>1, <2>2 DEF ConsumedOf, Rows
  <2> QED
    BY <2>3
<1>6. NamedRows(e)
  BY DEF ConsumedOf, Sound, Kept, NamedRows, Free, EligibleOps
<1>7. QueuedRows(e) /\ OneLive(e)
  BY DEF ConsumedOf, Sound, Kept, QueuedRows, OneLive
<1>8. RangesParse(e) /\ NothingBehind(e) /\ ManualHasNoTime(e)
  BY <1>2 DEF ConsumedOf, Sound, Kept, RangesParse, NothingBehind, Gone, SameJob, ManualHasNoTime,
     EligibleOps
<1>9. KeepsLive(d, e, {}) /\ KeepsHeld(d, e, S)
  BY <1>2 DEF ConsumedOf, KeepsLive, KeepsHeld, HeldIn, EligibleOps
<1> QED
  BY <1>3, <1>4, <1>5, <1>6, <1>7, <1>8, <1>9 DEF Sound, Kept, ConsumedOf

\* A run with an outcome of its own uses its occurrence up.
LEMMA ConsumeSettles ==
    ASSUME NEW d, Sound(d), NEW o \in Ops, d.ops[o].status = "running"
    PROVE  LET e == Consume(d, o)
           IN  /\ Sound(e) /\ SameJob(d, e) /\ e.pend = d.pend
               /\ KeepsLive(d, e, {}) /\ KeepsHeld(d, e, {o})
<1>1. CASE d.ops[o].rest # "eligible"
  BY <1>1 DEF Consume, SameJob, KeepsLive, KeepsHeld, HeldIn, EligibleOps
<1>2. CASE d.ops[o].rest = "eligible"
  <2> DEFINE group(g) == IF g.gen = d.ops[o].gen THEN [g EXCEPT !.started = TRUE] ELSE g
             G == {group(g) : g \in d.groups}
             c == [d EXCEPT !.ops[o].rest = "started", !.groups = G]
  <2>1. Consume(d, o) = Reconcile(c)
    BY <1>2 DEF Consume
  <2>2. \A g \in d.groups : group(g) \in Group /\ group(g).gen = g.gen /\ (g.started => group(g).started)
    BY DEF Sound, Kept, Tables, Group
  <2>3. d.ops[o] \in Row /\ [d.ops[o] EXCEPT !.rest = "started"] \in Row
    BY DEF Sound, Kept, Tables, Row
  <2>4. /\ c \in Tables /\ SameJob(d, c) /\ c.pend = d.pend
        /\ c.groups = G
        /\ \A q \in Ops : q # o => c.ops[q] = d.ops[q]
        /\ c.ops[o] = [d.ops[o] EXCEPT !.rest = "started"]
    <3>1. G \in SUBSET Group
      BY <2>2
    <3>2. d \in Tables
      BY DEF Sound, Kept
    <3> HIDE DEF G
    <3> QED
      BY <2>3, <3>1, <3>2 DEF Tables, SameJob
  <2> HIDE DEF c, group
  <2>5. /\ c.ops[o].rest = "started" /\ c.ops[o].status = d.ops[o].status
        /\ c.ops[o].native = d.ops[o].native /\ c.ops[o].vault = d.ops[o].vault
        /\ c.ops[o].gen = d.ops[o].gen
    BY <2>3, <2>4 DEF Row
  <2>6. ConsumedOf(d, c, {o})
    <3>1. /\ \A g \in c.groups : \E h \in d.groups : h.gen = g.gen /\ (h.started => g.started)
          /\ \A h \in d.groups : \E g \in c.groups : h.gen = g.gen
      BY <2>2, <2>4
    <3> QED
      BY <2>4, <2>5, <3>1 DEF ConsumedOf
  <2>7. {o} \in SUBSET EligibleOps(d)
    BY <1>2 DEF EligibleOps
  <2>8. Sound(c) /\ KeepsLive(d, c, {}) /\ KeepsHeld(d, c, {o})
    BY <2>6, <2>7, ConsumedSound
  <2>9. /\ Sound(Reconcile(c)) /\ SameJob(c, Reconcile(c)) /\ Reconcile(c).pend = c.pend
        /\ KeepsRows(c, Reconcile(c), {})
    BY <2>8, ReconcileSettles
  <2>10. KeepsLive(d, Reconcile(c), {}) /\ KeepsHeld(d, Reconcile(c), {o})
    BY <2>8, <2>9 DEF KeepsLive, KeepsHeld, KeepsRows
  <2> QED
    BY <2>1, <2>4, <2>9, <2>10 DEF SameJob
<1> QED
  BY <1>1, <1>2

\* The notice uses up the occurrence of its row and what waits behind it.
LEMMA EscalateSettles ==
    ASSUME NEW d, Sound(d), NEW o \in EligibleOps(d), d.ops[o].status = "running"
    PROVE  LET e == Escalate(d, o)
           IN  /\ Sound(e) /\ SameJob(d, e)
               /\ \A v \in Vaults : e.pend[v] = IF v = d.ops[o].vault THEN NoPending ELSE d.pend[v]
               /\ KeepsLive(d, e, {}) /\ KeepsHeld(d, e, {o})
<1> DEFINE c == [d EXCEPT !.pend[d.ops[o].vault] = NoPending]
<1>1. o \in Ops /\ d.ops[o].vault \in Vaults
  BY HeldBelongs DEF Active
<1>2. /\ c \in Tables /\ SameJob(d, c) /\ c.ops = d.ops /\ c.groups = d.groups
      /\ \A v \in Vaults : c.pend[v] = IF v = d.ops[o].vault THEN NoPending ELSE d.pend[v]
  BY <1>1, NoPendingType DEF Sound, Kept, Tables, SameJob
<1>3. Escalate(d, o) = Consume(c, o)
  BY DEF Escalate
<1> HIDE DEF c
<1>4. Sound(c)
  BY <1>2 DEF Sound, Kept, SameJob, GroupsSound, Rows, GroupedRows, NamedRows,
     RangesParse, QueuedRows, OneLive, NothingBehind, Gone, ManualHasNoTime, EligibleOps
<1>5. KeepsRows(d, c, {})
  BY <1>2 DEF KeepsRows, KeepsLive, KeepsHeld, HeldIn, EligibleOps
<1>6. c.ops[o].status = "running"
  BY <1>2
<1>7. /\ Sound(Consume(c, o)) /\ SameJob(c, Consume(c, o)) /\ Consume(c, o).pend = c.pend
      /\ KeepsLive(c, Consume(c, o), {}) /\ KeepsHeld(c, Consume(c, o), {o})
  BY <1>1, <1>4, <1>6, ConsumeSettles
<1>8. KeepsLive(d, Consume(c, o), {}) /\ KeepsHeld(d, Consume(c, o), {o})
  BY <1>5, <1>7 DEF KeepsLive, KeepsHeld, KeepsRows
<1> QED
  BY <1>2, <1>3, <1>7, <1>8 DEF SameJob

\* The rows whose native backup is durably started before their outcome is known.
StartedHeld(d) ==
    {o \in EligibleOps(d) : d.ops[o].status = "running" /\ d.ops[o].native \in StepDurable}

\* Migrate uses up what the crashed runs had durably started.
LEMMA ConsumeStartedSettles ==
    ASSUME NEW d, Sound(d)
    PROVE  LET e == ConsumeStarted(d)
           IN  /\ Sound(e) /\ SameJob(d, e) /\ e.pend = d.pend
               /\ KeepsLive(d, e, {}) /\ KeepsHeld(d, e, StartedHeld(d))
<1> DEFINE row(o) == IF o \in StartedHeld(d) THEN [d.ops[o] EXCEPT !.rest = "started"] ELSE d.ops[o]
           c == [d EXCEPT !.ops = [o \in Ops |-> row(o)]]
           group(g) == [g EXCEPT !.started = @ \/ \E o \in Rows(c, g) : c.ops[o].rest = "started"]
           e == [c EXCEPT !.groups = {group(g) : g \in c.groups}]
<1>1. ConsumeStarted(d) = e
  BY DEF ConsumeStarted, StartedHeld
<1>2. \A o \in Ops : d.ops[o] \in Row /\ row(o) \in Row
  BY DEF Sound, Kept, Tables, Row
<1>3. /\ c \in Tables /\ SameJob(d, c) /\ c.pend = d.pend /\ c.groups = d.groups
      /\ \A o \in Ops : c.ops[o] = row(o)
  <2> HIDE DEF row
  <2> QED
    BY <1>2 DEF Sound, Kept, Tables, SameJob
<1> HIDE DEF c
<1>4. \A g \in d.groups : g \in Group /\ g.started \in BOOLEAN
  BY DEF Sound, Kept, Tables, Group
<1>5. ASSUME NEW g \in d.groups
      PROVE  group(g) \in Group /\ group(g).gen = g.gen /\ (g.started => group(g).started)
  <2> DEFINE b == \E o \in Rows(c, g) : c.ops[o].rest = "started"
  <2>1. b \in BOOLEAN
    OBVIOUS
  <2> HIDE DEF b
  <2>2. /\ [g EXCEPT !.started = @ \/ b] \in Group
        /\ [g EXCEPT !.started = @ \/ b].gen = g.gen
        /\ g.started => [g EXCEPT !.started = @ \/ b].started
    BY <1>4, <2>1 DEF Group
  <2> QED
    BY <2>2 DEF b
<1>6. /\ e \in Tables /\ SameJob(d, e) /\ e.pend = d.pend /\ e.ops = c.ops
      /\ e.groups = {group(g) : g \in d.groups}
  <2> HIDE DEF group
  <2> QED
    BY <1>3, <1>5 DEF Tables, SameJob
<1> HIDE DEF e, group
<1>7. ConsumedOf(d, e, StartedHeld(d))
  <2>1. \A o \in Ops :
        /\ o \notin StartedHeld(d) => row(o) = d.ops[o]
        /\ o \in StartedHeld(d) => row(o).rest = "started"
        /\ row(o).status = d.ops[o].status /\ row(o).native = d.ops[o].native
        /\ row(o).vault = d.ops[o].vault /\ row(o).gen = d.ops[o].gen
    BY <1>2 DEF Row
  <2> HIDE DEF row
  <2>2. \A o \in Ops : e.ops[o] = row(o)
    BY <1>3, <1>6
  <2>3. /\ \A g \in e.groups : \E h \in d.groups : h.gen = g.gen /\ (h.started => g.started)
        /\ \A h \in d.groups : \E g \in e.groups : h.gen = g.gen
    BY <1>5, <1>6
  <2> QED
    BY <1>6, <2>1, <2>2, <2>3 DEF ConsumedOf
<1>8. StartedHeld(d) \in SUBSET EligibleOps(d) /\ \A o \in StartedHeld(d) : d.ops[o].status = "running"
  BY DEF StartedHeld
<1>9. Sound(e) /\ KeepsLive(d, e, {}) /\ KeepsHeld(d, e, StartedHeld(d))
  BY <1>7, <1>8, ConsumedSound
<1> QED
  BY <1>1, <1>6, <1>9

----------------------------------------------------------------------------
(* Migrate, and edits of one row.                                           *)

\* Dropping the empty groups makes tables sound that are kept otherwise.
LEMMA DropSettles ==
    ASSUME NEW d, Kept(d)
    PROVE  LET e == DropEmptyGroups(d)
           IN  Sound(e) /\ SameJob(d, e) /\ e.pend = d.pend /\ e.ops = d.ops
<1> DEFINE e == DropEmptyGroups(d)
<1>1. /\ e \in Tables /\ SameJob(d, e) /\ e.pend = d.pend /\ e.ops = d.ops
      /\ e.groups = {g \in d.groups : g.started \/ Rows(d, g) # {}}
  BY DEF DropEmptyGroups, Kept, Tables, SameJob
<1> HIDE DEF e
<1>2. \A g \in d.groups : Rows(e, g) = Rows(d, g)
  BY <1>1 DEF Rows
<1>3. GroupsSound(e)
  BY <1>1, <1>2 DEF GroupsSound
<1>4. GroupedRows(e)
  BY <1>1 DEF Kept, GroupedRows, Rows
<1>5. Kept(e)
  BY <1>1, <1>4 DEF Kept, Bounded, SameJob, NamedRows, RangesParse, QueuedRows, OneLive,
     NothingBehind, Gone, ManualHasNoTime, EligibleOps
<1> QED
  BY <1>1, <1>3, <1>5 DEF Sound, e

\* Sound tables have no empty group to drop.
LEMMA DropNothing ==
    ASSUME NEW d, Sound(d)
    PROVE  DropEmptyGroups(d) = d
<1>1. {g \in d.groups : g.started \/ Rows(d, g) # {}} = d.groups
  BY DEF Sound, GroupsSound
<1> QED
  BY <1>1 DEF DropEmptyGroups, Sound, Kept, Tables

\* Migrate interrupts the runs that are left, which hold no occurrence.
LEMMA InterruptRunningSettles ==
    ASSUME NEW d, Sound(d), \A v \in Vaults : HeldIn(d, v) = {}
    PROVE  LET e == InterruptRunning(d)
           IN  /\ Sound(e) /\ SameJob(d, e) /\ e.pend = d.pend
               /\ \A v \in Vaults : HeldIn(e, v) = {}
<1> DEFINE row(o) == IF d.ops[o].status = "running"
                     THEN [d.ops[o] EXCEPT !.status = "interrupted", !.native = "none"]
                     ELSE d.ops[o]
           c == [d EXCEPT !.ops = [o \in Ops |-> row(o)]]
<1>1. InterruptRunning(d) = Forget(c)
  BY DEF InterruptRunning
<1>2. \A o \in Ops : d.ops[o] \in Row /\ row(o) \in Row
  <2> SUFFICES ASSUME NEW o \in Ops PROVE d.ops[o] \in Row /\ row(o) \in Row
    OBVIOUS
  <2>1. d.ops[o] \in Row
    BY DEF Sound, Kept, Tables
  <2>2. [d.ops[o] EXCEPT !.status = "interrupted", !.native = "none"] \in Row
    BY <2>1 DEF Row
  <2> QED
    BY <2>1, <2>2
<1>3. \A o \in Ops : /\ row(o).rest = d.ops[o].rest /\ row(o).gen = d.ops[o].gen
                     /\ row(o).vault = d.ops[o].vault /\ row(o).due = d.ops[o].due
                     /\ d.ops[o].status # "running" => row(o) = d.ops[o]
                     /\ d.ops[o].status = "running" => row(o).status = "interrupted"
  BY <1>2 DEF Row
<1>4. /\ c \in Tables /\ SameJob(d, c) /\ c.pend = d.pend /\ c.groups = d.groups
      /\ \A o \in Ops : c.ops[o] = row(o)
  <2> HIDE DEF row
  <2> QED
    BY <1>2 DEF Sound, Kept, Tables, SameJob
<1> HIDE DEF c, row
<1>5. EligibleOps(c) = EligibleOps(d)
  BY <1>3, <1>4 DEF EligibleOps
<1>6. Sound(c)
  <2>1. GroupedRows(c) /\ GroupsSound(c)
    BY <1>3, <1>4 DEF Sound, Kept, GroupedRows, GroupsSound, Rows
  <2>2. NamedRows(c)
    BY <1>3, <1>4 DEF Sound, Kept, NamedRows, Free
  <2>3. QueuedRows(c) /\ OneLive(c)
    BY <1>3, <1>4 DEF Sound, Kept, QueuedRows, OneLive, Active
  <2>4. RangesParse(c) /\ NothingBehind(c)
    BY <1>3, <1>4, <1>5 DEF Sound, Kept, RangesParse, NothingBehind, Gone, SameJob, EligibleOps,
       Active
  <2> QED
    BY <1>4, <2>1, <2>2, <2>3, <2>4 DEF Sound, Kept, SameJob, ManualHasNoTime
<1>7. \A v \in Vaults : HeldIn(c, v) = {}
  BY <1>3, <1>4, <1>5 DEF HeldIn, EligibleOps, Active
<1>8. /\ Sound(Forget(c)) /\ SameJob(c, Forget(c)) /\ Forget(c).pend = c.pend
      /\ KeepsRows(c, Forget(c), {})
  BY <1>6, ForgetSettles
<1> QED
  BY <1>1, <1>4, <1>7, <1>8 DEF SameJob, KeepsRows, KeepsHeld

\* What may still be put back was never launched; the rest has run.
LEMMA MigrateSettles ==
    ASSUME NEW d, Sound(d)
    PROVE  /\ MigrateAccepts(d)
           /\ Sound(Migrate(d)) /\ SameJob(d, Migrate(d))
           /\ \A v \in Vaults : HeldIn(Migrate(d), v) = {}
           /\ GivenBack(d, Migrate(d), Unstarted(d))
<1> DEFINE S == Unstarted(d)
           i == InterruptAll(d, S)
           c == ConsumeStarted(i)
           r == Reconcile(c)
<1>1. DropEmptyGroups(d) = d
  BY DropNothing
<1>2. S \in SUBSET Ops /\ \A o \in S : d.ops[o].status \in Active
  BY DEF Unstarted, Active
<1>3. Sound(i) /\ SameJob(d, i) /\ KeepsRows(d, i, S) /\ GivenBack(d, i, S)
  BY <1>2, InterruptSettles
<1>4. Sound(c) /\ SameJob(i, c) /\ c.pend = i.pend
      /\ KeepsLive(i, c, {}) /\ KeepsHeld(i, c, StartedHeld(i))
  BY <1>3, ConsumeStartedSettles
<1>5. Sound(r) /\ SameJob(c, r) /\ r.pend = c.pend /\ KeepsRows(c, r, {})
  BY <1>4, ReconcileSettles
<1>6. Migrate(d) = InterruptRunning(r)
  BY <1>1 DEF Migrate
<1>7. ASSUME NEW o \in S PROVE MayInterrupt(d, o)
  <2>1. d.ops[o].status = "queued" => d.ops[o].rest \in {"none", "eligible"}
    BY <1>2, <1>7 DEF Sound, Kept, QueuedRows
  <2>2. d.ops[o].rest = "none" \/ d.ops[o].rest = "eligible"
    BY <1>7, <2>1 DEF Unstarted
  <2>3. CASE d.ops[o].rest = "eligible"
    <3>1. o \in EligibleOps(d) /\ d.ops[o].status \in Active
      BY <1>2, <1>7, <2>3 DEF EligibleOps
    <3>2. d.ops[o].vault \in Vaults /\ RangeOK(d.ops[o].due)
      BY <3>1, HeldBelongs
    <3>3. MayPutBack(d, o)
      BY <2>3, <3>2 DEF MayPutBack, Sound, Kept, RangesParse
    <3> QED
      BY <1>7, <3>3 DEF MayInterrupt, Unstarted
  <2> QED
    BY <1>7, <2>2, <2>3 DEF MayInterrupt, Unstarted
<1>8. MigrateAccepts(d)
  BY <1>1, <1>4, <1>7 DEF MigrateAccepts, Sound
<1> HIDE DEF c, r, i
<1>9. \A v \in Vaults : HeldIn(r, v) = {}
  <2> SUFFICES ASSUME NEW v \in Vaults, NEW o \in HeldIn(r, v) PROVE FALSE
    OBVIOUS
  <2>1. o \in HeldIn(c, v)
    BY <1>5 DEF KeepsRows, KeepsHeld
  <2>2. o \in HeldIn(i, v) /\ o \notin StartedHeld(i)
    BY <1>4, <2>1 DEF KeepsHeld
  <2>3. o \in HeldIn(d, v) /\ o \notin S
    BY <1>3, <2>2 DEF KeepsRows, KeepsHeld
  <2>4. i.ops[o].status = d.ops[o].status /\ i.ops[o].native = d.ops[o].native
    BY <1>3, <2>3 DEF KeepsRows, KeepsLive, HeldIn, EligibleOps
  <2>5. d.ops[o].status = "running" /\ d.ops[o].native \in StepDurable
    BY <2>3 DEF HeldIn, EligibleOps, Unstarted, Active
  <2> QED
    BY <2>2, <2>4, <2>5 DEF StartedHeld, HeldIn
<1>10. /\ Sound(Migrate(d)) /\ SameJob(r, Migrate(d)) /\ Migrate(d).pend = r.pend
       /\ \A v \in Vaults : HeldIn(Migrate(d), v) = {}
  BY <1>5, <1>6, <1>9, InterruptRunningSettles
<1>11. SameJob(d, Migrate(d))
  BY <1>3, <1>4, <1>5, <1>10 DEF SameJob
<1>12. GivenBack(d, Migrate(d), S)
  BY <1>3, <1>4, <1>5, <1>10 DEF GivenBack
<1> QED
  BY <1>8, <1>10, <1>11, <1>12

(* e is d where the live row o has another status and native step.          *)
RowEdit(d, e, o, s, n) ==
    /\ e \in Tables /\ SameJob(d, e) /\ e.pend = d.pend /\ e.groups = d.groups
    /\ \A q \in Ops : q # o => e.ops[q] = d.ops[q]
    /\ e.ops[o].status = s /\ e.ops[o].native = n
    /\ e.ops[o].rest = d.ops[o].rest /\ e.ops[o].gen = d.ops[o].gen
    /\ e.ops[o].vault = d.ops[o].vault /\ e.ops[o].due = d.ops[o].due

\* A run whose row goes on running keeps its occurrence; one that is over has none.
LEMMA RowEditSettles ==
    ASSUME NEW d, Sound(d), NEW o \in Ops, d.ops[o].status \in Active, NEW e, NEW s, NEW n,
           RowEdit(d, e, o, s, n), s # "queued"
    PROVE  /\ Sound(e) /\ KeepsLive(d, e, {o})
           /\ s = "running" => KeepsHeld(d, e, {})
           /\ s \notin Active => KeepsHeld(d, e, {o})
<1>1. EligibleOps(e) = EligibleOps(d)
  BY DEF RowEdit, EligibleOps
<1>2. GroupedRows(e) /\ GroupsSound(e)
  <2>1. \A q \in Ops : e.ops[q].rest = d.ops[q].rest /\ e.ops[q].gen = d.ops[q].gen
    BY DEF RowEdit
  <2> QED
    BY <2>1 DEF RowEdit, Sound, Kept, GroupedRows, GroupsSound, Rows
<1>3. NamedRows(e)
  BY DEF RowEdit, Sound, Kept, NamedRows, Free, Active
<1>4. QueuedRows(e) /\ OneLive(e)
  BY DEF RowEdit, Sound, Kept, QueuedRows, OneLive
<1>5. \A q \in EligibleOps(d) : /\ e.ops[q].due = d.ops[q].due /\ e.ops[q].vault = d.ops[q].vault
                                /\ e.ops[q].status \in Active => d.ops[q].status \in Active
  BY DEF RowEdit, EligibleOps
<1>6. RangesParse(e) /\ NothingBehind(e)
  BY <1>1, <1>5 DEF RowEdit, Sound, Kept, RangesParse, NothingBehind, Gone, SameJob
<1>7. Sound(e)
  BY <1>2, <1>3, <1>4, <1>5, <1>6 DEF RowEdit, Sound, Kept, SameJob, ManualHasNoTime
<1>8. KeepsLive(d, e, {o})
  BY DEF RowEdit, KeepsLive
<1>9. /\ s = "running" => KeepsHeld(d, e, {})
      /\ s \notin Active => KeepsHeld(d, e, {o})
  BY <1>1 DEF RowEdit, KeepsHeld, HeldIn, EligibleOps, Active
<1> QED
  BY <1>7, <1>8, <1>9

\* Only the schedule and the switch of the job change.
LEMMA JobEditSettles ==
    ASSUME NEW d, Sound(d), NEW e, e \in Tables,
           e.manual = d.manual /\ e.targets = d.targets /\ e.pend = d.pend
           /\ e.ops = d.ops /\ e.groups = d.groups,
           d.manual => e.nextRun = d.nextRun
    PROVE  Sound(e) /\ KeepsRows(d, e, {})
  BY DEF Sound, Kept, GroupsSound, Rows, GroupedRows, NamedRows, RangesParse, QueuedRows, OneLive,
     NothingBehind, Gone, ManualHasNoTime, EligibleOps, KeepsRows, KeepsLive, KeepsHeld, HeldIn

\* Retention takes a finished row, and its group if that was its last.
LEMMA PruneSettles ==
    ASSUME NEW d, Sound(d), NEW o \in Ops, d.ops[o].status \notin Active
    PROVE  LET e == DropEmptyGroups([d EXCEPT !.ops[o] = Free])
           IN  /\ Sound(e) /\ SameJob(d, e) /\ e.pend = d.pend /\ KeepsRows(d, e, {})
<1> DEFINE c == [d EXCEPT !.ops[o] = Free]
<1>1. /\ c \in Tables /\ SameJob(d, c) /\ c.pend = d.pend /\ c.groups = d.groups
      /\ \A q \in Ops : q # o => c.ops[q] = d.ops[q]
      /\ c.ops[o] = Free
  BY FreeType DEF Sound, Kept, Tables, SameJob
<1> HIDE DEF c
<1>2. c.ops[o].rest = "none" /\ c.ops[o].status \notin Active
  BY <1>1 DEF Free, Active
<1>3. EligibleOps(c) = EligibleOps(d) \ {o}
  BY <1>1, <1>2 DEF EligibleOps
<1>4. Kept(c)
  <2>1. GroupedRows(c) /\ QueuedRows(c) /\ OneLive(c) /\ NamedRows(c)
    BY <1>1, <1>2 DEF Sound, Kept, GroupedRows, NamedRows, QueuedRows, OneLive, Active
  <2>2. RangesParse(c) /\ NothingBehind(c)
    BY <1>1, <1>2, <1>3 DEF Sound, Kept, RangesParse, NothingBehind, Gone, SameJob, EligibleOps
  <2> QED
    BY <1>1, <2>1, <2>2 DEF Sound, Kept, SameJob, ManualHasNoTime
<1>5. KeepsRows(d, c, {})
  BY <1>1, <1>2, <1>3 DEF KeepsRows, KeepsLive, KeepsHeld, HeldIn, EligibleOps
<1>6. LET e == DropEmptyGroups(c)
      IN  Sound(e) /\ SameJob(c, e) /\ e.pend = c.pend /\ e.ops = c.ops
  BY <1>4, DropSettles
<1>7. KeepsRows(d, DropEmptyGroups(c), {})
  BY <1>5, <1>6 DEF KeepsRows, KeepsLive, KeepsHeld, HeldIn, EligibleOps
<1> QED
  BY <1>1, <1>6, <1>7 DEF SameJob, c

----------------------------------------------------------------------------
(* The owner's edit, observations, and admission.                           *)

(* What the owner's edit leaves before the empty groups go.  No run is in   *)
(* progress, so the rows it takes hold no occurrence that counts.           *)
LEMMA CutKept ==
    ASSUME NEW d, Sound(d), \A o \in Ops : d.ops[o].status \notin Active,
           NEW c, NEW manual \in BOOLEAN, NEW targets \in SUBSET Vaults, c \in Tables,
           c.manual = manual, c.targets = targets, manual => c.nextRun = NoTime,
           c.groups = d.groups,
           \A v \in Vaults : c.pend[v] = IF v \in ClearedBy(manual, targets) THEN NoPending ELSE d.pend[v],
           \A o \in Ops : c.ops[o] = IF d.ops[o].vault \in Vaults \ targets THEN Free ELSE d.ops[o]
    PROVE  Kept(c) /\ \A o \in Ops : c.ops[o].status \notin Active
<1>1. Free.rest = "none" /\ Free.status \notin Active
  BY DEF Free, Active
<1>2. \A o \in Ops : c.ops[o].status \notin Active
  BY <1>1
<1>3. GroupedRows(c) /\ NamedRows(c) /\ QueuedRows(c) /\ OneLive(c)
  BY <1>1, <1>2 DEF Sound, Kept, GroupedRows, NamedRows, QueuedRows, OneLive, Active
<1>4. RangesParse(c)
  BY <1>1 DEF Sound, Kept, RangesParse, EligibleOps
<1>5. NothingBehind(c)
  BY <1>2 DEF NothingBehind, Gone, ClearedBy, EligibleOps
<1> QED
  BY <1>2, <1>3, <1>4, <1>5 DEF Sound, Kept, ManualHasNoTime

\* A missed occurrence extends the range of its pair by one.
LEMMA MarkKeeps ==
    ASSUME NEW p \in Pending, p = NoPending \/ RangeOK(p), NEW due \in Nat, due # NoTime
    PROVE  /\ MarkMissed(p, due) \in Pending /\ RangeOK(MarkMissed(p, due))
           /\ MarkMissed(p, due).count = p.count + 1
<1>1. p.count \in Nat /\ p.first \in Nat /\ p.last \in Nat
  BY DEF Pending
<1>2. Min({p.first, due}) = IF p.first <= due THEN p.first ELSE due
  BY <1>1, MinOfTwo
<1> QED
  BY <1>1, <1>2 DEF MarkMissed, RangeOK, Pending, NoPending, NoTime

\* The regular occurrence, when the request still fits the job.
LEMMA RecordedSettles ==
    ASSUME Sound(db), TickCurrent, tick.due \in Nat, now \in Nat
    PROVE  /\ Sound(Recorded) /\ Recorded.targets = db.targets /\ Recorded.manual = db.manual
           /\ Recorded.ops = db.ops /\ Recorded.groups = db.groups
           /\ \A v \in Vaults : \/ Recorded.pend[v] = db.pend[v]
                                \/ Recorded.pend[v].count = db.pend[v].count + 1
<1> DEFINE d == Recorded
<1>1. CASE tick.due = NoTime \/ ~db.enabled
  BY <1>1 DEF Recorded
<1>2. CASE ~(tick.due = NoTime \/ ~db.enabled)
  <2> DEFINE next == AdvanceAfter(tick.due)
             pend(v) == IF v \in db.targets THEN MarkMissed(db.pend[v], tick.due) ELSE db.pend[v]
  <2>1. ~db.manual /\ tick.due # NoTime
    BY <1>2 DEF TickCurrent, Sound, Kept, ManualHasNoTime
  <2>2. next \in Nat
    BY AdvanceType
  <2>3. \A v \in Vaults : db.pend[v] \in Pending /\ (db.pend[v] = NoPending \/ RangeOK(db.pend[v]))
    BY DEF Sound, Kept, Tables, RangesParse
  <2>4. \A v \in Vaults : /\ pend(v) \in Pending
                          /\ pend(v) = NoPending \/ RangeOK(pend(v))
                          /\ v \notin db.targets => pend(v) = db.pend[v]
                          /\ pend(v) = db.pend[v] \/ pend(v).count = db.pend[v].count + 1
    BY <2>1, <2>3, MarkKeeps
  <2> HIDE DEF next, pend
  <2>5. d = [db EXCEPT !.nextRun = next, !.pend = [v \in Vaults |-> pend(v)]]
    BY <1>2 DEF Recorded, next, pend
  <2>6. /\ d \in Tables /\ d.enabled = db.enabled /\ d.manual = db.manual /\ d.targets = db.targets
        /\ d.ops = db.ops /\ d.groups = db.groups /\ d.nextRun = next
        /\ \A v \in Vaults : d.pend[v] = pend(v)
    BY <2>2, <2>4, <2>5 DEF Sound, Kept, Tables
  <2> HIDE DEF d
  <2>7. RangesParse(d) /\ NothingBehind(d) /\ ManualHasNoTime(d)
    BY <2>1, <2>4, <2>6 DEF Sound, Kept, RangesParse, NothingBehind, Gone, ManualHasNoTime, EligibleOps
  <2>8. Sound(d)
    BY <2>6, <2>7 DEF Sound, Kept, GroupsSound, Rows, GroupedRows, NamedRows, QueuedRows, OneLive
  <2> QED
    BY <2>4, <2>6, <2>8 DEF d
<1> QED
  BY <1>1, <1>2


\* e is d after the pairs of A were admitted with the rows that f gives them.
QueuedIn(d, e, A, f) ==
    /\ Sound(e) /\ SameJob(d, e) /\ KeepsLive(d, e, {})
    /\ \A v \in A : /\ f[v] \in Ops /\ e.ops[f[v]].status = "queued"
                    /\ HeldIn(e, v) = {f[v]} /\ HeldIn(d, v) = {}
                    /\ e.ops[f[v]].due = d.pend[v] /\ e.pend[v] = NoPending
    /\ \A v \in Vaults \ A : /\ e.pend[v] = d.pend[v]
                             /\ HeldIn(e, v) = HeldIn(d, v)
                             /\ \A o \in HeldIn(d, v) : e.ops[o] = d.ops[o]

(* Admission gives every pair of A its new row with all that waited for it, *)
(* in a group of a new generation, and leaves the other pairs alone.        *)
LEMMA QueuedSettles ==
    ASSUME NEW d, Sound(d), NEW A \in SUBSET Vaults,
           NEW T \in SUBSET Ops, \A o \in T : d.ops[o] = Free,
           NEW f \in Injection(A, T), now \in Nat \ {0},
           \A v \in A : RangeOK(d.pend[v]) /\ ActiveOps(d, v) = {}
    PROVE  QueuedIn(d, Queued(d, f), A, f)
<1> DEFINE e == Queued(d, f)
           gen == IF d.groups = {} THEN 1 ELSE Newest(d.groups).gen + 1
           vaultOf(o) == CHOOSE v \in A : f[v] = o
           row(v) == [vault |-> v, status |-> "queued", native |-> "none", rest |-> "eligible",
                      gen |-> gen, due |-> d.pend[v]]
           new == {f[v] : v \in A}
           r(o) == IF o \in new THEN row(vaultOf(o)) ELSE d.ops[o]
           p(v) == IF v \in A THEN NoPending ELSE d.pend[v]
           group == [gen |-> gen, admittedAt |-> now, prev |-> d.lastRun, started |-> FALSE]
<1>1. /\ DOMAIN f = A /\ Range(f) = new
      /\ \A v \in A : f[v] \in Ops /\ d.ops[f[v]] = Free
      /\ \A u, v \in A : f[u] = f[v] => u = v
  BY DEF Injection, IsInjective, Range
<1>2. d \in Tables /\ \A o \in Ops : d.ops[o] \in Row
  BY DEF Sound, Kept, Tables
<1>3. CASE A = {}
  <2>1. e = d
    BY <1>1, <1>3 DEF Queued
  <2> QED
    BY <1>3, <2>1 DEF QueuedIn, SameJob, KeepsLive
<1>4. CASE A # {}
  <2>1. /\ gen \in Nat \ {0} /\ \A g \in d.groups : g.gen < gen
        /\ \E b \in Nat : gen <= b /\ \A g \in d.groups : g.gen <= b
    <3>1. CASE d.groups = {}
      BY <3>1
    <3>2. CASE d.groups # {}
      <4>1. /\ Newest(d.groups) \in Group /\ \A h \in d.groups : h \in Group
            /\ \A h \in d.groups : h.gen <= Newest(d.groups).gen
        BY <3>2, NewestIn DEF Sound, Kept, Tables
      <4>2. gen = Newest(d.groups).gen + 1
        BY <3>2
      <4>3. Newest(d.groups).gen \in Nat /\ \A h \in d.groups : h.gen \in Nat
        BY <4>1 DEF Group
      <4>4. \A h \in d.groups : h.gen < gen /\ h.gen <= gen
        BY <4>1, <4>2, <4>3
      <4> HIDE DEF gen
      <4> QED
        BY <4>2, <4>3, <4>4
    <3> QED
      BY <3>1, <3>2
  <2>2. e = [d EXCEPT !.ops = [o \in Ops |-> r(o)], !.pend = [v \in Vaults |-> p(v)],
                      !.groups = d.groups \cup {group}, !.lastRun = now]
    BY <1>1, <1>4 DEF Queued
  <2> HIDE DEF gen
  <2>3. \A v \in A : vaultOf(f[v]) = v
    BY <1>1
  <2>4. \A v \in A : row(v) \in Row /\ r(f[v]) = row(v)
    <3>1. \A v \in A : d.pend[v] \in Pending
      BY <1>2 DEF Tables
    <3>2. \A v \in A : row(v) \in Row
      BY <2>1, <3>1 DEF Row, Active
    <3>3. \A v \in A : f[v] \in new
      OBVIOUS
    <3> HIDE DEF row, vaultOf, new
    <3> QED
      BY <2>3, <3>2, <3>3
  <2>5. \A o \in Ops : r(o) \in Row
    BY <1>2, <2>4
  <2>6. group \in Group
    BY <1>2, <2>1 DEF Group, Tables
  <2>7. \A v \in Vaults : p(v) \in Pending
    BY <1>2, NoPendingType DEF Tables
  <2>8. /\ group.gen = gen /\ group.started = FALSE
        /\ \A o \in Ops : o \notin new => r(o) = d.ops[o]
        /\ \A v \in A : f[v] \in new
    OBVIOUS
  <2>9. \A v \in A : /\ row(v).vault = v /\ row(v).status = "queued" /\ row(v).rest = "eligible"
                     /\ row(v).gen = gen /\ row(v).due = d.pend[v]
    OBVIOUS
  <2> HIDE DEF r, group, row, e
  <2>10. /\ e \in Tables /\ SameJob(d, e) /\ e.groups = d.groups \cup {group}
         /\ \A o \in Ops : e.ops[o] = r(o)
         /\ \A v \in Vaults : e.pend[v] = p(v)
    <3> HIDE DEF p
    <3> QED
      BY <1>2, <2>2, <2>5, <2>6, <2>7 DEF Tables, SameJob
  <2>11. \A o \in Ops : o \notin new => e.ops[o] = d.ops[o]
    BY <2>8, <2>10
  <2>12. \A v \in A : /\ e.ops[f[v]].vault = v /\ e.ops[f[v]].status = "queued"
                      /\ e.ops[f[v]].rest = "eligible" /\ e.ops[f[v]].gen = gen
                      /\ e.ops[f[v]].due = d.pend[v]
    BY <1>1, <2>4, <2>9, <2>10
  <2>13. \A o \in new : d.ops[o].rest = "none" /\ d.ops[o].status \notin Active
    BY <1>1 DEF Free, Active
  <2> HIDE DEF new
  <2>14. \A o \in new : \E v \in A : o = f[v]
    BY DEF new
  <2>15. Sound(e)
    <3>1. GroupedRows(e)
      BY <2>8, <2>10, <2>11, <2>12, <2>14 DEF Sound, Kept, GroupedRows
    <3>2. GroupsSound(e)
      <4>1. \A g \in d.groups : Rows(d, g) \subseteq Rows(e, g)
        BY <2>11, <2>13 DEF Rows
      <4>2. Rows(e, group) # {}
        BY <1>1, <1>4, <2>8, <2>12 DEF Rows
      <4> QED
        BY <2>10, <4>1, <4>2 DEF Sound, GroupsSound
    <3>3. NamedRows(e) /\ QueuedRows(e)
      BY <2>11, <2>12, <2>14 DEF Sound, Kept, NamedRows, QueuedRows
    <3>4. OneLive(e)
      BY <1>1, <2>11, <2>12, <2>14 DEF Sound, Kept, OneLive, ActiveOps, Active
    <3>5. RangesParse(e)
      BY <2>10, <2>11, <2>12, <2>14 DEF Sound, Kept, RangesParse, EligibleOps
    <3>6. \A v \in A : ~Gone(d, v)
      BY NotRange DEF Sound, Kept, NothingBehind
    <3>7. NothingBehind(e)
      BY <2>10, <2>11, <2>12, <2>14, <3>6 DEF Sound, Kept, NothingBehind, Gone, SameJob, EligibleOps
    <3>8. Bounded(e.groups)
      BY <2>1, <2>8, <2>10 DEF Bounded
    <3> QED
      BY <2>10, <3>1, <3>2, <3>3, <3>4, <3>5, <3>7, <3>8 DEF Sound, Kept, SameJob, ManualHasNoTime
  <2>16. KeepsLive(d, e, {})
    BY <2>11, <2>13 DEF KeepsLive
  <2>17. \A v \in A : HeldIn(d, v) = {} /\ HeldIn(e, v) = {f[v]}
    BY <1>1, <2>11, <2>12, <2>14 DEF HeldIn, EligibleOps, ActiveOps, Active
  <2>18. \A v \in Vaults \ A : HeldIn(e, v) = HeldIn(d, v) /\ \A o \in HeldIn(d, v) : e.ops[o] = d.ops[o]
    BY <1>1, <2>11, <2>12, <2>13, <2>14 DEF HeldIn, EligibleOps
  <2> QED
    BY <1>1, <2>10, <2>12, <2>15, <2>16, <2>17, <2>18 DEF QueuedIn, e
<1> QED
  BY <1>3, <1>4

\* A manual admission adds a row that holds no occurrence.
LEMMA ManualSettles ==
    ASSUME NEW d, Sound(d), NEW v \in Vaults, NEW o \in Ops, d.ops[o] = Free, ActiveOps(d, v) = {}
    PROVE  LET e == [d EXCEPT !.ops[o] = [Free EXCEPT !.vault = v, !.status = "queued"]]
           IN  /\ Sound(e) /\ SameJob(d, e) /\ e.pend = d.pend /\ KeepsRows(d, e, {})
               /\ e.ops[o].status = "queued"
<1> DEFINE row == [Free EXCEPT !.vault = v, !.status = "queued"]
           e == [d EXCEPT !.ops[o] = row]
<1>1. row \in Row /\ row.vault = v /\ row.status = "queued" /\ row.rest = "none"
  BY NoPendingType DEF Free, Row, Active
<1> HIDE DEF row
<1>2. /\ e \in Tables /\ SameJob(d, e) /\ e.pend = d.pend /\ e.groups = d.groups
      /\ \A q \in Ops : q # o => e.ops[q] = d.ops[q]
      /\ e.ops[o] = row
  BY <1>1 DEF Sound, Kept, Tables, SameJob
<1> HIDE DEF e
<1>3. d.ops[o].rest = "none" /\ d.ops[o].status \notin Active
  BY DEF Free, Active
<1>4. EligibleOps(e) = EligibleOps(d) /\ \A q \in EligibleOps(d) : q # o
  BY <1>1, <1>2, <1>3 DEF EligibleOps
<1>5. GroupedRows(e) /\ GroupsSound(e)
  <2>1. \A g \in d.groups : Rows(d, g) \subseteq Rows(e, g)
    BY <1>2, <1>3 DEF Rows
  <2> QED
    BY <1>1, <1>2, <2>1 DEF Sound, Kept, GroupedRows, GroupsSound
<1>6. NamedRows(e) /\ QueuedRows(e) /\ OneLive(e)
  BY <1>1, <1>2 DEF Sound, Kept, NamedRows, QueuedRows, OneLive, ActiveOps, Active
<1>7. RangesParse(e) /\ NothingBehind(e)
  BY <1>2, <1>4 DEF Sound, Kept, RangesParse, NothingBehind, Gone, SameJob, EligibleOps
<1>8. KeepsRows(d, e, {})
  BY <1>2, <1>3, <1>4 DEF KeepsRows, KeepsLive, KeepsHeld, HeldIn, EligibleOps
<1> QED
  BY <1>1, <1>2, <1>5, <1>6, <1>7, <1>8 DEF Sound, Kept, SameJob, ManualHasNoTime, e, row

\* No pair needs no row ...
LEMMA EmptyInjection == \A T : <<>> \in Injection({}, T)
  BY DEF Injection, IsInjective
\* ... and one pair any one row.
LEMMA OneInjection == \A u, T : \A o \in T : [v \in {u} |-> o] \in Injection({u}, T)
  BY DEF Injection, IsInjective

\* The pairs that another pair carries the notice for wait for nothing any more.
LEMMA ClearedSound ==
    ASSUME NEW d, Sound(d), NEW T,
           NEW e, e = [d EXCEPT !.pend = [v \in Vaults |-> IF v \in T THEN NoPending ELSE @[v]]]
    PROVE  /\ Sound(e) /\ SameJob(d, e) /\ e.ops = d.ops
           /\ \A v \in Vaults : e.pend[v] = IF v \in T THEN NoPending ELSE d.pend[v]
<1>1. /\ e \in Tables /\ SameJob(d, e) /\ e.ops = d.ops /\ e.groups = d.groups
      /\ \A v \in Vaults : e.pend[v] = IF v \in T THEN NoPending ELSE d.pend[v]
  BY NoPendingType DEF Sound, Kept, Tables, SameJob
<1>2. Sound(e)
  BY <1>1 DEF Sound, Kept, SameJob, GroupsSound, Rows, GroupedRows, NamedRows,
     RangesParse, QueuedRows, OneLive, NothingBehind, Gone, ManualHasNoTime, EligibleOps
<1> QED
  BY <1>1, <1>2

(* What an admission commits: d are the tables after the observations were  *)
(* recorded, f the rows of the pairs A it admits.  A pair whose count is    *)
(* dropped has another one admitted for it.                                 *)
Admission(d, A, f, F) ==
    /\ Sound(d) /\ d.ops = db.ops /\ d.manual = db.manual /\ d.targets = db.targets
    /\ A \in SUBSET Vaults /\ F \subseteq A
    /\ f \in Injection(A, FreeOps) /\ FreeOps = {o \in Ops : d.ops[o] = Free /\ phase[o] = "none"}
    /\ \A v \in A : RangeOK(d.pend[v]) /\ ActiveOps(d, v) = {}
    /\ \A v \in Vaults : \/ d.pend[v].count \in {db.pend[v].count, db.pend[v].count + 1}
                         \/ v \notin A /\ A # {} /\ d.pend[v] = NoPending
    /\ Commit(d, f, F)

\* The scheduler's actions that may admit something.
Admits ==
    \/ AdmitSourceOutage
    \/ \E seen \in [tick.sel -> Observation] : AdmitTargets(seen)

(* Every admission of the scheduler is one: with the source away, and with  *)
(* the source there and each target seen on its own.                        *)
LEMMA AdmissionSummary ==
    ASSUME Sound(db), tick \in [due : Nat, sel : SUBSET Vaults], now \in Nat, Admits
    PROVE  \E d, A, f, F : Admission(d, A, f, F)
<1>1. TickCurrent /\ tick.due \in Nat /\ tick.sel \in SUBSET Vaults
  BY DEF Admits, AdmitSourceOutage, AdmitTargets, Admitting
<1> DEFINE d == Recorded
<1>2. /\ Sound(d) /\ d.targets = db.targets /\ d.manual = db.manual
      /\ d.ops = db.ops /\ d.groups = db.groups
      /\ \A v \in Vaults : d.pend[v] = db.pend[v] \/ d.pend[v].count = db.pend[v].count + 1
  BY <1>1, RecordedSettles
<1>3. FreeOps = {o \in Ops : db.ops[o] = Free /\ phase[o] = "none"}
  BY DEF FreeOps
<1> HIDE DEF d
<1>4. Commit(d, <<>>, {}) => Admission(d, {}, <<>>, {})
  BY <1>2, <1>3, EmptyInjection DEF Admission
<1>5. CASE AdmitSourceOutage
  <2> DEFINE overdue == {v \in tick.sel : d.pend[v].count > 0 /\ Overdue(d.pend[v])}
             idle == IdlePairs(d, overdue)
             e(carrier) == [d EXCEPT !.pend = [v \in Vaults |->
                                IF v \in overdue \ {carrier} THEN NoPending ELSE @[v]]]
             f(carrier, o) == [v \in {carrier} |-> o]
  <2>1. \/ Commit(d, <<>>, {})
        \/ \E carrier \in idle, o \in FreeOps : Commit(e(carrier), f(carrier, o), {carrier})
    BY <1>5 DEF AdmitSourceOutage, d
  <2>2. ASSUME NEW u \in idle, NEW o \in FreeOps, Commit(e(u), f(u, o), {u})
        PROVE  Admission(e(u), {u}, f(u, o), {u})
    <3>1. /\ Sound(e(u)) /\ SameJob(d, e(u)) /\ e(u).ops = d.ops
          /\ \A v \in Vaults : e(u).pend[v] = IF v \in overdue \ {u} THEN NoPending ELSE d.pend[v]
      <4> DEFINE T == overdue \ {u}
      <4>1. e(u) = [d EXCEPT !.pend = [v \in Vaults |-> IF v \in T THEN NoPending ELSE @[v]]]
        OBVIOUS
      <4> HIDE DEF T, e
      <4>2. /\ Sound(e(u)) /\ SameJob(d, e(u)) /\ e(u).ops = d.ops
            /\ \A v \in Vaults : e(u).pend[v] = IF v \in T THEN NoPending ELSE d.pend[v]
        BY <1>2, <4>1, ClearedSound
      <4> QED
        BY <4>2 DEF T
    <3>2. u \in Vaults /\ ActiveOps(d, u) = {}
      BY <1>1 DEF IdlePairs
    <3>3. f(u, o) \in Injection({u}, FreeOps)
      BY OneInjection
    <3>4. DOMAIN f(u, o) = {u}
      OBVIOUS
    <3> HIDE DEF e, f, overdue, idle
    <3>5. RangeOK(e(u).pend[u]) /\ ActiveOps(e(u), u) = {}
      BY <2>2, <3>1, <3>2, <3>4 DEF Commit, ActiveOps
    <3> QED
      BY <1>2, <1>3, <2>2, <3>1, <3>2, <3>3, <3>5 DEF Admission, SameJob
  <2> QED
    BY <1>4, <2>1, <2>2
<1>6. ASSUME NEW seen, AdmitTargets(seen) PROVE \E A, f, F : Admission(d, A, f, F)
  <2> DEFINE idle == IdlePairs(d, tick.sel)
             notice == {v \in idle : seen[v] = "unavailable" /\ Overdue(d.pend[v])}
             broken == {v \in idle : seen[v] = "conclusive"}
             ready == {v \in idle : seen[v] = "available"}
  <2>1. PICK f \in Injection(notice \cup broken \cup ready, FreeOps) : Commit(d, f, notice \cup broken)
    BY <1>6 DEF AdmitTargets, d
  <2>2. idle \subseteq Vaults /\ \A v \in idle : ActiveOps(d, v) = {}
    BY <1>1 DEF IdlePairs
  <2> DEFINE A == notice \cup broken \cup ready
             F == notice \cup broken
  <2>3. A \subseteq idle /\ F \subseteq A
    OBVIOUS
  <2> HIDE DEF A, F, idle, notice, broken, ready
  <2>4. f \in Injection(A, FreeOps) /\ Commit(d, f, F)
    BY <2>1 DEF A, F
  <2>5. DOMAIN f = A
    BY <2>4 DEF Injection
  <2>6. \A v \in A : RangeOK(d.pend[v])
    BY <2>4, <2>5 DEF Commit
  <2>7. Admission(d, A, f, F)
    BY <1>2, <1>3, <2>2, <2>3, <2>4, <2>6 DEF Admission
  <2> QED
    BY <2>7
<1> QED
  BY <1>5, <1>6 DEF Admits

----------------------------------------------------------------------------
(* The memory of the process.                                               *)

\* The phases still fit when they move with the rows that changed.
LEMMA PhasesFollow ==
    ASSUME PhaseRows, NEW S \in SUBSET Ops, KeepsLive(db, db', S),
           \A o \in Ops \ S : \/ phase'[o] = phase[o]
                              \/ phase[o] \in Waiting /\ phase'[o] \in Waiting
                              \/ phase[o] \in InRun /\ phase'[o] \in InRun \ {"checked"}
                              \/ phase'[o] = "none",
           \A o \in S : PhaseFits(o)'
    PROVE  PhaseRows'
<1>1. ASSUME NEW o \in Ops \ S PROVE PhaseFits(o)'
  <2>1. PhaseFits(o)
    BY DEF PhaseRows
  <2>2. phase[o] \in Waiting \cup InRun => db.ops[o].status \in Active
             /\ db'.ops[o].status = db.ops[o].status /\ db'.ops[o].native = db.ops[o].native
    BY <2>1 DEF PhaseFits, Active, KeepsLive
  <2> QED
    BY <2>1, <2>2 DEF PhaseFits, Waiting, InRun
<1> QED
  BY <1>1 DEF PhaseRows

\* Launched runs that still hold their occurrence are still durably started.
LEMMA LaunchedFollow ==
    ASSUME Sound(db), LaunchedRuns, NEW S, NEW T, KeepsLive(db, db', S), KeepsHeld(db, db', T),
           launched' \subseteq launched \ (S \cup T),
           \A o \in launched' : phase'[o] \in {"launched", "ended", "settled", "none"}
    PROVE  LaunchedRuns'
<1> SUFFICES ASSUME NEW o \in launched'
             PROVE  /\ o \in EligibleOps(db')
                    /\ db'.ops[o].status = "running" /\ db'.ops[o].native \in StepDurable
  BY DEF LaunchedRuns
<1>1. o \in EligibleOps(db) /\ db.ops[o].status = "running" /\ db.ops[o].native \in StepDurable
  BY DEF LaunchedRuns
<1>2. o \in Ops /\ db.ops[o].vault \in Vaults /\ o \in HeldIn(db, db.ops[o].vault)
  BY <1>1, HeldBelongs DEF Active
<1>3. o \in EligibleOps(db')
  BY <1>2 DEF KeepsHeld, HeldIn
<1> QED
  BY <1>1, <1>2, <1>3 DEF KeepsLive, Active

\* Unchanged tables keep everything.
LEMMA Keeping == \A d : KeepsLive(d, d, {}) /\ KeepsHeld(d, d, {}) /\ SameJob(d, d)
  BY DEF KeepsLive, KeepsHeld, SameJob

\* Whatever waits or has not reached its launch is not launched.
LEMMA LaunchedNotWaiting ==
    ASSUME Shapes, PhaseRows, LaunchedRuns
    PROVE  \A o \in launched : o \in Ops /\ phase[o] \notin Waiting /\ db.ops[o].status # "queued"
           /\ phase[o] \notin {"running", "checked", "paused"}
  BY DEF Shapes, LaunchedRuns, Waiting

\* The memory of a fresh process has its shape.
LEMMA ShapesInit == Init => Shapes
  BY TimesPositive, BudgetsNatural DEF Init, Shapes, Phases, Idle, NoTime

\* An admission keeps the shape of the memory.
LEMMA CommitShapes ==
    ASSUME Shapes, NEW d, NEW A, NEW f, NEW F, Admission(d, A, f, F)
    PROVE  Shapes'
<1>1. Commit(d, f, F) /\ F \subseteq A /\ \A v \in A : f[v] \in Ops
  BY DEF Admission, Injection, FreeOps
<1>2. /\ phase' = [o \in Ops |-> IF o \in Range(f) THEN "admitted" ELSE phase[o]]
      /\ failing' = failing \cup {f[v] : v \in F}
      /\ tick' = Idle
      /\ UNCHANGED <<now, launched, faults, disturbances>>
  BY <1>1 DEF Commit
<1>3. phase' \in [Ops -> Phases]
  BY <1>2 DEF Shapes, Phases
<1> QED
  BY <1>1, <1>2, <1>3 DEF Shapes, Idle, NoTime

\* Operations that leave the process keep the shape of what is left.
LEMMA ReleaseShapes ==
    ASSUME phase \in [Ops -> Phases], failing \subseteq Ops, NEW S, Release(S)
    PROVE  phase' \in [Ops -> Phases] /\ failing' \subseteq Ops
  BY DEF Release, Phases

\* No step breaks the shape of the memory.
LEMMA ShapesStep ==
    ASSUME Shapes, Sound(db), Next
    PROVE  Shapes'
<1> USE DEF Shapes
<1>1. /\ phase \in [Ops -> Phases] /\ Idle \in [due : Nat, sel : SUBSET Vaults]
      /\ db \in Tables /\ now \in Nat
  BY TimesPositive DEF Sound, Kept, Idle, NoTime
<1>2. /\ \A n \in 0..Faults : n > 0 => n - 1 \in 0..Faults
      /\ \A n \in 0..Disturbances : n > 0 => n - 1 \in 0..Disturbances
  BY BudgetsNatural
<1>3. /\ Fault => faults' \in 0..Faults
      /\ Disturb => disturbances' \in 0..Disturbances
      /\ NoFault => faults' \in 0..Faults
  BY <1>2 DEF Fault, NoFault, Disturb
<1>4. \A o \in Ops, p \in Phases : [phase EXCEPT ![o] = p] \in [Ops -> Phases]
  OBVIOUS
<1>5. ASSUME NEW t \in 1..MaxTime, SetClock(t) PROVE Shapes'
  BY <1>3, <1>5 DEF SetClock
<1>6. CASE Scheduler
  <2>1. ASSUME NEW T \in SUBSET Vaults, ReadDue(T) PROVE Shapes'
    <3>1. db.nextRun \in Nat
      BY <1>1 DEF Tables
    <3>2. tick' \in [due : Nat, sel : SUBSET Vaults]
      BY <2>1, <3>1 DEF ReadDue, NoTime
    <3> QED
      BY <2>1, <3>2 DEF ReadDue
  <2>2. CASE RescheduleNextRun
    BY <2>2 DEF RescheduleNextRun
  <2>3. CASE AdmitPaused
    BY <1>1, <2>3 DEF AdmitPaused
  <2>4. CASE Admits
    <3>1. PICK d, A, f, F : Admission(d, A, f, F)
      BY <1>1, <2>4, AdmissionSummary
    <3> QED
      BY <3>1, CommitShapes
  <2>5. CASE AdmissionRefused
    BY <1>1, <1>3, <2>5 DEF AdmissionRefused
  <2>6. CASE ActivatePersisted
    <3>1. phase' \in [Ops -> Phases]
      BY <1>1, <2>6 DEF ActivatePersisted, Phases
    <3> QED
      BY <2>6, <3>1 DEF ActivatePersisted
  <2>7. CASE ActivationFails
    BY <1>1, <1>3, <2>7, ReleaseShapes DEF ActivationFails
  <2> QED
    BY <1>6, <2>1, <2>2, <2>3, <2>4, <2>5, <2>6, <2>7 DEF Scheduler, Admits
<1>7. ASSUME NEW o \in Ops, Run(o) PROVE Shapes'
  <2>1. {"running", "checked", "launched", "paused", "ended", "settled"} \subseteq Phases
    BY DEF Phases
  <2>2. CASE BeginRun(o)
    BY <1>4, <2>1, <2>2 DEF BeginRun
  <2>3. CASE BeginFails(o)
    BY <1>1, <1>3, <2>3, ReleaseShapes DEF BeginFails
  <2>4. CASE StartNative(o)
    BY <1>4, <2>1, <2>4 DEF StartNative
  <2>5. CASE Launch(o)
    BY <1>4, <2>1, <2>5 DEF Launch, Undecided
  <2>6. ASSUME NEW how \in {"ended", "paused"}, EndBeforeNative(o, how) PROVE Shapes'
    <3>1. phase' = [phase EXCEPT ![o] = how] /\ faults' \in 0..Faults
          /\ UNCHANGED <<now, tick, failing, launched, disturbances>>
      BY <1>3, <2>6 DEF EndBeforeNative
    <3> QED
      BY <1>4, <2>1, <3>1
  <2>7. CASE NativeReturns(o)
    <3>1. phase' = [phase EXCEPT ![o] = "ended"] /\ faults' \in 0..Faults
          /\ UNCHANGED <<now, tick, failing, launched, disturbances>>
      BY <1>3, <2>7 DEF NativeReturns
    <3> QED
      BY <1>4, <2>1, <3>1
  <2>8. ASSUME NEW filesystem \in BOOLEAN, Settle(o, filesystem) PROVE Shapes'
    <3>1. /\ phase' = [phase EXCEPT ![o] = "settled"] /\ faults' \in 0..Faults
          /\ launched' \subseteq launched
          /\ UNCHANGED <<now, tick, failing, disturbances>>
      BY <1>3, <2>8 DEF Settle, Undecided
    <3> QED
      BY <1>4, <2>1, <3>1
  <2>9. CASE Finish(o)
    <3>1. /\ Release({o}) /\ faults' \in 0..Faults /\ launched' \subseteq launched
          /\ UNCHANGED <<now, tick, disturbances>>
      BY <1>3, <2>9 DEF Finish, Undecided
    <3> QED
      BY <1>1, <3>1, ReleaseShapes
  <2> QED
    BY <1>7, <2>2, <2>3, <2>4, <2>5, <2>6, <2>7, <2>8, <2>9 DEF Run
<1>8. CASE User
  <2>1. ASSUME NEW v \in Vaults, NEW o \in Ops, AdmitManual(v, o) PROVE Shapes'
    <3>1. "admitted" \in Phases
      BY DEF Phases
    <3> QED
      BY <1>3, <1>4, <2>1, <3>1 DEF AdmitManual
  <2>2. ASSUME NEW S \in SUBSET Ops, Interrupt(S) PROVE Shapes'
    BY <1>1, <2>2, ReleaseShapes DEF Interrupt
  <2>3. ASSUME NEW o \in Ops, InterruptFails(o) PROVE Shapes'
    <3>1. "quarantined" \in Phases
      BY DEF Phases
    <3> QED
      BY <1>3, <1>4, <2>3, <3>1 DEF InterruptFails
  <2>4. ASSUME NEW b \in BOOLEAN, SetJobEnabled(b) PROVE Shapes'
    BY <1>3, <2>4 DEF SetJobEnabled
  <2>5. ASSUME NEW manual \in BOOLEAN, NEW newSchedule \in BOOLEAN, NEW targets \in SUBSET Vaults,
               UpdateJob(manual, newSchedule, targets)
        PROVE  Shapes'
    BY <1>3, <2>5 DEF UpdateJob
  <2> QED
    BY <1>8, <2>1, <2>2, <2>3, <2>4, <2>5 DEF User
<1>9. ASSUME NEW o \in Ops, Prune(o) PROVE Shapes'
  BY <1>9 DEF Prune
<1>10. CASE Restart
  BY <1>1, <1>3, <1>10, ReleaseShapes DEF Restart
<1> QED
  BY <1>5, <1>6, <1>7, <1>8, <1>9, <1>10 DEF Next

----------------------------------------------------------------------------
(* What a step does to the occurrences of the job.                          *)

\* The rows of S give their occurrences back; without any, nothing happens.
Returns(S) ==
    /\ S \in SUBSET Ops /\ S \cap launched = {} /\ launched' = launched
    /\ KeepsHeld(db, db', S) /\ GivenBack(db, db', S)

\* The run of o has an outcome of its own.
EndsRun(o) ==
    /\ KeepsHeld(db, db', {o}) /\ db'.pend = db.pend /\ launched' = launched \ {o}

\* The run of o is the notice that its vault has been away too long.
Notifies(o) ==
    /\ o \in EligibleOps(db) /\ db.ops[o].status \in Active
    /\ o \notin launched /\ launched' = launched
    /\ KeepsHeld(db, db', {o})
    /\ \A v \in Vaults : db'.pend[v] = IF v = db.ops[o].vault THEN NoPending ELSE db.pend[v]

\* The native backup of o starts.
Starts(o) ==
    /\ o \in Ops /\ db.ops[o].status = "running" /\ db' = db
    /\ launched' = launched \cup ({o} \cap EligibleOps(db))

\* The job's owner edits it while none of its runs is in progress.
Clears ==
    /\ \A v \in Vaults : HeldIn(db, v) = {} /\ HeldIn(db', v) = {}
    /\ \A v \in Vaults : db'.pend[v] \in {db.pend[v], NoPending}
    /\ launched' = launched

\* The process starts again: unstarted runs give back, the others are over.
Restarts ==
    /\ \A v \in Vaults : HeldIn(db', v) = {}
    /\ GivenBack(db, db', Unstarted(db)) /\ launched' = {}

\* One step does one of these.
Outcome ==
    \/ \E S \in SUBSET Ops : Returns(S)
    \/ \E o \in Ops : EndsRun(o) \/ Notifies(o) \/ Starts(o)
    \/ \E d, A, f, F : Admission(d, A, f, F)
    \/ Clears
    \/ Restarts

\* What is proved of each action.
Good == Sound(db') /\ PhaseRows' /\ LaunchedRuns' /\ Outcome

\* Where nothing waits differently nothing was given back.
LEMMA NothingReturned == \A d, e : e.pend = d.pend => GivenBack(d, e, {})
  BY DEF GivenBack

\* Rows other than those of launched backups change, or none at all.
LEMMA QuietStep ==
    ASSUME IInv, Shapes', Sound(db'), KeepsRows(db, db', {}), db'.pend = db.pend, launched' = launched,
           \A o \in Ops : \/ phase'[o] = phase[o]
                          \/ phase[o] \in Waiting /\ phase'[o] \in Waiting
                          \/ phase'[o] = "none"
    PROVE  Good
<1>1. PhaseRows'
  BY PhasesFollow DEF IInv, KeepsRows
<1>2. LaunchedRuns'
  <2>1. \A o \in launched : o \in Ops /\ phase'[o] \in {"launched", "ended", "settled", "none"}
    BY DEF IInv, Shapes, LaunchedRuns, Waiting
  <2> QED
    BY <2>1, LaunchedFollow DEF IInv, KeepsRows
<1>3. Returns({})
  BY NothingReturned DEF KeepsRows, Returns
<1> QED
  BY <1>1, <1>2, <1>3 DEF Good, Outcome

\* Some rows that were never launched are interrupted, their operations released.
LEMMA InterruptStep ==
    ASSUME IInv, NEW S \in SUBSET Ops, \A o \in S : phase[o] \in Waiting,
           db' = InterruptAll(db, S), Release(S), launched' = launched
    PROVE  Good
<1>1. \A o \in S : db.ops[o].status = "queued" /\ o \notin launched
  BY LaunchedNotWaiting DEF IInv, PhaseRows, PhaseFits
<1>2. /\ Sound(db') /\ KeepsRows(db, db', S) /\ GivenBack(db, db', S)
  BY <1>1, InterruptSettles DEF IInv, Active
<1>3. \A o \in Ops : phase'[o] = IF o \in S THEN "none" ELSE phase[o]
  BY DEF Release
<1>4. PhaseRows'
  <2>1. \A o \in S : PhaseFits(o)'
    BY <1>3 DEF PhaseFits, Waiting, InRun
  <2> QED
    BY <1>2, <1>3, <2>1, PhasesFollow DEF IInv, KeepsRows
<1>5. LaunchedRuns'
  <2>1. \A o \in launched : o \in Ops /\ phase'[o] \in {"launched", "ended", "settled", "none"}
    BY <1>3 DEF IInv, Shapes, LaunchedRuns
  <2>2. launched' \subseteq launched \ (S \cup S)
    BY <1>1
  <2> QED
    BY <1>2, <2>1, <2>2, LaunchedFollow DEF IInv, KeepsRows
<1>6. Returns(S)
  BY <1>1, <1>2 DEF Returns, KeepsRows
<1> QED
  BY <1>2, <1>4, <1>5, <1>6 DEF Good, Outcome

\* An edit of the row of a run that is not launched, or that stays started.
LEMMA RunEditStep ==
    ASSUME IInv, NEW o \in Ops, db.ops[o].status \in Active, NEW n,
           RowEdit(db, db', o, "running", n), launched' = launched,
           phase' = [phase EXCEPT ![o] = phase'[o]], phase'[o] \in InRun,
           phase'[o] = "checked" => n \in StepDurable,
           o \in launched => n \in StepDurable /\ phase'[o] \in {"launched", "ended", "settled"}
    PROVE  Good
<1>1. Sound(db') /\ KeepsLive(db, db', {o}) /\ KeepsHeld(db, db', {})
  BY RowEditSettles DEF IInv
<1>2. \A q \in Ops : q # o => phase'[q] = phase[q]
  BY DEF IInv, Shapes
<1>3. PhaseRows'
  <2>1. PhaseFits(o)'
    BY DEF PhaseFits, InRun, Waiting, RowEdit
  <2> QED
    BY <1>1, <1>2, <2>1, PhasesFollow DEF IInv
<1>4. LaunchedRuns'
  <2> SUFFICES ASSUME NEW q \in launched
               PROVE  /\ q \in EligibleOps(db')
                      /\ db'.ops[q].status = "running" /\ db'.ops[q].native \in StepDurable
                      /\ phase'[q] \in {"launched", "ended", "settled", "none"}
    BY DEF LaunchedRuns
  <2>1. /\ q \in EligibleOps(db) /\ q \in Ops
        /\ db.ops[q].status = "running" /\ db.ops[q].native \in StepDurable
        /\ phase[q] \in {"launched", "ended", "settled", "none"}
    BY DEF IInv, Shapes, LaunchedRuns
  <2>2. q \in EligibleOps(db')
    BY <2>1 DEF RowEdit, EligibleOps
  <2>3. CASE q = o
    BY <2>2, <2>3 DEF RowEdit
  <2>4. CASE q # o
    BY <1>2, <2>1, <2>2, <2>4 DEF RowEdit
  <2> QED
    BY <2>3, <2>4
<1>5. Returns({})
  BY <1>1, NothingReturned DEF Returns, RowEdit
<1> QED
  BY <1>1, <1>3, <1>4, <1>5 DEF Good, Outcome

\* Launched are then exactly those whose occurrence the step did not decide.
LEMMA UndecidedLeft ==
    ASSUME Sound(db), Sound(db'), LaunchedRuns, NEW S, NEW T, S \subseteq T,
           KeepsLive(db, db', S), KeepsHeld(db, db', T)
    PROVE  Undecided(db', launched) = launched \ T
<1>1. ASSUME NEW o \in launched \ T PROVE o \in Undecided(db', launched)
  <2>1. o \in EligibleOps(db) /\ db.ops[o].status = "running"
    BY DEF LaunchedRuns
  <2>2. o \in Ops /\ db.ops[o].vault \in Vaults /\ o \in HeldIn(db, db.ops[o].vault)
    BY <2>1, HeldBelongs DEF Active
  <2>3. o \in HeldIn(db', db.ops[o].vault)
    BY <1>1, <2>2 DEF KeepsHeld
  <2> QED
    BY <2>3 DEF HeldIn, EligibleOps, Undecided
<1>2. ASSUME NEW o \in launched \cap T PROVE o \notin Undecided(db', launched)
  <2> SUFFICES ASSUME o \in Undecided(db', launched) PROVE FALSE
    OBVIOUS
  <2>1. o \in EligibleOps(db) /\ o \in Ops
    BY DEF LaunchedRuns, EligibleOps
  <2>2. o \in EligibleOps(db') /\ db'.ops[o].status \in Active
    BY <2>1 DEF Undecided, EligibleOps
  <2>3. db'.ops[o].vault \in Vaults /\ o \in HeldIn(db', db'.ops[o].vault)
    BY <2>2, HeldBelongs
  <2> QED
    BY <1>2, <2>3 DEF KeepsHeld
<1> QED
  BY <1>1, <1>2 DEF Undecided

\* Whatever Settle makes of the occurrence, its row goes on running.
LEMMA SettleStep ==
    ASSUME IInv, Shapes', NEW o \in Ops, NEW filesystem \in BOOLEAN, Settle(o, filesystem)
    PROVE  Good
<1>1. /\ phase[o] \in {"ended", "paused"} /\ phase' = [phase EXCEPT ![o] = "settled"]
      /\ db.ops[o].status = "running"
      /\ Sound(db) /\ LaunchedRuns /\ PhaseRows
  BY DEF Settle, IInv, PhaseRows, PhaseFits, InRun
<1>2. \A q \in Ops : phase'[q] = IF q = o THEN "settled" ELSE phase[q]
  BY <1>1 DEF IInv, Shapes
<1>3. phase[o] = "paused" => o \notin launched
  BY DEF IInv, LaunchedRuns
<1>4. ASSUME NEW T \in SUBSET Ops, Sound(db'), KeepsLive(db, db', {}), KeepsHeld(db, db', T),
             launched' = launched \ T
      PROVE  PhaseRows' /\ LaunchedRuns'
  <2>1. PhaseRows'
    BY <1>1, <1>2, <1>4, PhasesFollow DEF InRun
  <2>2. \A q \in launched : q \in Ops /\ phase'[q] \in {"launched", "ended", "settled", "none"}
    BY <1>1, <1>2, <1>3 DEF LaunchedRuns, EligibleOps
  <2>3. LaunchedRuns'
    BY <1>1, <1>4, <2>2, LaunchedFollow
  <2> QED
    BY <2>1, <2>3
<1>5. CASE UNCHANGED <<db, launched>>
  <2>1. Sound(db') /\ KeepsLive(db, db', {}) /\ KeepsHeld(db, db', {}) /\ Returns({})
    BY <1>1, <1>5, Keeping, NothingReturned DEF Returns
  <2> QED
    BY <1>4, <1>5, <2>1 DEF Good, Outcome
<1>6. CASE phase[o] = "ended" /\ db' = Consume(db, o) /\ launched' = Undecided(db', launched)
  <2>1. /\ Sound(db') /\ db'.pend = db.pend
        /\ KeepsLive(db, db', {}) /\ KeepsHeld(db, db', {o})
    BY <1>1, <1>6, ConsumeSettles
  <2>2. launched' = launched \ {o}
    BY <1>1, <1>6, <2>1, UndecidedLeft
  <2>3. EndsRun(o)
    BY <2>1, <2>2 DEF EndsRun
  <2> QED
    BY <1>4, <2>1, <2>2, <2>3 DEF Good, Outcome
<1>7. CASE /\ phase[o] = "paused" /\ db.ops[o].rest = "eligible"
           /\ db' = Escalate(db, o) /\ launched' = Undecided(db', launched)
  <2>1. o \in EligibleOps(db)
    BY <1>7 DEF EligibleOps
  <2>2. /\ Sound(db') /\ KeepsLive(db, db', {}) /\ KeepsHeld(db, db', {o})
        /\ \A v \in Vaults : db'.pend[v] = IF v = db.ops[o].vault THEN NoPending ELSE db.pend[v]
    BY <1>1, <1>7, <2>1, EscalateSettles
  <2>3. launched' = launched \ {o}
    BY <1>1, <1>7, <2>2, UndecidedLeft
  <2>4. Notifies(o)
    BY <1>1, <1>3, <1>7, <2>1, <2>2, <2>3 DEF Notifies, Active
  <2> QED
    BY <1>4, <2>2, <2>3, <2>4 DEF Good, Outcome
<1>8. CASE /\ phase[o] = "paused" /\ db.ops[o].rest = "eligible"
           /\ db' = PutBack(db, o) /\ launched' = Undecided(db', launched)
  <2>1. o \in EligibleOps(db)
    BY <1>8 DEF EligibleOps
  <2>2. /\ Sound(db') /\ KeepsLive(db, db', {}) /\ KeepsHeld(db, db', {o})
        /\ GivenBack(db, db', {o})
    BY <1>1, <1>8, <2>1, PutBackSettles
  <2>3. launched' = launched \ {o}
    BY <1>1, <1>8, <2>2, UndecidedLeft
  <2>4. Returns({o})
    BY <1>3, <1>8, <2>2, <2>3 DEF Returns
  <2> QED
    BY <1>4, <2>2, <2>3, <2>4 DEF Good, Outcome
<1>9. CASE phase[o] = "paused" /\ db' = db /\ launched' = Undecided(db', launched)
  <2>1. Sound(db') /\ KeepsLive(db, db', {}) /\ KeepsHeld(db, db', {})
    BY <1>1, <1>9, Keeping
  <2>2. launched' = launched
    BY <1>1, <1>9, <2>1, UndecidedLeft
  <2> QED
    BY <1>5, <1>9, <2>2
<1> QED
  <2>1. \/ UNCHANGED <<db, launched>>
        \/ /\ launched' = Undecided(db', launched)
           /\ \/ phase[o] = "ended" /\ db' = Consume(db, o)
              \/ phase[o] = "paused" /\ Escalates(db, o) /\ db' = Escalate(db, o)
              \/ phase[o] = "paused" /\ db' = RestoreUnavailable(db, o)
    BY <1>1 DEF Settle, Write
  <2>2. Escalates(db, o) => db.ops[o].rest = "eligible"
    BY DEF Escalates
  <2>3. RestoreUnavailable(db, o) = IF db.ops[o].rest = "eligible" THEN PutBack(db, o) ELSE db
    BY DEF RestoreUnavailable
  <2> QED
    BY <1>5, <1>6, <1>7, <1>8, <1>9, <2>1, <2>2, <2>3

\* The end of a run writes its terminal row, or loses that write.
LEMMA FinishStep ==
    ASSUME IInv, Shapes', NEW o \in Ops, Finish(o)
    PROVE  Good
<1> DEFINE c == [db EXCEPT !.ops[o].status = "done", !.ops[o].native = "none"]
<1>1. /\ phase[o] = "settled" /\ Release({o}) /\ db.ops[o].status = "running"
      /\ Sound(db) /\ LaunchedRuns /\ PhaseRows
  BY DEF Finish, IInv, PhaseRows, PhaseFits, InRun
<1>2. \A q \in Ops : phase'[q] = IF q = o THEN "none" ELSE phase[q]
  BY <1>1 DEF Release
<1>3. \A q \in launched : q \in Ops /\ phase'[q] \in {"launched", "ended", "settled", "none"}
  BY <1>2 DEF LaunchedRuns, IInv, EligibleOps
<1>4. PhaseFits(o)'
  BY <1>2 DEF PhaseFits, Waiting, InRun
<1>5. CASE UNCHANGED <<db, launched>>
  <2>1. Sound(db') /\ KeepsLive(db, db', {}) /\ KeepsHeld(db, db', {}) /\ Returns({})
    BY <1>1, <1>5, Keeping, NothingReturned DEF Returns
  <2>2. PhaseRows'
    BY <1>1, <1>2, <2>1, PhasesFollow
  <2>3. LaunchedRuns'
    BY <1>1, <1>3, <1>5, <2>1, LaunchedFollow
  <2> QED
    BY <2>1, <2>2, <2>3 DEF Good, Outcome
<1>6. CASE db' = Forget(c) /\ launched' = Undecided(db', launched)
  <2>1. [db.ops[o] EXCEPT !.status = "done", !.native = "none"] \in Row /\ db.ops[o] \in Row
    BY <1>1 DEF Sound, Kept, Tables, Row
  <2>2. RowEdit(db, c, o, "done", "none")
    <3>1. /\ c \in Tables /\ SameJob(db, c) /\ c.pend = db.pend /\ c.groups = db.groups
          /\ \A q \in Ops : q # o => c.ops[q] = db.ops[q]
          /\ c.ops[o] = [db.ops[o] EXCEPT !.status = "done", !.native = "none"]
      BY <1>1, <2>1 DEF Sound, Kept, Tables, SameJob
    <3> HIDE DEF c
    <3> QED
      BY <2>1, <3>1 DEF RowEdit, Row
  <2> HIDE DEF c
  <2>3. Sound(c) /\ KeepsLive(db, c, {o}) /\ KeepsHeld(db, c, {o})
    BY <1>1, <2>2, RowEditSettles DEF Active
  <2>4. /\ Sound(db') /\ SameJob(c, db') /\ db'.pend = c.pend /\ KeepsRows(c, db', {})
    BY <1>6, <2>3, ForgetSettles
  <2>5. KeepsLive(db, db', {o}) /\ KeepsHeld(db, db', {o}) /\ db'.pend = db.pend
    BY <2>2, <2>3, <2>4 DEF KeepsLive, KeepsHeld, KeepsRows, RowEdit
  <2>6. launched' = launched \ {o}
    BY <1>1, <1>6, <2>4, <2>5, UndecidedLeft
  <2>7. PhaseRows'
    BY <1>1, <1>2, <1>4, <2>5, PhasesFollow
  <2>8. LaunchedRuns'
    BY <1>1, <1>3, <2>5, <2>6, LaunchedFollow
  <2>9. EndsRun(o)
    BY <2>5, <2>6 DEF EndsRun
  <2> QED
    BY <2>4, <2>7, <2>8, <2>9 DEF Good, Outcome
<1> QED
  BY <1>5, <1>6 DEF Finish, Write

\* New rows are queued and admitted; nothing launched is among them.
LEMMA AdmissionStep ==
    ASSUME IInv, NEW d, NEW A, NEW f, NEW F, Admission(d, A, f, F)
    PROVE  Good
<1>1. /\ Sound(d) /\ d.ops = db.ops /\ A \in SUBSET Vaults
      /\ f \in Injection(A, FreeOps)
      /\ \A v \in A : RangeOK(d.pend[v]) /\ ActiveOps(d, v) = {}
      /\ db' = Queued(d, f) /\ launched' = launched
      /\ phase' = [o \in Ops |-> IF o \in Range(f) THEN "admitted" ELSE phase[o]]
  BY DEF Admission, Commit, Write
<1>2. now \in Nat \ {0}
  BY TimesPositive DEF IInv, Shapes
<1>3. /\ Sound(db') /\ KeepsLive(d, db', {})
      /\ \A v \in A : /\ f[v] \in Ops /\ db'.ops[f[v]].status = "queued"
                      /\ HeldIn(db', v) = {f[v]} /\ HeldIn(d, v) = {}
      /\ \A v \in Vaults \ A : HeldIn(db', v) = HeldIn(d, v)
  <2>1. FreeOps \in SUBSET Ops /\ \A o \in FreeOps : d.ops[o] = Free
    BY <1>1 DEF FreeOps
  <2>2. QueuedIn(d, db', A, f)
    BY <1>1, <1>2, <2>1, QueuedSettles
  <2> QED
    BY <2>2 DEF QueuedIn
<1>4. KeepsLive(db, db', {})
  BY <1>1, <1>3 DEF KeepsLive
<1>5. \A o \in Ops : o \in Range(f) => db'.ops[o].status = "queued"
  BY <1>1, <1>3 DEF Injection, Range
<1>6. PhaseRows'
  <2>1. ASSUME NEW o \in Ops PROVE PhaseFits(o)'
    <3>1. CASE o \in Range(f)
      BY <1>1, <1>5, <3>1 DEF PhaseFits, Waiting, InRun
    <3>2. CASE o \notin Range(f)
      <4>1. phase'[o] = phase[o] /\ PhaseFits(o)
        BY <1>1, <3>2 DEF IInv, PhaseRows
      <4> QED
        BY <1>4, <4>1 DEF PhaseFits, KeepsLive, Active, InRun
    <3> QED
      BY <3>1, <3>2
  <2> QED
    BY <2>1 DEF PhaseRows
<1>7. LaunchedRuns'
  <2> SUFFICES ASSUME NEW o \in launched
               PROVE  /\ o \in EligibleOps(db')
                      /\ db'.ops[o].status = "running" /\ db'.ops[o].native \in StepDurable
                      /\ phase'[o] \in {"launched", "ended", "settled", "none"}
    BY <1>1 DEF LaunchedRuns
  <2>1. /\ o \in EligibleOps(db) /\ o \in Ops
        /\ db.ops[o].status = "running" /\ db.ops[o].native \in StepDurable
        /\ phase[o] \in {"launched", "ended", "settled", "none"}
    BY DEF IInv, Shapes, LaunchedRuns
  <2>2. /\ d.ops[o].vault \in Vaults /\ o \in HeldIn(d, d.ops[o].vault)
    BY <1>1, <2>1, HeldBelongs DEF EligibleOps, Active
  <2>3. o \in HeldIn(db', d.ops[o].vault)
    BY <1>3, <2>2
  <2>4. db'.ops[o].status = "running" /\ db'.ops[o].native \in StepDurable
    BY <1>4, <2>1 DEF KeepsLive, Active
  <2>5. o \notin Range(f)
    BY <1>5, <2>1, <2>4
  <2> QED
    BY <1>1, <2>1, <2>3, <2>4, <2>5 DEF HeldIn
<1> QED
  BY <1>3, <1>6, <1>7 DEF Good, Outcome

\* A manual admission touches no occurrence.
LEMMA ManualStep ==
    ASSUME IInv, Shapes', NEW v \in Vaults, NEW o \in Ops, AdmitManual(v, o)
    PROVE  Good
<1>1. /\ db.ops[o] = Free /\ ActiveOps(db, v) = {} /\ launched' = launched
      /\ db' = [db EXCEPT !.ops[o] = [Free EXCEPT !.vault = v, !.status = "queued"]]
      /\ phase' = [phase EXCEPT ![o] = "admitted"]
  BY DEF AdmitManual, FreeOps, Write
<1>2. /\ Sound(db') /\ SameJob(db, db') /\ db'.pend = db.pend /\ KeepsRows(db, db', {})
      /\ db'.ops[o].status = "queued"
  BY <1>1, ManualSettles DEF IInv
<1>3. \A q \in Ops : phase'[q] = IF q = o THEN "admitted" ELSE phase[q]
  BY <1>1 DEF IInv, Shapes
<1>4. PhaseRows'
  <2>1. PhaseFits(o)'
    BY <1>2, <1>3 DEF PhaseFits, Waiting, InRun
  <2>2. KeepsLive(db, db', {o})
    BY <1>2 DEF KeepsRows, KeepsLive
  <2> QED
    BY <1>3, <2>1, <2>2, PhasesFollow DEF IInv
<1>5. LaunchedRuns'
  <2>1. o \notin launched
    BY <1>1 DEF IInv, LaunchedRuns, Free
  <2>2. \A q \in launched : q \in Ops /\ phase'[q] \in {"launched", "ended", "settled", "none"}
    BY <1>3, <2>1 DEF IInv, LaunchedRuns, EligibleOps
  <2> QED
    BY <1>1, <1>2, <2>2, LaunchedFollow DEF IInv, KeepsRows
<1>6. Returns({})
  BY <1>1, <1>2, NothingReturned DEF KeepsRows, Returns
<1> QED
  BY <1>2, <1>4, <1>5, <1>6 DEF Good, Outcome

\* The owner's edit clears only what no run holds.
LEMMA UpdateStep ==
    ASSUME IInv, Shapes', NEW manual \in BOOLEAN, NEW newSchedule \in BOOLEAN,
           NEW targets \in SUBSET Vaults, UpdateJob(manual, newSchedule, targets)
    PROVE  Good
<1> DEFINE next == CASE manual -> NoTime
                     [] ~manual /\ (db.manual \/ newSchedule) -> now + Interval
                     [] OTHER -> db.nextRun
           pend(v) == IF v \in ClearedBy(manual, targets) THEN NoPending ELSE db.pend[v]
           row(o) == IF db.ops[o].vault \in Vaults \ targets THEN Free ELSE db.ops[o]
           c == [db EXCEPT !.manual = manual, !.targets = targets, !.nextRun = next,
                    !.pend = [v \in Vaults |-> pend(v)], !.ops = [o \in Ops |-> row(o)]]
<1>1. JobIdle /\ db' = DropEmptyGroups(c) /\ phase' = phase /\ launched' = launched
  BY DEF UpdateJob, Write
<1>2. db \in Tables /\ now \in Nat /\ Interval \in Nat
  BY TimesPositive DEF IInv, Sound, Kept, Shapes
<1>3. \A o \in Ops : db.ops[o].status \notin Active
  BY <1>1 DEF JobIdle, ActiveOps, IInv, Sound, Kept, NamedRows, Free, Active
<1>4. next \in Nat /\ (manual => next = NoTime)
  BY <1>2 DEF Tables, NoTime
<1>5. (\A v \in Vaults : pend(v) \in Pending) /\ (\A o \in Ops : row(o) \in Row)
  BY <1>2, NoPendingType, FreeType DEF Tables
<1> HIDE DEF next
<1>6. /\ c \in Tables /\ c.manual = manual /\ c.targets = targets /\ c.nextRun = next
      /\ c.groups = db.groups
      /\ \A v \in Vaults : c.pend[v] = pend(v)
      /\ \A o \in Ops : c.ops[o] = row(o)
  <2> HIDE DEF pend, row
  <2> QED
    BY <1>2, <1>4, <1>5 DEF Tables
<1> HIDE DEF c
<1>7. Kept(c) /\ \A o \in Ops : c.ops[o].status \notin Active
  BY <1>3, <1>4, <1>6, CutKept DEF IInv
<1>8. Sound(db') /\ db'.pend = c.pend /\ db'.ops = c.ops
  BY <1>1, <1>7, DropSettles
<1>9. launched = {}
  BY <1>3 DEF IInv, LaunchedRuns, EligibleOps, Active
<1>10. \A o \in Ops : phase[o] \notin Waiting \cup InRun
  BY <1>3 DEF IInv, PhaseRows, PhaseFits, Active
<1>11. PhaseRows' /\ LaunchedRuns'
  BY <1>1, <1>9, <1>10 DEF PhaseRows, PhaseFits, LaunchedRuns, InRun
<1>12. Clears
  <2>1. \A v \in Vaults : HeldIn(db, v) = {} /\ HeldIn(db', v) = {}
    BY <1>3, <1>7, <1>8 DEF HeldIn, EligibleOps
  <2> QED
    BY <1>1, <1>6, <1>8, <2>1 DEF Clears
<1> QED
  BY <1>8, <1>11, <1>12 DEF Good, Outcome

\* A restart leaves no row held, no operation in memory, and nothing launched.
LEMMA RestartStep ==
    ASSUME IInv, Restart
    PROVE  Good
<1>1. db' = Migrate(db) /\ Release(Ops) /\ launched' = {}
  BY DEF Restart, Write
<1>2. /\ Sound(db') /\ \A v \in Vaults : HeldIn(db', v) = {}
      /\ GivenBack(db, db', Unstarted(db))
  BY <1>1, MigrateSettles DEF IInv
<1>3. \A o \in Ops : phase'[o] = "none"
  BY <1>1 DEF Release
<1>4. PhaseRows' /\ LaunchedRuns'
  BY <1>1, <1>3 DEF PhaseRows, PhaseFits, LaunchedRuns, Waiting, InRun
<1>5. Restarts
  BY <1>1, <1>2 DEF Restarts
<1> QED
  BY <1>2, <1>4, <1>5 DEF Good, Outcome

----------------------------------------------------------------------------
(* The invariant holds, and what follows from it.                           *)

\* A new job has sound tables.
LEMMA SoundInit == Init => Sound(db)
<1> SUFFICES ASSUME Init PROVE Sound(db)
  OBVIOUS
<1>1. /\ db.enabled = TRUE /\ db.manual = FALSE /\ db.targets = Vaults /\ db.nextRun = 1
      /\ db.lastRun = NoTime /\ db.pend = [v \in Vaults |-> NoPending]
      /\ db.ops = [o \in Ops |-> Free] /\ db.groups = {}
  BY DEF Init
<1>2. db \in Tables
  BY NoPendingType, FreeType DEF Init, Tables, NoTime
<1>3. \A o \in Ops : db.ops[o] = Free /\ db.ops[o].rest = "none" /\ db.ops[o].status \notin Active
  BY <1>1 DEF Free, Active
<1>4. Bounded(db.groups) /\ GroupedRows(db) /\ GroupsSound(db)
  BY <1>1, <1>3 DEF Bounded, GroupedRows, GroupsSound
<1>5. NamedRows(db) /\ QueuedRows(db) /\ OneLive(db)
  BY <1>3 DEF NamedRows, QueuedRows, OneLive, Active
<1>6. RangesParse(db) /\ NothingBehind(db) /\ ManualHasNoTime(db)
  BY <1>1, <1>3 DEF RangesParse, NothingBehind, ManualHasNoTime, EligibleOps
<1> QED
  BY <1>2, <1>4, <1>5, <1>6 DEF Sound, Kept

\* The invariant holds at the start.
LEMMA InitInv == Init => IInv
<1>1. Init => PhaseRows /\ LaunchedRuns
  BY DEF Init, PhaseRows, PhaseFits, LaunchedRuns, Waiting, InRun
<1> QED
  BY <1>1, SoundInit, ShapesInit DEF IInv

\* A change of the schedule or the switch alone is a quiet step.
LEMMA JobStep ==
    ASSUME IInv, Shapes', db' \in Tables, phase' = phase, launched' = launched,
           db'.manual = db.manual /\ db'.targets = db.targets /\ db'.pend = db.pend
           /\ db'.ops = db.ops /\ db'.groups = db.groups,
           db.manual => db'.nextRun = db.nextRun
    PROVE  Good
<1>1. Sound(db') /\ KeepsRows(db, db', {})
  BY JobEditSettles DEF IInv
<1> QED
  BY <1>1, QuietStep

\* Every step of the scheduler pass.
LEMMA SchedulerStep ==
    ASSUME IInv, Shapes', Scheduler
    PROVE  Good
<1>1. Sound(db) /\ db \in Tables /\ KeepsRows(db, db, {}) /\ now \in Nat /\ Interval \in Nat
  BY Keeping, TimesPositive DEF IInv, Sound, Kept, KeepsRows, Shapes
<1>2. CASE (\E S \in SUBSET Vaults : ReadDue(S)) \/ AdmitPaused \/ AdmissionRefused
  <2>1. db' = db /\ phase' = phase /\ launched' = launched
    BY <1>2 DEF ReadDue, AdmitPaused, AdmissionRefused
  <2> QED
    BY <1>1, <2>1, QuietStep
<1>3. CASE ActivatePersisted
  <2>1. /\ db' = db /\ launched' = launched
        /\ \A o \in Ops : phase'[o] = IF phase[o] = "admitted" THEN "queued" ELSE phase[o]
    BY <1>3 DEF ActivatePersisted
  <2> QED
    BY <1>1, <2>1, QuietStep DEF Waiting
<1>4. CASE RescheduleNextRun
  <2>1. /\ db' = [db EXCEPT !.nextRun = now + Interval] /\ ~db.manual
        /\ phase' = phase /\ launched' = launched
    BY <1>4 DEF RescheduleNextRun, Write
  <2>2. now + Interval \in Nat
    BY <1>1
  <2>3. /\ db' \in Tables
        /\ db'.manual = db.manual /\ db'.targets = db.targets /\ db'.pend = db.pend
        /\ db'.ops = db.ops /\ db'.groups = db.groups
    BY <1>1, <2>1, <2>2 DEF Tables
  <2> QED
    BY <2>1, <2>3, JobStep
<1>5. CASE Admits
  <2>1. PICK d, A, f, F : Admission(d, A, f, F)
    BY <1>1, <1>5, AdmissionSummary DEF IInv, Shapes
  <2> QED
    BY <2>1, AdmissionStep
<1>6. CASE ActivationFails
  <2> DEFINE S == InPhase({"admitted"})
  <2>1. /\ S \in SUBSET Ops /\ \A o \in S : phase[o] \in Waiting
        /\ db' = InterruptAll(db, S) \/ db' = db
        /\ Release(S) /\ launched' = launched
    BY <1>6 DEF ActivationFails, InPhase, Write, Waiting
  <2> HIDE DEF S
  <2>2. CASE db' = InterruptAll(db, S)
    BY <2>1, <2>2, InterruptStep
  <2>3. CASE db' = db
    <3>1. \A o \in Ops : phase'[o] = phase[o] \/ phase'[o] = "none"
      BY <2>1 DEF Release
    <3> QED
      BY <1>1, <2>1, <2>3, <3>1, QuietStep
  <2> QED
    BY <2>1, <2>2, <2>3
<1> QED
  BY <1>2, <1>3, <1>4, <1>5, <1>6 DEF Scheduler, Admits

\* Every step of a run.
LEMMA RunStep ==
    ASSUME IInv, Shapes', NEW o \in Ops, Run(o)
    PROVE  Good
<1>1. Sound(db) /\ db \in Tables /\ KeepsRows(db, db, {}) /\ db.ops[o] \in Row
  BY Keeping DEF IInv, Sound, Kept, KeepsRows, Tables
<1>2. /\ phase[o] \in {"running", "checked", "paused"} => o \notin launched
      /\ phase[o] \in Waiting => o \notin launched
  BY DEF IInv, LaunchedRuns, Waiting
<1>3. PhaseFits(o) /\ phase \in [Ops -> Phases]
  BY DEF IInv, PhaseRows, Shapes
<1>4. ASSUME NEW n \in {"running", "finished", "skipped"},
             db' = [db EXCEPT !.ops[o].native = n], db.ops[o].status = "running"
      PROVE  RowEdit(db, db', o, "running", n)
  <2>1. [db.ops[o] EXCEPT !.native = n] \in Row
    BY <1>1 DEF Row
  <2>2. /\ db' \in Tables /\ SameJob(db, db') /\ db'.pend = db.pend /\ db'.groups = db.groups
        /\ \A q \in Ops : q # o => db'.ops[q] = db.ops[q]
        /\ db'.ops[o] = [db.ops[o] EXCEPT !.native = n]
    BY <1>1, <1>4, <2>1 DEF Tables, SameJob
  <2> QED
    BY <1>1, <1>4, <2>2 DEF RowEdit, Row
<1>5. ASSUME db' = db, db.ops[o].status = "running"
      PROVE  RowEdit(db, db', o, "running", db.ops[o].native)
  BY <1>1, <1>5 DEF RowEdit, SameJob
<1>6. CASE BeginRun(o)
  <2>1. /\ db.ops[o].status = "queued" /\ phase[o] = "queued" /\ launched' = launched
        /\ db' = [db EXCEPT !.ops[o].status = "running"] /\ phase' = [phase EXCEPT ![o] = "running"]
    BY <1>6 DEF BeginRun, Write
  <2>2. [db.ops[o] EXCEPT !.status = "running"] \in Row
    BY <1>1 DEF Row, Active
  <2>3. /\ db' \in Tables /\ SameJob(db, db') /\ db'.pend = db.pend /\ db'.groups = db.groups
        /\ \A q \in Ops : q # o => db'.ops[q] = db.ops[q]
        /\ db'.ops[o] = [db.ops[o] EXCEPT !.status = "running"]
    BY <1>1, <2>1, <2>2 DEF Tables, SameJob
  <2>4. RowEdit(db, db', o, "running", db.ops[o].native)
    BY <1>1, <2>3 DEF RowEdit, Row
  <2>5. phase'[o] = "running" /\ db.ops[o].status \in Active /\ o \notin launched
        /\ phase' = [phase EXCEPT ![o] = phase'[o]] /\ phase'[o] \in InRun
    BY <1>2, <1>3, <2>1 DEF Active, Waiting, InRun
  <2> QED
    BY <2>1, <2>4, <2>5, RunEditStep
<1>7. CASE BeginFails(o)
  <2>1. /\ phase[o] = "queued" /\ Release({o}) /\ launched' = launched
        /\ db' = InterruptAll(db, {o}) \/ db' = db
    BY <1>7 DEF BeginFails, Write, RestoreQueued
  <2>2. CASE db' = InterruptAll(db, {o})
    BY <2>1, <2>2, InterruptStep DEF Waiting
  <2>3. CASE db' = db
    <3>1. \A q \in Ops : phase'[q] = phase[q] \/ phase'[q] = "none"
      BY <2>1 DEF Release
    <3> QED
      BY <1>1, <2>1, <2>3, <3>1, QuietStep
  <2> QED
    BY <2>1, <2>2, <2>3
<1>8. CASE StartNative(o)
  <2>1. /\ phase[o] = "running" /\ launched' = launched
        /\ db' = [db EXCEPT !.ops[o].native = "running"] /\ phase' = [phase EXCEPT ![o] = "checked"]
    BY <1>8 DEF StartNative, Write
  <2>2. db.ops[o].status = "running" /\ db.ops[o].status \in Active /\ o \notin launched
        /\ phase' = [phase EXCEPT ![o] = phase'[o]] /\ phase'[o] \in InRun
    BY <1>2, <1>3, <2>1 DEF PhaseFits, InRun, Active
  <2>3. RowEdit(db, db', o, "running", "running")
    BY <1>4, <2>1, <2>2
  <2> QED
    BY <2>1, <2>2, <2>3, RunEditStep DEF StepDurable
<1>9. CASE Launch(o)
  <2>1. /\ phase[o] = "checked" /\ db' = db /\ launched' = Undecided(db, launched \cup {o})
        /\ phase' = [phase EXCEPT ![o] = "launched"]
    BY <1>9 DEF Launch
  <2>2. db.ops[o].status = "running" /\ db.ops[o].native \in StepDurable
    BY <1>3, <2>1 DEF PhaseFits, InRun
  <2>3. launched' = launched \cup ({o} \cap EligibleOps(db))
    BY <2>1, <2>2 DEF Undecided, IInv, LaunchedRuns, EligibleOps, Active
  <2>4. Starts(o)
    BY <2>1, <2>2, <2>3 DEF Starts
  <2>5. /\ \A q \in Ops : phase'[q] = IF q = o THEN "launched" ELSE phase[q]
        /\ db' = db
    BY <1>3, <2>1
  <2>6. PhaseRows'
    BY <2>2, <2>5 DEF IInv, PhaseRows, PhaseFits, Waiting, InRun
  <2>7. LaunchedRuns'
    BY <2>2, <2>3, <2>5 DEF IInv, LaunchedRuns, EligibleOps
  <2> QED
    BY <1>1, <2>1, <2>4, <2>6, <2>7 DEF Good, Outcome
<1>10. ASSUME NEW how \in {"ended", "paused"}, EndBeforeNative(o, how) PROVE Good
  <2>1. /\ phase[o] \in {"running", "checked"} /\ launched' = launched
        /\ phase' = [phase EXCEPT ![o] = how]
        /\ db' = [db EXCEPT !.ops[o].native = "skipped"] \/ db' = db
    BY <1>10 DEF EndBeforeNative, Write
  <2>2. db.ops[o].status = "running" /\ db.ops[o].status \in Active /\ o \notin launched
        /\ phase' = [phase EXCEPT ![o] = phase'[o]] /\ phase'[o] \in InRun /\ phase'[o] # "checked"
    BY <1>2, <1>3, <2>1 DEF PhaseFits, InRun, Active
  <2>3. \E n : RowEdit(db, db', o, "running", n)
    BY <1>4, <1>5, <2>1, <2>2
  <2> QED
    BY <2>1, <2>2, <2>3, RunEditStep
<1>11. CASE NativeReturns(o)
  <2>1. /\ phase[o] = "launched" /\ launched' = launched
        /\ phase' = [phase EXCEPT ![o] = "ended"]
        /\ db' = [db EXCEPT !.ops[o].native = "finished"] \/ db' = db
    BY <1>11 DEF NativeReturns, Write
  <2>2. db.ops[o].status = "running" /\ db.ops[o].status \in Active
        /\ phase' = [phase EXCEPT ![o] = phase'[o]] /\ phase'[o] = "ended" /\ "ended" \in InRun
    BY <1>3, <2>1 DEF PhaseFits, InRun, Active
  <2>3. o \in launched => db.ops[o].native \in StepDurable
    BY DEF IInv, LaunchedRuns
  <2>4. PICK n : RowEdit(db, db', o, "running", n) /\ (o \in launched => n \in StepDurable)
    BY <1>4, <1>5, <2>1, <2>2, <2>3 DEF StepDurable
  <2> QED
    BY <2>1, <2>2, <2>4, RunEditStep
<1>12. ASSUME NEW filesystem \in BOOLEAN, Settle(o, filesystem) PROVE Good
  BY <1>12, SettleStep
<1>13. CASE Finish(o)
  BY <1>13, FinishStep
<1> QED
  BY <1>6, <1>7, <1>8, <1>9, <1>10, <1>11, <1>12, <1>13 DEF Run

\* Every request of the user.
LEMMA UserStep ==
    ASSUME IInv, Shapes', User
    PROVE  Good
<1>1. Sound(db) /\ db \in Tables /\ KeepsRows(db, db, {}) /\ now \in Nat /\ Interval \in Nat
  BY Keeping, TimesPositive DEF IInv, Sound, Kept, KeepsRows, Shapes
<1>2. ASSUME NEW v \in Vaults, NEW o \in Ops, AdmitManual(v, o) PROVE Good
  BY <1>2, ManualStep
<1>3. ASSUME NEW S \in SUBSET Ops, Interrupt(S) PROVE Good
  <2>1. /\ \A o \in S : phase[o] \in Waiting
        /\ db' = InterruptAll(db, S) /\ Release(S) /\ launched' = launched
    BY <1>3 DEF Interrupt, InPhase, Write, Waiting
  <2> QED
    BY <2>1, InterruptStep
<1>4. ASSUME NEW o \in Ops, InterruptFails(o) PROVE Good
  <2>1. /\ phase[o] \in {"queued", "quarantined"} /\ db' = db /\ launched' = launched
        /\ \A q \in Ops : phase'[q] = IF q = o THEN "quarantined" ELSE phase[q]
    BY <1>4 DEF InterruptFails, IInv, Shapes
  <2> QED
    BY <1>1, <2>1, QuietStep DEF Waiting
<1>5. ASSUME NEW b \in BOOLEAN, SetJobEnabled(b) PROVE Good
  <2> DEFINE next == IF b /\ ~db.manual /\ BeyondSchedule(db.nextRun) THEN now + Interval
                     ELSE db.nextRun
  <2>1. /\ db' = [db EXCEPT !.enabled = b, !.nextRun = next]
        /\ phase' = phase /\ launched' = launched
    BY <1>5 DEF SetJobEnabled, Write
  <2>2. next \in Nat /\ (db.manual => next = db.nextRun)
    BY <1>1 DEF Tables
  <2> HIDE DEF next
  <2>3. /\ db' \in Tables /\ db'.nextRun = next
        /\ db'.manual = db.manual /\ db'.targets = db.targets /\ db'.pend = db.pend
        /\ db'.ops = db.ops /\ db'.groups = db.groups
    BY <1>1, <2>1, <2>2 DEF Tables
  <2> QED
    BY <2>1, <2>2, <2>3, JobStep
<1>6. ASSUME NEW manual \in BOOLEAN, NEW newSchedule \in BOOLEAN, NEW targets \in SUBSET Vaults,
             UpdateJob(manual, newSchedule, targets)
      PROVE  Good
  BY <1>6, UpdateStep
<1> QED
  BY <1>2, <1>3, <1>4, <1>5, <1>6 DEF User

\* Every step keeps the invariant and has one of the outcomes.
LEMMA NextGood ==
    ASSUME IInv, Next
    PROVE  Shapes' /\ Good
<1>1. Shapes'
  BY ShapesStep DEF IInv
<1>2. Sound(db) /\ KeepsRows(db, db, {})
  BY Keeping DEF IInv, KeepsRows
<1>3. ASSUME NEW t \in 1..MaxTime, SetClock(t) PROVE Good
  <2>1. db' = db /\ phase' = phase /\ launched' = launched
    BY <1>3 DEF SetClock
  <2> QED
    BY <1>1, <1>2, <2>1, QuietStep
<1>4. CASE Scheduler
  BY <1>1, <1>4, SchedulerStep
<1>5. ASSUME NEW o \in Ops, Run(o) PROVE Good
  BY <1>1, <1>5, RunStep
<1>6. CASE User
  BY <1>1, <1>6, UserStep
<1>7. ASSUME NEW o \in Ops, Prune(o) PROVE Good
  <2>1. /\ db' = DropEmptyGroups([db EXCEPT !.ops[o] = Free]) /\ db.ops[o].status \notin Active
        /\ phase' = phase /\ launched' = launched
    BY <1>7 DEF Prune, Write, Active
  <2>2. Sound(db') /\ db'.pend = db.pend /\ KeepsRows(db, db', {})
    BY <1>2, <2>1, PruneSettles
  <2> QED
    BY <1>1, <2>1, <2>2, QuietStep
<1>8. CASE Restart
  BY <1>1, <1>8, RestartStep
<1>9. Good
  BY ONLY Next, <1>3, <1>4, <1>5, <1>6, <1>7, <1>8 DEF Next
<1> QED
  BY <1>1, <1>9

\* The invariant is inductive ...
LEMMA NextInv == IInv /\ [Next]_vars => IInv'
<1> SUFFICES ASSUME IInv, [Next]_vars PROVE IInv'
  OBVIOUS
<1>1. CASE Next
  BY <1>1, NextGood DEF Good, IInv
<1>2. CASE UNCHANGED vars
  BY <1>2 DEF vars, IInv, Shapes, PhaseRows, PhaseFits, LaunchedRuns
<1> QED
  BY <1>1, <1>2

\* ... and so it holds in every reachable state.
LEMMA Inductive == Spec => []IInv
  BY InitInv, NextInv, PTL DEF Spec

(* Every variable keeps its shape, and every restoration row its admission  *)
(* group: reconcileLastRunAt never cuts a group that a row still names.     *)
THEOREM TypeCorrect == Spec => []TypeOK
<1>1. IInv => TypeOK
  BY DEF IInv, Sound, Kept, GroupedRows, Shapes, TypeOK
<1> QED
  BY <1>1, Inductive, PTL

(* A job and vault never have two live rows, and a vault that left the job, *)
(* or a job that turned manual, keeps no occurrence that would run later.   *)
THEOREM NeverAnExtraRun == Spec => []NoExtraRun
<1>1. ASSUME IInv PROVE OneRunPerPair
  <2> SUFFICES ASSUME NEW v \in Vaults PROVE Cardinality(ActiveOps(db, v)) <= 1
    BY DEF OneRunPerPair
  <2>1. \A o, q \in ActiveOps(db, v) : o = q
    BY <1>1 DEF IInv, Sound, Kept, OneLive, ActiveOps
  <2>2. CASE ActiveOps(db, v) = {}
    BY <2>2, FS_EmptySet
  <2>3. CASE ActiveOps(db, v) # {}
    <3>1. PICK o : ActiveOps(db, v) = {o}
      BY <2>1, <2>3
    <3> QED
      BY <3>1, FS_Singleton
  <2> QED
    BY <2>2, <2>3
<1>2. ASSUME IInv PROVE NothingLeftBehind
  <2> SUFFICES ASSUME NEW v \in Vaults, Gone(db, v)
               PROVE  /\ db.pend[v] = NoPending
                      /\ \A o \in ActiveOps(db, v) : db.ops[o].rest # "eligible"
    BY DEF NothingLeftBehind, Gone
  <2> QED
    BY <1>2 DEF IInv, Sound, Kept, NothingBehind, ActiveOps, EligibleOps
<1>3. IInv => NoExtraRun
  BY <1>1, <1>2 DEF NoExtraRun
<1> QED
  BY <1>3, Inductive, PTL

(* No history of clock jumps, admissions, cancels, retention, failed writes *)
(* and restarts makes tables that the bookkeeping of availability.go would  *)
(* refuse: a held occurrence can always be put back, and Migrate commits.   *)
THEOREM BookkeepingNeverRefuses == Spec => []BookkeepingAccepts
<1>1. ASSUME IInv PROVE BookkeepingAccepts
  <2>1. Sound(db)
    BY <1>1 DEF IInv
  <2>2. \A o \in EligibleOps(db) : db.ops[o].rest = "eligible" /\ db.ops[o].vault \in Vaults
    BY <2>1 DEF Sound, Kept, NamedRows, EligibleOps, Free
  <2>3. \A o \in EligibleOps(db) : MayPutBack(db, o)
    BY <2>1, <2>2 DEF Sound, Kept, RangesParse, MayPutBack
  <2>4. MigrateAccepts(db)
    BY <2>1, MigrateSettles
  <2> QED
    BY <2>1, <2>3, <2>4 DEF BookkeepingAccepts, Sound, Kept, RangesParse
<1>2. IInv => BookkeepingAccepts
  BY <1>1
<1> QED
  BY <1>2, Inductive, PTL

----------------------------------------------------------------------------
(* The refinement of CatchUpPromise.                                        *)

\* How many occurrences the run of v holds.
Occurrences(d, v) ==
    IF HeldIn(d, v) = {} THEN 0 ELSE d.ops[CHOOSE o \in HeldIn(d, v) : TRUE].due.count

\* The run of v, if there is one, has started its native backup.
Begun(v) == HeldIn(db, v) \cap launched # {}

\* A pair has one row that holds its occurrences, some.
LEMMA HeldOne ==
    ASSUME NEW d, Sound(d), NEW v \in Vaults, NEW o \in HeldIn(d, v)
    PROVE  /\ HeldIn(d, v) = {o} /\ o \in Ops
           /\ Occurrences(d, v) = d.ops[o].due.count /\ Occurrences(d, v) > 0
<1>1. o \in EligibleOps(d) /\ d.ops[o].status \in Active /\ d.ops[o].vault = v
  BY DEF HeldIn
<1>2. /\ o \in Ops /\ RangeOK(d.ops[o].due)
      /\ \A q \in HeldIn(d, v) : q = o
  BY <1>1, HeldBelongs
<1>3. HeldIn(d, v) = {o}
  BY <1>2
<1>4. (CHOOSE q \in HeldIn(d, v) : TRUE) = o
  BY <1>3
<1> QED
  BY <1>2, <1>3, <1>4 DEF Occurrences, RangeOK

\* Without such a row it holds none.
LEMMA HeldNone == \A d, v : HeldIn(d, v) = {} => Occurrences(d, v) = 0
  BY DEF Occurrences

\* The same row with the same range holds the same.
LEMMA HeldSame ==
    ASSUME NEW d, Sound(d), NEW e, Sound(e), NEW v \in Vaults, HeldIn(e, v) = HeldIn(d, v),
           \A o \in HeldIn(e, v) : e.ops[o].due = d.ops[o].due
    PROVE  Occurrences(e, v) = Occurrences(d, v)
<1>1. CASE HeldIn(d, v) = {}
  BY <1>1, HeldNone
<1>2. ASSUME NEW o \in HeldIn(d, v) PROVE Occurrences(e, v) = Occurrences(d, v)
  BY <1>2, HeldOne
<1> QED
  BY <1>1, <1>2

\* What the refinement mapping calls held is what the lemmas do.
LEMMA Seen ==
    ASSUME NEW v \in Vaults
    PROVE  /\ HeldBy(v) = HeldIn(db, v) /\ HeldBy(v)' = HeldIn(db', v)
           /\ Begun(v)' <=> HeldIn(db', v) \cap launched' # {}
  BY DEF HeldBy, HeldIn, Begun, EligibleOps

\* The vaults that the promise takes to hold occurrences.
LEMMA SeenHolding == \A v \in Vaults : v \in Promise!Holding <=> Occurrences(db, v) > 0
  BY Seen DEF Promise!Holding, Occurrences

\* Each move of the promise, as it shows in the tables.  Nothing moves.
LEMMA SeenStay ==
    ASSUME NEW v \in Vaults, db'.pend[v].count = db.pend[v].count,
           Occurrences(db', v) = Occurrences(db, v), Begun(v)' <=> Begun(v)
    PROVE  Promise!Stay(v)
  BY Seen DEF Promise!Stay, Promise!Becomes, Promise!KeepsLaunched, Occurrences, Begun

\* One more occurrence waits.
LEMMA SeenComeDue ==
    ASSUME NEW v \in Vaults, db'.pend[v].count = db.pend[v].count + 1,
           Occurrences(db', v) = Occurrences(db, v), Begun(v)' <=> Begun(v)
    PROVE  Promise!ComeDue(v)
  BY Seen DEF Promise!ComeDue, Promise!Becomes, Promise!KeepsLaunched, Occurrences, Begun

\* A new run takes all that waited, and perhaps the occurrence now due.
LEMMA SeenTake ==
    ASSUME NEW v \in Vaults, ~(Occurrences(db, v) > 0), ~Begun(v)', db'.pend[v].count = 0,
           Occurrences(db', v) \in {db.pend[v].count, db.pend[v].count + 1},
           Occurrences(db', v) > 0
    PROVE  Promise!Take(v)
<1>1. v \notin Promise!Holding
  BY SeenHolding
<1> QED
  BY <1>1, Seen DEF Promise!Take, Promise!Becomes, Occurrences, Begun

\* The run that holds them starts its native backup.
LEMMA SeenLaunch ==
    ASSUME NEW v \in Vaults, Occurrences(db, v) > 0, Begun(v)',
           db'.pend[v].count = db.pend[v].count, Occurrences(db', v) = Occurrences(db, v)
    PROVE  Promise!Launch(v)
<1>1. v \in Promise!Holding
  BY SeenHolding
<1> QED
  BY <1>1, Seen DEF Promise!Launch, Promise!Becomes, Occurrences, Begun

\* A run that was never launched gives all of its occurrences back.
LEMMA SeenGiveBack ==
    ASSUME NEW v \in Vaults, Occurrences(db, v) > 0, ~Begun(v), ~Begun(v)',
           db'.pend[v].count = db.pend[v].count + Occurrences(db, v), Occurrences(db', v) = 0
    PROVE  Promise!GiveBack(v)
<1>1. v \in Promise!Holding
  BY SeenHolding
<1> QED
  BY <1>1, Seen DEF Promise!GiveBack, Promise!Becomes, Occurrences, Begun

\* A run uses its occurrences up, and nothing that waits.
LEMMA SeenFinish ==
    ASSUME NEW v \in Vaults, Occurrences(db, v) > 0, ~Begun(v)',
           db'.pend[v].count = db.pend[v].count, Occurrences(db', v) = 0
    PROVE  Promise!Finish(v)
<1>1. v \in Promise!Holding
  BY SeenHolding
<1> QED
  BY <1>1, Seen DEF Promise!Finish, Promise!Becomes, Occurrences, Begun

\* The notice uses up both.
LEMMA SeenNotice ==
    ASSUME NEW v \in Vaults, Occurrences(db, v) > 0, ~Begun(v), ~Begun(v)',
           db'.pend[v].count = 0, Occurrences(db', v) = 0
    PROVE  Promise!Notice(v)
<1>1. v \in Promise!Holding
  BY SeenHolding
<1> QED
  BY <1>1, Seen DEF Promise!Notice, Promise!Becomes, Occurrences, Begun

\* What waits is dropped.
LEMMA SeenDrop ==
    ASSUME NEW v \in Vaults, db'.pend[v].count = 0,
           Occurrences(db', v) = Occurrences(db, v), Begun(v)' <=> Begun(v),
           Promise!Holding = {} \/ \E u \in Vaults \ {v} : Promise!Take(u)
    PROVE  Promise!Drop(v)
  BY Seen DEF Promise!Drop, Promise!Becomes, Promise!KeepsLaunched, Occurrences, Begun

\* Rows that return their occurrences: each vault gives back or stays.
LEMMA ReturnsMoves ==
    ASSUME IInv, Sound(db'), NEW S, Returns(S), NEW v \in Vaults
    PROVE  Promise!Move(v)
<1>1. /\ Sound(db) /\ launched' = launched /\ S \cap launched = {}
      /\ HeldIn(db', v) = HeldIn(db, v) \ S
      /\ \A o \in HeldIn(db', v) : db'.ops[o].due = db.ops[o].due
      /\ HeldIn(db, v) \cap S = {} => db'.pend[v] = db.pend[v]
      /\ \A o \in HeldIn(db, v) \cap S : db'.pend[v].count = db.pend[v].count + db.ops[o].due.count
  BY DEF IInv, Returns, KeepsHeld, GivenBack
<1>2. CASE HeldIn(db, v) \cap S = {}
  <2>1. HeldIn(db', v) = HeldIn(db, v) /\ db'.pend[v] = db.pend[v]
    BY <1>1, <1>2
  <2>2. Occurrences(db', v) = Occurrences(db, v) /\ (Begun(v)' <=> Begun(v))
    BY <1>1, <2>1, HeldSame DEF Begun
  <2> QED
    BY <2>1, <2>2, SeenStay DEF Promise!Move
<1>3. ASSUME NEW o \in HeldIn(db, v) \cap S PROVE Promise!GiveBack(v)
  <2>1. /\ HeldIn(db, v) = {o} /\ Occurrences(db, v) = db.ops[o].due.count
        /\ Occurrences(db, v) > 0
    BY <1>1, <1>3, HeldOne
  <2>2. HeldIn(db', v) = {} /\ Occurrences(db', v) = 0
    BY <1>1, <1>3, <2>1, HeldNone
  <2>3. ~Begun(v) /\ ~Begun(v)'
    BY <1>1, <1>3, <2>1, <2>2 DEF Begun
  <2> QED
    BY <1>1, <1>3, <2>1, <2>2, <2>3, SeenGiveBack
<1> QED
  BY <1>2, <1>3 DEF Promise!Move

\* A run that ends: its vault finishes, the others stay.
LEMMA EndsRunMoves ==
    ASSUME IInv, Sound(db'), NEW o, EndsRun(o), NEW v \in Vaults
    PROVE  Promise!Move(v)
<1>1. /\ Sound(db) /\ launched' = launched \ {o} /\ db'.pend = db.pend
      /\ HeldIn(db', v) = HeldIn(db, v) \ {o}
      /\ \A q \in HeldIn(db', v) : db'.ops[q].due = db.ops[q].due
  BY DEF IInv, EndsRun, KeepsHeld
<1>2. CASE o \notin HeldIn(db, v)
  <2>1. HeldIn(db', v) = HeldIn(db, v)
    BY <1>1, <1>2
  <2>2. Occurrences(db', v) = Occurrences(db, v) /\ (Begun(v)' <=> Begun(v))
    BY <1>1, <1>2, <2>1, HeldSame DEF Begun
  <2> QED
    BY <1>1, <2>2, SeenStay DEF Promise!Move
<1>3. CASE o \in HeldIn(db, v)
  <2>1. HeldIn(db, v) = {o} /\ Occurrences(db, v) > 0
    BY <1>1, <1>3, HeldOne
  <2>2. HeldIn(db', v) = {} /\ Occurrences(db', v) = 0
    BY <1>1, <2>1, HeldNone
  <2>3. ~Begun(v)'
    BY <2>2 DEF Begun
  <2> QED
    BY <1>1, <2>1, <2>2, <2>3, SeenFinish DEF Promise!Move
<1> QED
  BY <1>2, <1>3

\* A run that becomes the notice: its vault notifies, the others stay.
LEMMA NotifiesMoves ==
    ASSUME IInv, Sound(db'), NEW o, Notifies(o), NEW v \in Vaults
    PROVE  Promise!Move(v)
<1>1. /\ Sound(db) /\ launched' = launched /\ o \notin launched
      /\ o \in EligibleOps(db) /\ db.ops[o].status \in Active
      /\ HeldIn(db', v) = HeldIn(db, v) \ {o}
      /\ \A q \in HeldIn(db', v) : db'.ops[q].due = db.ops[q].due
      /\ db'.pend[v] = IF v = db.ops[o].vault THEN NoPending ELSE db.pend[v]
  BY DEF IInv, Notifies, KeepsHeld
<1>2. CASE v # db.ops[o].vault
  <2>1. HeldIn(db', v) = HeldIn(db, v) /\ db'.pend[v] = db.pend[v]
    BY <1>1, <1>2 DEF HeldIn
  <2>2. Occurrences(db', v) = Occurrences(db, v) /\ (Begun(v)' <=> Begun(v))
    BY <1>1, <2>1, HeldSame DEF Begun
  <2> QED
    BY <2>1, <2>2, SeenStay DEF Promise!Move
<1>3. CASE v = db.ops[o].vault
  <2>1. o \in HeldIn(db, v)
    BY <1>1, <1>3 DEF HeldIn
  <2>2. HeldIn(db, v) = {o} /\ Occurrences(db, v) > 0
    BY <1>1, <2>1, HeldOne
  <2>3. HeldIn(db', v) = {} /\ Occurrences(db', v) = 0
    BY <1>1, <2>2, HeldNone
  <2>4. ~Begun(v) /\ ~Begun(v)'
    BY <1>1, <2>2, <2>3 DEF Begun
  <2>5. db'.pend[v].count = 0
    BY <1>1, <1>3 DEF NoPending
  <2> QED
    BY <2>2, <2>3, <2>4, <2>5, SeenNotice DEF Promise!Move
<1> QED
  BY <1>2, <1>3

\* A native backup that starts: its vault launches, the others stay.
LEMMA StartsMoves ==
    ASSUME IInv, NEW o, Starts(o), NEW v \in Vaults
    PROVE  Promise!Move(v)
<1>1. /\ Sound(db) /\ db' = db /\ db.ops[o].status = "running"
      /\ launched' = launched \cup ({o} \cap EligibleOps(db))
  BY DEF IInv, Starts
<1>2. CASE o \in HeldIn(db, v)
  <2>1. Occurrences(db, v) > 0
    BY <1>1, <1>2, HeldOne
  <2>2. Begun(v)'
    BY <1>1, <1>2 DEF Begun, HeldIn
  <2> QED
    BY <1>1, <2>1, <2>2, SeenLaunch DEF Promise!Move
<1>3. CASE o \notin HeldIn(db, v)
  <2>1. Begun(v)' <=> Begun(v)
    BY <1>1, <1>3 DEF Begun
  <2> QED
    BY <1>1, <2>1, SeenStay DEF Promise!Move
<1> QED
  BY <1>2, <1>3

\* The owner's edit: nothing is held, so what waits may be dropped.
LEMMA ClearsMoves ==
    ASSUME Clears, NEW v \in Vaults
    PROVE  Promise!Move(v)
<1>1. \A u \in Vaults : Occurrences(db, u) = 0 /\ Occurrences(db', u) = 0
  BY HeldNone DEF Clears
<1>2. ~Begun(v) /\ ~Begun(v)'
  BY DEF Clears, Begun
<1>3. Promise!Holding = {}
  BY <1>1, SeenHolding DEF Promise!Holding
<1>4. db'.pend[v].count = db.pend[v].count \/ db'.pend[v].count = 0
  BY DEF Clears, NoPending
<1> QED
  BY <1>1, <1>2, <1>3, <1>4, SeenStay, SeenDrop DEF Promise!Move

(* A restart: what had not durably started is given back, which was never   *)
(* launched; the other runs are finished.                                   *)
LEMMA RestartsMoves ==
    ASSUME IInv, Restarts, NEW v \in Vaults
    PROVE  Promise!Move(v)
<1>1. /\ Sound(db) /\ LaunchedRuns /\ launched' = {} /\ HeldIn(db', v) = {}
      /\ HeldIn(db, v) \cap Unstarted(db) = {} => db'.pend[v] = db.pend[v]
      /\ \A o \in HeldIn(db, v) \cap Unstarted(db) :
            db'.pend[v].count = db.pend[v].count + db.ops[o].due.count
  BY DEF IInv, Restarts, GivenBack
<1>2. Occurrences(db', v) = 0 /\ ~Begun(v)'
  BY <1>1, HeldNone DEF Begun
<1>3. CASE HeldIn(db, v) = {}
  <2>1. Occurrences(db, v) = 0 /\ ~Begun(v) /\ db'.pend[v] = db.pend[v]
    BY <1>1, <1>3, HeldNone DEF Begun
  <2> QED
    BY <1>2, <2>1, SeenStay DEF Promise!Move
<1>4. ASSUME NEW o \in HeldIn(db, v) PROVE Promise!Move(v)
  <2>1. /\ HeldIn(db, v) = {o} /\ o \in Ops
        /\ Occurrences(db, v) = db.ops[o].due.count /\ Occurrences(db, v) > 0
    BY <1>1, <1>4, HeldOne
  <2>2. CASE o \in Unstarted(db)
    <3>1. o \notin launched
      BY <1>1, <2>2 DEF LaunchedRuns, Unstarted
    <3>2. ~Begun(v)
      BY <2>1, <3>1 DEF Begun
    <3>3. db'.pend[v].count = db.pend[v].count + Occurrences(db, v)
      BY <1>1, <1>4, <2>1, <2>2
    <3> QED
      BY <1>2, <2>1, <3>2, <3>3, SeenGiveBack DEF Promise!Move
  <2>3. CASE o \notin Unstarted(db)
    <3>1. db'.pend[v] = db.pend[v]
      BY <1>1, <2>1, <2>3
    <3> QED
      BY <1>2, <2>1, <3>1, SeenFinish DEF Promise!Move
  <2> QED
    BY <2>2, <2>3
<1> QED
  BY <1>3, <1>4

(* An admission: its vaults take; the others stay, have one more occurrence *)
(* wait, or are dropped for the notice that an admitted vault carries.      *)
LEMMA AdmissionMoves ==
    ASSUME IInv, Sound(db'), NEW d, NEW A, NEW f, NEW F, Admission(d, A, f, F), NEW v \in Vaults
    PROVE  Promise!Move(v)
<1>1. /\ Sound(d) /\ d.ops = db.ops /\ A \in SUBSET Vaults
      /\ f \in Injection(A, FreeOps)
      /\ \A u \in A : RangeOK(d.pend[u]) /\ ActiveOps(d, u) = {}
      /\ \A u \in Vaults : \/ d.pend[u].count \in {db.pend[u].count, db.pend[u].count + 1}
                           \/ u \notin A /\ A # {} /\ d.pend[u] = NoPending
      /\ db' = Queued(d, f) /\ launched' = launched
      /\ Sound(db) /\ LaunchedRuns
  BY DEF Admission, Commit, Write, IInv
<1>2. now \in Nat \ {0}
  BY TimesPositive DEF IInv, Shapes
<1>3. /\ FreeOps \in SUBSET Ops /\ \A o \in FreeOps : d.ops[o] = Free /\ o \notin launched
  BY <1>1 DEF FreeOps, LaunchedRuns, EligibleOps, Free
<1>4. QueuedIn(d, db', A, f)
  BY <1>1, <1>2, <1>3, QueuedSettles
<1>5. \A u \in Vaults : HeldIn(d, u) = HeldIn(db, u)
  BY <1>1 DEF HeldIn, EligibleOps
<1>6. ASSUME NEW u \in A PROVE Promise!Take(u)
  <2>1. /\ HeldIn(db', u) = {f[u]} /\ HeldIn(db, u) = {} /\ f[u] \in FreeOps
        /\ db'.ops[f[u]].due = d.pend[u] /\ db'.pend[u] = NoPending
    BY <1>1, <1>4, <1>5, <1>6 DEF QueuedIn, Injection
  <2>2. /\ Occurrences(db, u) = 0
        /\ Occurrences(db', u) = d.pend[u].count /\ Occurrences(db', u) > 0
    BY <1>1, <1>6, <2>1, HeldNone, HeldOne
  <2>3. ~Begun(u)' /\ db'.pend[u].count = 0
    BY <1>1, <1>3, <2>1 DEF Begun, NoPending
  <2>4. d.pend[u].count \in {db.pend[u].count, db.pend[u].count + 1}
    BY <1>1, <1>6
  <2> QED
    BY <1>1, <1>6, <2>2, <2>3, <2>4, SeenTake
<1>7. CASE v \notin A
  <2>1. /\ HeldIn(db', v) = HeldIn(db, v) /\ db'.pend[v] = d.pend[v]
        /\ \A o \in HeldIn(db', v) : db'.ops[o].due = db.ops[o].due
    BY <1>1, <1>4, <1>5, <1>7 DEF QueuedIn
  <2>2. Occurrences(db', v) = Occurrences(db, v) /\ (Begun(v)' <=> Begun(v))
    BY <1>1, <2>1, HeldSame DEF Begun
  <2>3. CASE d.pend[v].count = db.pend[v].count
    BY <2>1, <2>2, <2>3, SeenStay DEF Promise!Move
  <2>4. CASE d.pend[v].count = db.pend[v].count + 1
    BY <2>1, <2>2, <2>4, SeenComeDue DEF Promise!Move
  <2>5. CASE A # {} /\ d.pend[v] = NoPending
    <3>1. \E u \in Vaults \ {v} : Promise!Take(u)
      BY <1>1, <1>6, <1>7, <2>5
    <3>2. db'.pend[v].count = 0
      BY <2>1, <2>5 DEF NoPending
    <3> QED
      BY <2>2, <3>1, <3>2, SeenDrop DEF Promise!Move
  <2> QED
    BY <1>1, <2>3, <2>4, <2>5
<1> QED
  BY <1>6, <1>7 DEF Promise!Move

(* The promise: every occurrence waits, is held by one run, or had an      *)
(* outcome, whatever the scheduler, failed writes, users and restarts do.  *)
THEOREM PromiseKept == Spec => KeepsPromise
<1>1. Init => Promise!Init
  <2> SUFFICES ASSUME Init PROVE Promise!Init
    OBVIOUS
  <2>1. \A v \in Vaults : db.pend[v].count = 0 /\ HeldBy(v) = {} /\ HeldBy(v) \cap launched = {}
    BY DEF Init, NoPending, HeldBy, EligibleOps, Free
  <2> QED
    BY <2>1 DEF Promise!Init
<1>2. ASSUME IInv, Next PROVE Promise!Next
  <2>1. Sound(db') /\ Outcome
    BY <1>2, NextGood DEF Good
  <2>2. ASSUME NEW v \in Vaults PROVE Promise!Move(v)
    BY <1>2, <2>1, ReturnsMoves, EndsRunMoves, NotifiesMoves, StartsMoves, ClearsMoves,
       RestartsMoves, AdmissionMoves DEF Outcome
  <2> QED
    BY <2>2 DEF Promise!Next
<1>3. UNCHANGED vars => UNCHANGED Promise!vars
  BY DEF vars, Promise!vars, HeldBy, EligibleOps
<1>4. IInv /\ [Next]_vars => [Promise!Next]_(Promise!vars)
  BY <1>2, <1>3
<1> QED
  BY <1>1, <1>4, Inductive, PTL DEF Spec, KeepsPromise, Promise!Spec
==============================================================================
