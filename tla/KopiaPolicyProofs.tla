------------------------- MODULE KopiaPolicyProofs -------------------------
(***************************************************************************)
(* Proofs about KopiaPolicy for any digests, fences, timers and hazards.   *)
(* That two passes never write at a time, and that a ready row tells the   *)
(* truth, rests on one fact the code never states: the fence of every      *)
(* process that is still alive is the one the row names.                   *)
(***************************************************************************)
EXTENDS KopiaPolicy, TLAPS

\* The steps of a pass at which a native command runs, and at which the pass is
\* known to be alone with the vault.
Native == {"inspect", "write", "writing", "readback", "care"}
Recovering == {"prove", "hold", "reset", "sweepOld"}
Applying == Native \cup {"finish"}
Alone == Applying \cup {"sweepOld", "begin", "sweep", "mark"}
Working == Recovering \cup Alone \cup {"read"}
Ending == {"derive", "over", "reassured", "retry", "end"}

Passes == [pc : Working \cup Ending, digest : Digests \cup {None}, keep : BOOLEAN,
           fence : Fences \cup {None}, drift : BOOLEAN, err : BOOLEAN, failed : BOOLEAN]
WorkerSteps == {"idle", "look", "later", "lock", "pass", "judge", "succeeded", "failed",
                "park", "blame", "next"}
Workers == [pc : WorkerSteps, again : BOOLEAN, desired : Digests \cup {None},
            fence : Fences \cup {None}, err : BOOLEAN]

\* The type invariant with the types of the records it leaves open.
PassTyped ==
    /\ pass \in Passes \/ pass = NoPass
    /\ pass.pc \in Working => pass.digest \in Digests
WorkerTyped == worker \in Workers
Bounded == left \in Nat /\ owed \in Nat /\ owed + left <= Budget
Lives ==
    /\ cleaning \in {"no", "closed", "touched"} /\ admitted \in Digests \cup {None}
    /\ life = "down" => worker.pc # "pass"
TInv == TypeOK /\ PassTyped /\ WorkerTyped /\ Bounded /\ Lives

NoneAlive == \A f \in Fences : child[f] = None

\* A process that is still alive is the one the row names.
AliveIsNamed == \A f \in Fences : child[f] # None => row.fence = f

\* A pass that is past its look at the fence is alone, and the row names its fence
\* while its commands run.
PassAlone ==
    /\ pass.pc = "reset" => pass.fence \in Fences /\ child[pass.fence] = None
    /\ pass.pc = "prove" => pass.fence \in Fences
    /\ pass.pc \in Alone => NoneAlive
    /\ pass.pc \in Applying => pass.fence \in Fences /\ row.fence = pass.fence

\* A backup runs without any policy process, and a deletion with readiness closed.
UsesSafe ==
    /\ admitted # None => NoneAlive
    /\ cleaning # "no" => row.state # "ready"

FInv == AliveIsNamed /\ PassAlone /\ UsesSafe

\* What a pass concludes is true of the vault.
Applied == unseen \/ native = pass.digest
PassTruthful ==
    /\ pass.pc \in Recovering => ~pass.keep
    /\ pass.pc \in {"write", "writing", "readback"} => pass.drift
    /\ pass.pc = "care" => Applied
    /\ pass.pc = "finish" /\ ~pass.failed => Applied
    /\ pass.pc \in Applying \cup {"begin"} /\ pass.keep /\ ~pass.drift => Applied

PInv == PolicyHolds /\ PassTruthful

IInv == TInv /\ FInv /\ PInv
-----------------------------------------------------------------------------
RowOK(r) ==
    /\ r \in [desired : Digests, state : {"dirty", "applying", "ready", "error"},
              fence : Fences \cup {None}]
    /\ r.state \in {"dirty", "ready"} => r.fence = None
    /\ r.state = "applying" => r.fence # None

LEMMA Rows ==
    ASSUME NEW r, RowOK(r)
    PROVE  /\ RowOK(Open(r))
           /\ \A d \in Digests : RowOK(Refreshed(r, d))
           /\ CanClose(r) => RowOK(Closed(r))
           /\ \A f \in Fences : RowOK(Begun(r, f))
           /\ RowOK(Reset(r))
           /\ \A d, f : CanPark(r, d, f) => RowOK(Parked(r))
           /\ \A f \in Fences \cup {None} : RowOK(FenceMarked(r, f))
           /\ RowOK(Blamed(r))
           /\ \A p : RowOK(Finished(r, p))
<1> USE SentinelsAssumption DEF RowOK
<1>1. RowOK(Open(r)) BY DEF Open
<1>2. \A d \in Digests : RowOK(Refreshed(r, d)) BY DEF Open, Refreshed
<1>3. CanClose(r) => RowOK(Closed(r)) BY DEF CanClose, Closed
<1>4. \A f \in Fences : RowOK(Begun(r, f)) BY DEF Begun
<1>5. RowOK(Reset(r)) BY DEF Reset
<1>6. \A d, f : CanPark(r, d, f) => RowOK(Parked(r)) BY DEF CanPark, Parked
<1>7. \A f \in Fences \cup {None} : RowOK(FenceMarked(r, f)) BY DEF FenceMarked
<1>8. RowOK(Blamed(r)) BY DEF Blamed
<1>9. \A p : RowOK(Finished(r, p)) BY DEF Finished, Outcome
<1> QED BY <1>1, <1>2, <1>3, <1>4, <1>5, <1>6, <1>7, <1>8, <1>9

\* A pass goes on with these fields.
PassIs(pc, digest, keep, fence, drift, failed) ==
    /\ pass' \in Passes
    /\ pass'.pc = pc /\ pass'.digest = digest /\ pass'.keep = keep
    /\ pass'.fence = fence /\ pass'.drift = drift /\ pass'.failed = failed

LEMMA GotoPass ==
    ASSUME pass \in Passes, NEW p \in Working \cup Ending, Goto(p)
    PROVE  PassIs(p, pass.digest, pass.keep, pass.fence, pass.drift, pass.failed)
BY DEF Goto, PassIs, Passes

LEMMA OverPass ==
    ASSUME NEW e \in BOOLEAN, Over(e)
    PROVE  PassIs("over", None, FALSE, None, FALSE, FALSE)
BY DEF Over, NewPass, PassIs, Passes, Ending

LEMMA DerivePass ==
    ASSUME pass \in Passes, row.desired \in Digests, Derive
    PROVE  PassIs("read", row.desired, pass.keep, pass.fence, pass.drift, pass.failed)
<1>1. pass' = [pass EXCEPT !.pc = "read", !.digest = row.desired] BY DEF Derive
<1> QED BY <1>1 DEF PassIs, Passes, Working

LEMMA ReadPass ==
    ASSUME pass \in Passes, row.fence \in Fences \cup {None}, Read, row.desired = pass.digest
    PROVE  PassIs(IF row.fence # None THEN "prove" ELSE "begin", pass.digest,
                  holder = "maintenance" /\ row.state = "ready",
                  row.fence, pass.drift, pass.failed)
<1> DEFINE pc == IF row.fence # None THEN "prove" ELSE "begin"
           keep == holder = "maintenance" /\ row.state = "ready"
<1>1. pass' = [pass EXCEPT !.pc = pc, !.fence = row.fence, !.keep = keep] BY DEF Read
<1>2. pc \in Working BY DEF Working, Recovering, Alone
<1>3. keep \in BOOLEAN OBVIOUS
<1> HIDE DEF pc, keep
<1>4. PassIs(pc, pass.digest, keep, row.fence, pass.drift, pass.failed)
  BY <1>1, <1>2, <1>3 DEF PassIs, Passes
<1> QED BY <1>4 DEF pc, keep

LEMMA BeginPass ==
    ASSUME pass \in Passes, NEW f \in Fences,
           pass' = [pass EXCEPT !.pc = "inspect", !.fence = f]
    PROVE  PassIs("inspect", pass.digest, pass.keep, f, pass.drift, pass.failed)
BY DEF PassIs, Passes, Working, Alone, Applying, Native

LEMMA FailPass ==
    ASSUME pass \in Passes, pass' = [pass EXCEPT !.pc = "finish", !.failed = TRUE]
    PROVE  PassIs("finish", pass.digest, pass.keep, pass.fence, pass.drift, TRUE)
BY DEF PassIs, Passes, Working, Alone, Applying

LEMMA RefusedPass ==
    ASSUME pass \in Passes, pass' = [pass EXCEPT !.pc = "finish", !.failed = TRUE, !.keep = FALSE]
    PROVE  PassIs("finish", pass.digest, FALSE, pass.fence, pass.drift, TRUE)
BY DEF PassIs, Passes, Working, Alone, Applying

LEMMA InspectPass ==
    ASSUME pass \in Passes,
           pass' = [pass EXCEPT !.pc = IF native = pass.digest THEN "care" ELSE "write",
                                !.drift = native # pass.digest]
    PROVE  PassIs(IF native = pass.digest THEN "care" ELSE "write", pass.digest, pass.keep,
                  pass.fence, native # pass.digest, pass.failed)
<1> DEFINE pc == IF native = pass.digest THEN "care" ELSE "write"
           drift == native # pass.digest
<1>1. pc \in Working BY DEF Working, Alone, Applying, Native
<1>2. drift \in BOOLEAN OBVIOUS
<1>3. pass' = [pass EXCEPT !.pc = pc, !.drift = drift] OBVIOUS
<1> HIDE DEF pc, drift
<1>4. PassIs(pc, pass.digest, pass.keep, pass.fence, drift, pass.failed)
  BY <1>1, <1>2, <1>3 DEF PassIs, Passes
<1> QED BY <1>4 DEF pc, drift

LEMMA ReadbackPass ==
    ASSUME pass \in Passes,
           pass' = [pass EXCEPT !.pc = IF native = pass.digest THEN "care" ELSE "finish",
                                !.failed = native # pass.digest]
    PROVE  PassIs(IF native = pass.digest THEN "care" ELSE "finish", pass.digest, pass.keep,
                  pass.fence, pass.drift, native # pass.digest)
<1> DEFINE pc == IF native = pass.digest THEN "care" ELSE "finish"
           failed == native # pass.digest
<1>1. pc \in Working BY DEF Working, Alone, Applying, Native
<1>2. failed \in BOOLEAN OBVIOUS
<1>3. pass' = [pass EXCEPT !.pc = pc, !.failed = failed] OBVIOUS
<1> HIDE DEF pc, failed
<1>4. PassIs(pc, pass.digest, pass.keep, pass.fence, pass.drift, failed)
  BY <1>1, <1>2, <1>3 DEF PassIs, Passes
<1> QED BY <1>4 DEF pc, failed

\* Of a pass, what a step must leave right for the types to stay right.
PassFrame ==
    /\ UNCHANGED <<holder, worker, owed, cleaning, admitted, life, due>>
    /\ pass.pc # "none" /\ pass' \in Passes
    /\ pass'.pc \in Working => pass'.digest \in Digests
    /\ left' \in Nat /\ left' <= left

Left == left' \in Nat /\ left' <= left

LEMMA SpendLeft == ASSUME left \in Nat, NEW c, Spend(c) PROVE Left
BY DEF Spend, Left

LEMMA KeepLeft == ASSUME left \in Nat, UNCHANGED left PROVE Left
BY DEF Left

\* TypeOK speaks of the row by RowOK.
LEMMA RowTyped == TypeOK => RowOK(row)
BY DEF TypeOK, RowOK

LEMMA StillBounded ==
    ASSUME NEW a \in Nat, NEW b \in Nat, NEW c \in Nat, NEW n \in Nat, a + b <= n, c <= b
    PROVE  a + c <= n
OBVIOUS

LEMMA PassKeepsTypes ==
    ASSUME TInv, PassFrame, RowOK(row'), native' \in Digests \cup {Mixed}, unseen' \in BOOLEAN,
           child' \in [Fences -> Digests \cup {"reads", None}],
           retry' \in [timer : Timers, pending : BOOLEAN] \cup {None}
    PROVE  TInv'
<1>1. pass'.pc # "none" BY DEF PassFrame, Passes, Working, Recovering, Alone, Applying, Native, Ending
<1>2. TypeOK' BY <1>1 DEF TInv, TypeOK, PassFrame, RowOK
<1>3. PassTyped' BY DEF PassFrame, PassTyped
<1>4. WorkerTyped' BY DEF TInv, WorkerTyped, PassFrame
<1>5. Bounded'
  <2>1. left \in Nat /\ owed \in Nat /\ owed + left <= Budget BY DEF TInv, Bounded
  <2>2. left' \in Nat /\ left' <= left /\ owed' = owed BY DEF PassFrame
  <2> QED BY <2>1, <2>2, StillBounded, HazardsAssumption DEF Bounded
<1>6. Lives' BY DEF TInv, Lives, PassFrame
<1> QED BY <1>2, <1>3, <1>4, <1>5, <1>6 DEF TInv

\* A pass at one of its steps is a record with a digest, when it has read the row.
LEMMA PassAt ==
    ASSUME TInv, NEW p \in Working \cup Ending, At(p)
    PROVE  /\ pass \in Passes /\ pass.pc = p
           /\ p \in Working => pass.digest \in Digests
           /\ UNCHANGED <<holder, worker, owed, cleaning, admitted, life, due>>
BY DEF TInv, PassTyped, At, uses, NoPass, Working, Recovering, Alone, Applying, Native, Ending

\* A pass that goes on or is over, and what the bound leaves.
LEMMA GotoFrame ==
    ASSUME TInv, NEW q \in Working \cup Ending, At(q), NEW p \in Working \cup Ending, Goto(p),
           p \in Working => q \in Working, Left
    PROVE  PassFrame
<1>1. PassIs(p, pass.digest, pass.keep, pass.fence, pass.drift, pass.failed) BY PassAt, GotoPass
<1> QED BY <1>1, PassAt DEF PassFrame, PassIs, Left, Working, Recovering, Alone, Applying, Native, Ending

LEMMA OverFrame ==
    ASSUME TInv, NEW q \in Working \cup Ending, At(q), NEW e \in BOOLEAN, Over(e), Left
    PROVE  PassFrame
<1>1. PassIs("over", None, FALSE, None, FALSE, FALSE) BY OverPass
<1> QED BY <1>1, PassAt DEF PassFrame, PassIs, Left, Working, Recovering, Alone, Applying, Native, Ending

LEMMA PassIsFrame ==
    ASSUME TInv, NEW q \in Working \cup Ending, At(q), NEW p, NEW d \in Digests, NEW k, NEW f, NEW e, NEW x,
           PassIs(p, d, k, f, e, x), Left
    PROVE  PassFrame
BY PassAt DEF PassFrame, PassIs, Left, Working, Recovering, Alone, Applying, Native, Ending

\* What the types say of the variables a pass does not change.
LEMMA TypedNow ==
    ASSUME TInv
    PROVE  /\ RowOK(row) /\ native \in Digests \cup {Mixed} /\ unseen \in BOOLEAN
           /\ child \in [Fences -> Digests \cup {"reads", None}]
           /\ retry \in [timer : Timers, pending : BOOLEAN] \cup {None}
           /\ row.desired \in Digests /\ row.fence \in Fences \cup {None}
           /\ left \in Nat
BY DEF TInv, TypeOK, RowOK, Bounded

LEMMA LookTypes ==
    ASSUME TInv, Derive \/ Read \/ Prove
    PROVE  TInv'
<1> USE TypedNow, SpendLeft, KeepLeft
<1>1. UNCHANGED <<row, native, unseen, child, retry>> BY DEF Derive, Read, Prove
<1>2. PassFrame
  <2>1. CASE Derive
    <3>1. At("derive") /\ Left BY <2>1 DEF Derive
    <3>2. PassIs("read", row.desired, pass.keep, pass.fence, pass.drift, pass.failed)
      BY <2>1, <3>1, PassAt, DerivePass DEF Ending
    <3> QED BY <3>1, <3>2, PassIsFrame DEF Ending
  <2>2. CASE Read
    <3>1. At("read") /\ Left BY <2>2 DEF Read
    <3>2. CASE row.desired = pass.digest BY <2>2, <3>1, <3>2, PassAt, ReadPass, PassIsFrame DEF Working
    <3>3. CASE row.desired # pass.digest
      <4>1. Over(TRUE) BY <2>2, <3>3 DEF Read, Return
      <4> QED BY <3>1, <4>1, OverFrame DEF Working
    <3> QED BY <3>2, <3>3
  <2>3. CASE Prove
    <3>1. At("prove") /\ Left BY <2>3 DEF Prove
    <3>2. Goto("reset") \/ Goto("hold") BY <2>3 DEF Prove
    <3> QED BY <3>1, <3>2, GotoFrame DEF Working, Recovering
  <2> QED BY <2>1, <2>2, <2>3
<1> QED BY <1>1, <1>2, PassKeepsTypes

LEMMA ReturnTypes ==
    ASSUME TInv, Hold \/ MarkFence
    PROVE  TInv'
<1> USE TypedNow, SpendLeft, KeepLeft
<1>1. UNCHANGED <<native, unseen, child, retry>> BY DEF Hold, MarkFence
<1>2. Over(TRUE) BY DEF Hold, MarkFence, Return
<1>3. CASE Hold
  <2>1. At("hold") /\ Left BY <1>3 DEF Hold
  <2>2. PassFrame BY <1>2, <2>1, OverFrame DEF Working, Recovering
  <2>3. RowOK(row') BY <1>3, Rows DEF Hold
  <2> QED BY <1>1, <2>2, <2>3, PassKeepsTypes
<1>4. CASE MarkFence
  <2>1. At("mark") /\ Left BY <1>4 DEF MarkFence
  <2>2. PassFrame BY <1>2, <2>1, OverFrame DEF Working, Alone
  <2>3. pass.fence \in Fences \cup {None} BY <2>1, PassAt DEF Working, Alone, Passes
  <2>4. RowOK(row') BY <1>4, <2>3, Rows DEF MarkFence
  <2> QED BY <1>1, <2>2, <2>4, PassKeepsTypes
<1> QED BY <1>3, <1>4

LEMMA RecoverTypes ==
    ASSUME TInv, Recover \/ Sweep
    PROVE  TInv'
<1> USE TypedNow, SpendLeft, KeepLeft
<1>1. UNCHANGED <<native, unseen, child, retry>> BY DEF Recover, Sweep
<1>2. CASE Recover
  <2>1. At("reset") /\ Left BY <1>2 DEF Recover
  <2>2. Goto("sweepOld") \/ Over(TRUE) BY <1>2 DEF Recover, Return
  <2>3. PassFrame BY <2>1, <2>2, GotoFrame, OverFrame DEF Working, Recovering
  <2>4. RowOK(row') BY <1>2, Rows DEF Recover
  <2> QED BY <1>1, <2>3, <2>4, PassKeepsTypes
<1>3. CASE Sweep
  <2>1. At(pass.pc) /\ pass.pc \in {"sweepOld", "sweep"} /\ Left BY <1>3 DEF Sweep
  <2>2. pass.pc \in Working BY <2>1 DEF Working, Alone
  <2>3. pass.failed \in BOOLEAN BY <2>1, <2>2, PassAt DEF Passes
  <2>4. Goto("begin") \/ Goto("mark") \/ Over(pass.failed) BY <1>3 DEF Sweep
  <2>5. PassFrame BY <2>1, <2>2, <2>3, <2>4, GotoFrame, OverFrame DEF Working, Alone
  <2>6. UNCHANGED row BY <1>3 DEF Sweep
  <2> QED BY <1>1, <2>5, <2>6, PassKeepsTypes
<1> QED BY <1>2, <1>3

LEMMA BeginTypes ==
    ASSUME TInv, Begin
    PROVE  TInv'
<1> USE TypedNow, SpendLeft, KeepLeft
<1>1. UNCHANGED <<native, unseen, child, retry>> /\ At("begin") /\ Left BY DEF Begin
<1>2. pass \in Passes /\ pass.digest \in Digests BY <1>1, PassAt DEF Working, Alone
<1>3. CASE Over(TRUE) /\ UNCHANGED row
  BY <1>1, <1>3, OverFrame, PassKeepsTypes DEF Working, Alone
<1>4. CASE ~(Over(TRUE) /\ UNCHANGED row)
  <2>1. PICK f \in Fences : row' = Begun(row, f) /\ pass' = [pass EXCEPT !.pc = "inspect", !.fence = f]
    BY <1>4 DEF Begin, Return
  <2>2. PassIs("inspect", pass.digest, pass.keep, f, pass.drift, pass.failed) BY <1>2, <2>1, BeginPass
  <2>3. PassFrame BY <1>1, <1>2, <2>2, PassIsFrame DEF Working, Alone
  <2>4. RowOK(row') BY <2>1, Rows
  <2> QED BY <1>1, <2>3, <2>4, PassKeepsTypes
<1> QED BY <1>3, <1>4

\* A command fails: the pass goes to its end, and its process may live on.
LEMMA FailTypes ==
    ASSUME TInv, NEW q \in Native, At(q), NEW kind \in Digests \cup {"reads", None}, Fail(kind),
           UNCHANGED <<row, native, unseen, retry>>
    PROVE  TInv'
<1>1. pass \in Passes /\ pass.digest \in Digests BY PassAt DEF Working, Alone, Applying
<1>2. PassIs("finish", pass.digest, pass.keep, pass.fence, pass.drift, TRUE)
  BY <1>1, FailPass DEF Fail
<1>3. Left BY TypedNow, SpendLeft, KeepLeft DEF Fail, Fails
<1>4. PassFrame BY <1>1, <1>2, <1>3, PassIsFrame DEF Working, Alone, Applying
<1>5. child' \in [Fences -> Digests \cup {"reads", None}]
  <2>1. child' = child \/ child' = [child EXCEPT ![pass.fence] = kind] BY DEF Fail
  <2> QED BY <2>1, TypedNow
<1> QED BY <1>4, <1>5, TypedNow, PassKeepsTypes

\* The protected root cannot be read.
LEMMA RefusedTypes ==
    ASSUME TInv, NEW q \in Native, At(q), Left,
           pass' = [pass EXCEPT !.pc = "finish", !.failed = TRUE, !.keep = FALSE],
           UNCHANGED <<row, native, unseen, child, retry>>
    PROVE  TInv'
<1>1. pass \in Passes /\ pass.digest \in Digests BY PassAt DEF Working, Alone, Applying
<1>2. PassIs("finish", pass.digest, FALSE, pass.fence, pass.drift, TRUE) BY <1>1, RefusedPass
<1>3. PassFrame BY <1>1, <1>2, PassIsFrame DEF Working, Alone, Applying
<1> QED BY <1>3, TypedNow, PassKeepsTypes

LEMMA InspectTypes ==
    ASSUME TInv, Inspect
    PROVE  TInv'
<1> USE TypedNow, SpendLeft, KeepLeft
<1>1. At("inspect") /\ UNCHANGED <<row, native, retry>> BY DEF Inspect
<1>2. pass \in Passes /\ pass.digest \in Digests BY <1>1, PassAt DEF Working, Alone, Applying, Native
<1>3. CASE Fail("reads") /\ UNCHANGED unseen BY <1>1, <1>3, FailTypes DEF Native
<1>4. CASE /\ Spend("fault") /\ UNCHANGED <<child, unseen>>
           /\ pass' = [pass EXCEPT !.pc = "finish", !.failed = TRUE, !.keep = FALSE]
  BY <1>1, <1>4, RefusedTypes DEF Native
<1>5. CASE /\ pass' = [pass EXCEPT !.pc = IF native = pass.digest THEN "care" ELSE "write",
                                   !.drift = native # pass.digest]
           /\ unseen' = FALSE /\ UNCHANGED <<child, left>>
  <2>1. PassIs(IF native = pass.digest THEN "care" ELSE "write", pass.digest, pass.keep,
               pass.fence, native # pass.digest, pass.failed)
    BY <1>2, <1>5, InspectPass
  <2>2. Left BY <1>5
  <2>3. PassFrame BY <1>1, <1>2, <2>1, <2>2, PassIsFrame DEF Working, Alone, Applying, Native
  <2> QED BY <1>1, <1>5, <2>3, PassKeepsTypes
<1> QED BY <1>3, <1>4, <1>5 DEF Inspect

LEMMA ReadbackTypes ==
    ASSUME TInv, Readback
    PROVE  TInv'
<1> USE TypedNow, SpendLeft, KeepLeft
<1>1. At("readback") /\ UNCHANGED <<row, native, retry>> BY DEF Readback
<1>2. pass \in Passes /\ pass.digest \in Digests BY <1>1, PassAt DEF Working, Alone, Applying, Native
<1>3. CASE Fail("reads") /\ UNCHANGED unseen BY <1>1, <1>3, FailTypes DEF Native
<1>4. CASE /\ pass' = [pass EXCEPT !.pc = IF native = pass.digest THEN "care" ELSE "finish",
                                   !.failed = native # pass.digest]
           /\ unseen' = FALSE /\ UNCHANGED <<child, left>>
  <2>1. PassIs(IF native = pass.digest THEN "care" ELSE "finish", pass.digest, pass.keep,
               pass.fence, pass.drift, native # pass.digest)
    BY <1>2, <1>4, ReadbackPass
  <2>2. Left BY <1>4
  <2>3. PassFrame BY <1>1, <1>2, <2>1, <2>2, PassIsFrame DEF Working, Alone, Applying, Native
  <2> QED BY <1>1, <1>4, <2>3, PassKeepsTypes
<1> QED BY <1>3, <1>4 DEF Readback

LEMMA WriteTypes ==
    ASSUME TInv, Write
    PROVE  TInv'
<1> USE TypedNow, SpendLeft, KeepLeft
<1>1. UNCHANGED <<row, unseen, retry>> BY DEF Write
<1>2. CASE At("write") /\ native' = Mixed /\ Goto("writing") /\ UNCHANGED <<child, left>>
  <2>1. PassFrame BY <1>2, GotoFrame DEF Working, Alone, Applying, Native
  <2> QED BY <1>1, <1>2, <2>1, PassKeepsTypes
<1>3. CASE At("writing") /\ native' = pass.digest /\ Goto("readback") /\ UNCHANGED <<child, left>>
  <2>1. PassFrame BY <1>3, GotoFrame DEF Working, Alone, Applying, Native
  <2>2. pass.digest \in Digests BY <1>3, PassAt DEF Working, Alone, Applying, Native
  <2> QED BY <1>1, <1>3, <2>1, <2>2, PassKeepsTypes
<1>4. CASE /\ At(pass.pc) /\ pass.pc \in {"write", "writing"}
           /\ Fail(pass.digest) /\ UNCHANGED native
  <2>1. pass.pc \in Native BY <1>4 DEF Native
  <2>2. pass.digest \in Digests BY <1>4, <2>1, PassAt DEF Working, Alone, Applying
  <2> QED BY <1>1, <1>4, <2>1, <2>2, FailTypes
<1> QED BY <1>2, <1>3, <1>4 DEF Write

LEMMA CareTypes ==
    ASSUME TInv, Care
    PROVE  TInv'
<1> USE TypedNow, SpendLeft, KeepLeft
<1>1. At("care") /\ UNCHANGED <<row, native, unseen, retry>> BY DEF Care
<1>2. CASE Goto("finish") /\ UNCHANGED <<child, left>>
  <2>1. PassFrame BY <1>1, <1>2, GotoFrame DEF Working, Alone, Applying, Native
  <2> QED BY <1>1, <1>2, <2>1, PassKeepsTypes
<1>3. CASE Fail("reads") BY <1>1, <1>3, FailTypes DEF Native
<1>4. CASE /\ Spend("fault") /\ UNCHANGED child
           /\ pass' = [pass EXCEPT !.pc = "finish", !.failed = TRUE, !.keep = FALSE]
  BY <1>1, <1>4, RefusedTypes DEF Native
<1> QED BY <1>2, <1>3, <1>4 DEF Care

LEMMA FinishTypes ==
    ASSUME TInv, Finish
    PROVE  TInv'
<1> USE TypedNow, SpendLeft, KeepLeft
<1>1. At("finish") /\ UNCHANGED <<native, unseen, child, retry>> /\ Left BY DEF Finish
<1>2. Goto("sweep") \/ Over(TRUE) BY DEF Finish, Return
<1>3. PassFrame BY <1>1, <1>2, GotoFrame, OverFrame DEF Working, Alone, Applying
<1>4. RowOK(row') BY Rows DEF Finish
<1> QED BY <1>1, <1>3, <1>4, PassKeepsTypes

LEMMA PassTypes ==
    ASSUME TInv, PassStep
    PROVE  TInv'
BY LookTypes, ReturnTypes, RecoverTypes, BeginTypes, InspectTypes, WriteTypes, ReadbackTypes,
   CareTypes, FinishTypes DEF PassStep

\* The worker goes on while it does not hold the lock.
WorkerFrame ==
    /\ UNCHANGED <<native, unseen, child, holder, pass, due, owed, cleaning, admitted, life>>
    /\ worker.pc # "pass" /\ worker' \in Workers /\ worker'.pc # "pass"

Retries == [timer : Timers, pending : BOOLEAN] \cup {None}

LEMMA RetryTyped ==
    ASSUME retry \in Retries
    PROVE  RetryLater \/ RetryAfterFailure \/ RetrySucceeded => retry' \in Retries
<1>1. Arm => retry' \in Retries
  <2>1. ASSUME NEW t \in Timers PROVE [timer |-> t, pending |-> TRUE] \in Retries BY DEF Retries
  <2> QED BY <2>1 DEF Arm
<1>2. UNCHANGED retry => retry' \in Retries OBVIOUS
<1>3. RetrySucceeded => retry' \in Retries BY DEF RetrySucceeded, Retries
<1> QED BY <1>1, <1>2, <1>3 DEF RetryLater, RetryAfterFailure

LEMMA WorkerKeepsTypes ==
    ASSUME TInv, WorkerFrame, RowOK(row'), retry' \in Retries, Left
    PROVE  TInv'
<1>1. TypeOK' BY DEF TInv, TypeOK, WorkerFrame, RowOK, Retries
<1>2. PassTyped' BY DEF TInv, PassTyped, WorkerFrame
<1>3. WorkerTyped' BY DEF WorkerTyped, WorkerFrame
<1>4. Bounded'
  <2>1. left \in Nat /\ owed \in Nat /\ owed + left <= Budget BY DEF TInv, Bounded
  <2>2. left' \in Nat /\ left' <= left /\ owed' = owed BY DEF Left, WorkerFrame
  <2> QED BY <2>1, <2>2, StillBounded, HazardsAssumption DEF Bounded
<1>5. Lives' BY DEF TInv, Lives, WorkerFrame
<1> QED BY <1>1, <1>2, <1>3, <1>4, <1>5 DEF TInv

LEMMA WorkerToTyped ==
    ASSUME worker \in Workers, NEW p \in WorkerSteps, WorkerTo(p)
    PROVE  worker' \in Workers /\ worker'.pc = p
BY DEF Workers, WorkerSteps, WorkerTo, IdleWorker

LEMMA WorkerAtFrame ==
    ASSUME TInv, NEW q, WorkerAt(q), q # "pass", worker' \in Workers, worker'.pc # "pass"
    PROVE  WorkerFrame
BY DEF WorkerAt, WorkerFrame, uses

LEMMA WorkerNow ==
    ASSUME TInv
    PROVE  worker \in Workers /\ retry \in Retries
BY DEF TInv, WorkerTyped, TypeOK, Retries

LEMMA LookWorkerTypes ==
    ASSUME TInv, Look
    PROVE  TInv'
<1> USE TypedNow, WorkerNow, SpendLeft, KeepLeft
<1>1. WorkerAt("look") /\ UNCHANGED <<row, retry>> /\ Left BY DEF Look
<1>2. worker' \in Workers /\ worker'.pc # "pass"
  <2>1. CASE WorkerTo("next") \/ WorkerTo("later")
    BY <2>1, WorkerToTyped DEF WorkerSteps
  <2>2. CASE worker' = [worker EXCEPT !.pc = "lock", !.desired = row.desired, !.fence = row.fence]
    BY <2>2 DEF Workers, WorkerSteps
  <2> QED BY <2>1, <2>2 DEF Look
<1> QED BY <1>1, <1>2, WorkerAtFrame, WorkerKeepsTypes

LEMMA JudgeTypes ==
    ASSUME TInv, Judge
    PROVE  TInv'
<1> USE TypedNow, WorkerNow, SpendLeft, KeepLeft
<1>1. WorkerAt("judge") /\ UNCHANGED <<row, retry>> /\ Left BY DEF Judge
<1> DEFINE verdict == IF life = "stopping" THEN "next" ELSE Verdict(row, worker)
<1>2. verdict \in {"succeeded", "failed", "look", "park", "blame", "next"} BY DEF Verdict
<1>3. worker' \in Workers /\ worker'.pc # "pass"
  <2>1. CASE worker' = [worker EXCEPT !.pc = verdict]
    <3> HIDE DEF verdict
    <3> QED BY <1>2, <2>1 DEF Workers, WorkerSteps
  <2>2. CASE WorkerTo(verdict)
    <3> HIDE DEF verdict
    <3> QED BY <1>2, <2>2, WorkerToTyped DEF WorkerSteps
  <2>3. CASE WorkerTo("next") BY <2>3, WorkerToTyped DEF WorkerSteps
  <2> QED BY <2>1, <2>2, <2>3 DEF Judge
<1> QED BY <1>1, <1>3, WorkerAtFrame, WorkerKeepsTypes

LEMMA VerdictTypes ==
    ASSUME TInv, Later \/ GiveUp \/ Succeeded \/ Failed \/ Park \/ Blame
    PROVE  TInv'
<1> USE TypedNow, WorkerNow, SpendLeft, KeepLeft
<1>1. PICK q \in WorkerSteps : WorkerAt(q) /\ q # "pass"
  BY DEF Later, GiveUp, Succeeded, Failed, Park, Blame, WorkerSteps
<1>2. WorkerTo("next") \/ WorkerTo("failed") BY DEF Later, GiveUp, Succeeded, Failed, Park, Blame
<1>3. worker' \in Workers /\ worker'.pc # "pass" BY <1>2, WorkerToTyped DEF WorkerSteps
<1>4. Left BY DEF Later, GiveUp, Succeeded, Failed, Park, Blame
<1>5. retry' \in Retries
  BY RetryTyped DEF Later, GiveUp, Succeeded, Failed, Park, Blame
<1>6. RowOK(row') BY Rows DEF Later, GiveUp, Succeeded, Failed, Park, Blame
<1> QED BY <1>1, <1>3, <1>4, <1>5, <1>6, WorkerAtFrame, WorkerKeepsTypes

LEMMA ContinueTypes ==
    ASSUME TInv, Continue
    PROVE  TInv'
<1> USE TypedNow, WorkerNow, SpendLeft, KeepLeft
<1>1. WorkerAt("next") /\ UNCHANGED <<row, retry>> /\ Left BY DEF Continue
<1>2. worker' \in Workers /\ worker'.pc # "pass"
  BY SentinelsAssumption DEF Continue, Workers, WorkerSteps, IdleWorker
<1> QED BY <1>1, <1>2, WorkerAtFrame, WorkerKeepsTypes

\* The lock changes hands.
LockFrame ==
    UNCHANGED <<row, native, unseen, child, retry, due, owed, cleaning, admitted, life>> /\ Left

LEMMA LockKeepsTypes ==
    ASSUME TInv, LockFrame, holder' \in {"worker", None} \cup Users, worker' \in Workers,
           pass' = NoPass \/ (pass' \in Passes /\ pass'.pc \notin Working),
           pass'.pc # "none" <=> holder' \in {"worker", "maintenance"},
           worker'.pc = "pass" <=> holder' = "worker",
           worker'.pc = "pass" => worker.pc = "pass" \/ life = "up",
           holder' = "cleanup" <=> holder = "cleanup", holder' = "backup" <=> holder = "backup"
    PROVE  TInv'
<1>1. TypeOK' BY DEF TInv, TypeOK, LockFrame
<1>2. PassTyped' BY DEF PassTyped, NoPass, Working, Recovering, Alone, Applying, Native
<1>3. WorkerTyped' BY DEF WorkerTyped
<1>4. Bounded'
  <2>1. left \in Nat /\ owed \in Nat /\ owed + left <= Budget BY DEF TInv, Bounded
  <2>2. left' \in Nat /\ left' <= left /\ owed' = owed BY DEF Left, LockFrame
  <2> QED BY <2>1, <2>2, StillBounded, HazardsAssumption DEF Bounded
<1>5. Lives' BY DEF TInv, Lives, LockFrame
<1> QED BY <1>1, <1>2, <1>3, <1>4, <1>5 DEF TInv

LEMMA FreshPass ==
    NewPass \in Passes /\ NewPass.pc = "derive" /\ NoPass.pc = "none" /\ "derive" \notin Working
BY DEF NewPass, NoPass, Passes, Ending, Working, Recovering, Alone, Applying, Native

LEMMA TakeTypes ==
    ASSUME TInv, Take
    PROVE  TInv'
<1> USE TypedNow, WorkerNow, SpendLeft, KeepLeft, FreshPass, SentinelsAssumption
<1>1. LockFrame BY DEF Take, LockFrame, uses
<1>2. holder = None /\ worker.pc = "lock" /\ life = "up" BY DEF Take
<1>3. CASE holder' = "worker" /\ pass' = NewPass /\ WorkerTo("pass")
  <2>1. worker' \in Workers /\ worker'.pc = "pass" BY <1>3, WorkerToTyped DEF WorkerSteps
  <2> QED BY <1>1, <1>2, <1>3, <2>1, LockKeepsTypes
<1>4. CASE UNCHANGED <<holder, pass>> /\ worker' = [worker EXCEPT !.pc = "judge", !.err = TRUE]
  <2>1. worker' \in Workers /\ worker'.pc # "pass" BY <1>4 DEF Workers, WorkerSteps
  <2>2. pass.pc = "none" BY <1>2 DEF TInv, TypeOK
  <2>3. pass = NoPass BY <2>2 DEF TInv, PassTyped, Passes, Working, Recovering, Alone, Applying, Native, Ending
  <2> QED BY <1>1, <1>2, <1>4, <2>1, <2>3, LockKeepsTypes DEF TInv, TypeOK
<1> QED BY <1>3, <1>4 DEF Take

LEMMA LeaveTypes ==
    ASSUME TInv, Leave
    PROVE  TInv'
<1> USE TypedNow, WorkerNow, KeepLeft, FreshPass, SentinelsAssumption
<1>1. LockFrame /\ holder = "worker" /\ holder' = None /\ pass' = NoPass BY DEF Leave, LockFrame, uses
<1>2. pass.err \in BOOLEAN
  BY DEF Leave, TInv, PassTyped, Passes, NoPass
<1>3. worker' \in Workers /\ worker'.pc # "pass" BY <1>2 DEF Leave, Workers, WorkerSteps
<1> QED BY <1>1, <1>3, LockKeepsTypes

LEMMA WorkerTypes ==
    ASSUME TInv, WorkerStep
    PROVE  TInv'
BY LookWorkerTypes, VerdictTypes, LeaveTypes, JudgeTypes, ContinueTypes DEF WorkerStep

\* The goroutine of a timer.
DueSteps == {"idle", "fired", "reopen", "queue", "peek", "forget", "again"}

LEMMA QueuedTyped ==
    ASSUME worker \in Workers
    PROVE  Queued(worker) \in Workers /\ (Queued(worker).pc = "pass" <=> worker.pc = "pass")
BY DEF Queued, Workers, WorkerSteps

LEMMA TimerKeepsTypes ==
    ASSUME TInv, NEW t \in Timers, NEW q, DueAt(t, q), NEW p \in DueSteps, DueTo(t, p),
           worker' = worker \/ worker' = Queued(worker), RowOK(row'), retry' \in Retries, Left
    PROVE  TInv'
<1>1. worker' \in Workers /\ (worker'.pc = "pass" <=> worker.pc = "pass")
  BY QueuedTyped, WorkerNow
<1>2. due' \in [Timers -> DueSteps] BY DEF TInv, TypeOK, DueTo, DueSteps
<1>3. UNCHANGED <<native, unseen, child, holder, pass, owed, cleaning, admitted, life>>
  BY DEF DueAt, uses
<1>4. TypeOK' BY <1>1, <1>2, <1>3 DEF TInv, TypeOK, RowOK, Retries, DueSteps
<1>5. PassTyped' BY <1>3 DEF TInv, PassTyped
<1>6. WorkerTyped' BY <1>1 DEF WorkerTyped
<1>7. Bounded'
  <2>1. left \in Nat /\ owed \in Nat /\ owed + left <= Budget BY DEF TInv, Bounded
  <2>2. left' \in Nat /\ left' <= left /\ owed' = owed BY <1>3 DEF Left
  <2> QED BY <2>1, <2>2, StillBounded, HazardsAssumption DEF Bounded
<1>8. Lives' BY <1>1, <1>3 DEF TInv, Lives
<1> QED BY <1>4, <1>5, <1>6, <1>7, <1>8 DEF TInv

LEMMA TimerTypes ==
    ASSUME TInv, NEW t \in Timers, TimerStep(t)
    PROVE  TInv'
<1> USE TypedNow, WorkerNow, SpendLeft, KeepLeft
<1>1. \E q, p : p \in DueSteps /\ DueAt(t, q) /\ DueTo(t, p)
  BY DEF TimerStep, Fire, Wake, Reopen, QueueRetry, Peek, Forget, RetryAgain, DueSteps
<1>2. worker' = worker \/ worker' = Queued(worker)
  BY DEF TimerStep, Fire, Wake, Reopen, QueueRetry, Peek, Forget, RetryAgain
<1>3. RowOK(row')
  BY Rows DEF TimerStep, Fire, Wake, Reopen, QueueRetry, Peek, Forget, RetryAgain
<1>4. retry' \in Retries
  <2>1. CASE Wake(t)
    <3>1. CASE UNCHANGED retry BY <3>1
    <3>2. CASE retry = [timer |-> t, pending |-> TRUE] /\ retry' = [retry EXCEPT !.pending = FALSE]
      BY <3>2 DEF Retries
    <3> QED BY <2>1, <3>1, <3>2 DEF Wake
  <2>2. CASE ~Wake(t)
    BY <2>2, RetryTyped DEF TimerStep, Fire, Reopen, QueueRetry, Peek, Forget, RetryAgain, Retries
  <2> QED BY <2>1, <2>2
<1>5. Left
  BY DEF TimerStep, Fire, Wake, Reopen, QueueRetry, Peek, Forget, RetryAgain
<1> QED BY <1>1, <1>2, <1>3, <1>4, <1>5, TimerKeepsTypes

\* The steps of maintenance after its pass.
LEMMA MaintenanceTypes ==
    ASSUME TInv, Reassured \/ Settle \/ MaintenanceEnds
    PROVE  TInv'
<1> USE TypedNow, WorkerNow, KeepLeft, FreshPass, SentinelsAssumption
<1>1. CASE Reassured
  <2>1. At("over") /\ UNCHANGED <<row, native, unseen, child, retry>> /\ Left BY <1>1 DEF Reassured
  <2>2. PICK p \in {"reassured", "retry", "end"} : Goto(p) BY <1>1 DEF Reassured
  <2>3. PassFrame
    BY <2>1, <2>2, GotoFrame DEF Ending, Working, Recovering, Alone, Applying, Native
  <2> QED BY <2>1, <2>3, PassKeepsTypes
<1>2. CASE Settle
  <2>1. At(pass.pc) /\ UNCHANGED <<row, native, unseen, child>> /\ Left BY <1>2 DEF Settle
  <2>2. pass.pc \in Ending /\ Goto("end") BY <1>2 DEF Settle, Ending
  <2>3. PassFrame
    BY <2>1, <2>2, GotoFrame DEF Ending, Working, Recovering, Alone, Applying, Native
  <2>4. retry' \in Retries BY <1>2, RetryTyped DEF Settle
  <2> QED BY <2>1, <2>3, <2>4, PassKeepsTypes DEF Retries
<1>3. CASE MaintenanceEnds
  <2>1. LockFrame /\ holder' = None /\ pass' = NoPass /\ worker' = worker
    BY <1>3 DEF MaintenanceEnds, LockFrame, local, uses
  <2>2. holder = "maintenance" BY <1>3 DEF MaintenanceEnds
  <2> QED BY <2>1, <2>2, LockKeepsTypes DEF TInv, TypeOK
<1> QED BY <1>1, <1>2, <1>3

\* Of an edit, a signal, a drift, a process and the like, which leave the pass.
OtherFrame ==
    /\ UNCHANGED <<pass, life>>
    /\ RowOK(row') /\ native' \in Digests \cup {Mixed} /\ unseen' \in BOOLEAN
    /\ child' \in [Fences -> Digests \cup {"reads", None}]
    /\ worker' \in Workers /\ (worker'.pc = "pass" <=> worker.pc = "pass")
    /\ retry' \in Retries /\ due' = due
    /\ owed' \in Nat /\ left' \in Nat /\ owed' + left' <= owed + left

LEMMA SumBounded ==
    ASSUME NEW a \in Nat, NEW b \in Nat, NEW c \in Nat, NEW d \in Nat, NEW n \in Nat,
           a + b <= n, c + d <= a + b
    PROVE  c + d <= n
OBVIOUS

LEMMA PartBounded ==
    ASSUME NEW a \in Nat, NEW b \in Nat, NEW n \in Nat, a + b <= n
    PROVE  a \in 0 .. n
OBVIOUS

LEMMA OtherKeepsTypes ==
    ASSUME TInv, OtherFrame, holder' \in {None, "cleanup", "backup"} \cup {holder},
           holder' \in {"worker", None} \cup Users,
           pass.pc # "none" <=> holder' \in {"worker", "maintenance"},
           holder' = "worker" <=> holder = "worker",
           cleaning' \in {"no", "closed", "touched"}, cleaning' # "no" <=> holder' = "cleanup",
           admitted' \in Digests \cup {None}, admitted' # None <=> holder' = "backup"
    PROVE  TInv'
<1>1. Bounded'
  <2>1. left \in Nat /\ owed \in Nat /\ owed + left <= Budget BY DEF TInv, Bounded
  <2>2. owed' \in Nat /\ left' \in Nat /\ owed' + left' <= owed + left BY DEF OtherFrame
  <2>3. owed' + left' <= Budget BY <2>1, <2>2, SumBounded, HazardsAssumption
  <2> QED BY <2>2, <2>3 DEF Bounded
<1>2. owed' \in 0 .. Budget
  <2>1. owed' \in Nat /\ left' \in Nat /\ owed' + left' <= Budget BY <1>1 DEF Bounded
  <2> QED BY <2>1, PartBounded, HazardsAssumption
<1>3. TypeOK' BY <1>2 DEF TInv, TypeOK, OtherFrame, RowOK, Retries
<1>4. PassTyped' BY DEF TInv, PassTyped, OtherFrame
<1>5. WorkerTyped' BY DEF OtherFrame, WorkerTyped
<1>6. Lives' BY DEF TInv, Lives, OtherFrame
<1> QED BY <1>1, <1>3, <1>4, <1>5, <1>6 DEF TInv

LEMMA Budgets ==
    ASSUME NEW a \in Nat, NEW b \in Nat
    PROVE  /\ b > 0 => (b - 1) \in Nat /\ (a + 1) + (b - 1) <= a + b /\ a + (b - 1) <= a + b
           /\ a > 0 => (a - 1) \in Nat /\ (a - 1) + b <= a + b
           /\ a > 0 /\ b > 0 => (a - 1) + (b - 1) <= a + b
           /\ a + b <= a + b
OBVIOUS

LEMMA UserTypes ==
    ASSUME TInv, Backup \/ BackupEnds \/ Clean \/ CleanNative \/ CleanEnds
    PROVE  TInv'
<1> USE TypedNow, WorkerNow, SentinelsAssumption
<1>0. left \in Nat /\ owed \in Nat BY DEF TInv, Bounded
<1>1. owed' = owed /\ (left' = left \/ (left > 0 /\ left' = left - 1))
  BY DEF Backup, BackupEnds, Clean, CleanNative, CleanEnds, local, Spend
<1>2. owed' \in Nat /\ left' \in Nat /\ owed' + left' <= owed + left BY <1>0, <1>1, Budgets
<1>3. worker' = worker \/ worker' = Queued(worker)
  BY DEF Backup, BackupEnds, Clean, CleanNative, CleanEnds, local
<1>4. RowOK(row') BY Rows DEF Backup, BackupEnds, Clean, CleanNative, CleanEnds
<1>5. native' \in Digests \cup {Mixed} BY DEF Backup, BackupEnds, Clean, CleanNative, CleanEnds
<1>6. UNCHANGED <<pass, life, unseen, child, retry, due>>
  BY DEF Backup, BackupEnds, Clean, CleanNative, CleanEnds, local
<1>7. OtherFrame BY <1>2, <1>3, <1>4, <1>5, <1>6, QueuedTyped DEF OtherFrame
<1>8. CASE Backup
  BY <1>7, <1>8, OtherKeepsTypes DEF Backup, TInv, TypeOK, Lives
<1>9. CASE BackupEnds
  BY <1>7, <1>9, OtherKeepsTypes DEF BackupEnds, TInv, TypeOK, Lives
<1>10. CASE Clean
  BY <1>7, <1>10, OtherKeepsTypes DEF Clean, TInv, TypeOK, Lives
<1>11. CASE CleanNative
  BY <1>7, <1>11, OtherKeepsTypes DEF CleanNative, TInv, TypeOK, Lives
<1>12. CASE CleanEnds
  BY <1>7, <1>12, OtherKeepsTypes DEF CleanEnds, TInv, TypeOK, Lives
<1> QED BY <1>8, <1>9, <1>10, <1>11, <1>12

LEMMA MaintainTypes ==
    ASSUME TInv, Maintain
    PROVE  TInv'
<1> USE TypedNow, WorkerNow, KeepLeft, FreshPass, SentinelsAssumption
<1>1. LockFrame /\ holder = None /\ holder' = "maintenance" /\ "maintenance" \in Users
      /\ pass' = NewPass /\ worker' = worker
  BY DEF Maintain, LockFrame, local, uses
<1> QED BY <1>1, LockKeepsTypes DEF TInv, TypeOK

LEMMA OutsideTypes ==
    ASSUME TInv, \/ \E d \in Digests : Edit(d)
                 \/ Signal \/ Drift
                 \/ \E f \in Fences : ChildWrites(f) \/ ChildEnds(f)
    PROVE  TInv'
<1> USE TypedNow, WorkerNow
<1>0. left \in Nat /\ owed \in Nat BY DEF TInv, Bounded
<1>1. owed' \in Nat /\ left' \in Nat /\ owed' + left' <= owed + left
  <2>1. CASE \E d \in Digests : Edit(d) BY <2>1, <1>0, Budgets DEF Edit, Spend
  <2>2. CASE Signal BY <2>2, <1>0, Budgets DEF Signal, Spend
  <2>3. CASE Drift BY <2>3, <1>0, Budgets DEF Drift, Spend, local
  <2>4. CASE \E f \in Fences : ChildWrites(f) \/ ChildEnds(f)
    BY <2>4, <1>0, Budgets DEF ChildWrites, ChildEnds, local
  <2> QED BY <2>1, <2>2, <2>3, <2>4
<1>2. worker' = worker \/ worker' = Queued(worker)
  BY DEF Edit, Signal, Drift, ChildWrites, ChildEnds, local
<1>3. RowOK(row') BY Rows DEF Edit, Signal, Drift, ChildWrites, ChildEnds
<1>4. native' \in Digests \cup {Mixed} /\ unseen' \in BOOLEAN
  BY DEF Edit, Signal, Drift, ChildWrites, ChildEnds
<1>5. child' \in [Fences -> Digests \cup {"reads", None}]
  BY DEF Edit, Signal, Drift, ChildWrites, ChildEnds
<1>6. UNCHANGED <<holder, pass, life, retry, due, cleaning, admitted>>
  BY DEF Edit, Signal, Drift, ChildWrites, ChildEnds, local, uses
<1>7. OtherFrame BY <1>1, <1>2, <1>3, <1>4, <1>5, <1>6, QueuedTyped DEF OtherFrame
<1> QED BY <1>6, <1>7, OtherKeepsTypes DEF TInv, TypeOK, Lives

LEMMA GoneTypes ==
    ASSUME TInv, Gone, Left, child' \in [Fences -> Digests \cup {"reads", None}]
    PROVE  TInv'
<1> USE TypedNow, SentinelsAssumption
<1>1. TypeOK'
  <2>1. 0 \in 0 .. Budget BY HazardsAssumption
  <2> QED BY <2>1, RowTyped DEF TInv, TypeOK, RowOK, Gone, NoPass, IdleWorker
<1>2. PassTyped' BY DEF Gone, PassTyped, NoPass, Working, Recovering, Alone, Applying, Native
<1>3. WorkerTyped' BY DEF Gone, WorkerTyped, Workers, WorkerSteps, IdleWorker
<1>4. Bounded'
  <2>1. left \in Nat /\ owed \in Nat /\ owed + left <= Budget BY DEF TInv, Bounded
  <2>2. left' \in Nat /\ left' <= left /\ owed' = 0 BY DEF Left, Gone
  <2>3. ASSUME NEW a \in Nat, NEW b \in Nat, NEW c \in Nat, NEW n \in Nat, a + b <= n, c <= b
        PROVE  0 + c <= n
    BY <2>3
  <2> QED BY <2>1, <2>2, <2>3, HazardsAssumption DEF Bounded
<1>5. Lives' BY DEF Lives, Gone, IdleWorker
<1> QED BY <1>1, <1>2, <1>3, <1>4, <1>5 DEF TInv

LEMMA LifeTypes ==
    ASSUME TInv, Stop \/ Exit \/ Crash \/ Restart
    PROVE  TInv'
<1> USE TypedNow, WorkerNow, SpendLeft, KeepLeft, SentinelsAssumption
<1>1. CASE Stop
  <2>1. TypeOK' BY <1>1 DEF Stop, TInv, TypeOK, uses
  <2>2. PassTyped' /\ WorkerTyped' BY <1>1 DEF Stop, TInv, PassTyped, WorkerTyped
  <2>3. Bounded'
    <3>1. left \in Nat /\ owed \in Nat /\ owed + left <= Budget BY DEF TInv, Bounded
    <3>2. Left /\ owed' = owed BY <1>1 DEF Stop
    <3> QED BY <3>1, <3>2, StillBounded, HazardsAssumption DEF Bounded, Left
  <2>4. Lives' BY <1>1 DEF Stop, TInv, Lives, uses
  <2> QED BY <2>1, <2>2, <2>3, <2>4 DEF TInv
<1>2. CASE Exit BY <1>2, GoneTypes DEF Exit
<1>3. CASE Crash
  <2>1. Left /\ Gone BY <1>3 DEF Crash
  <2>2. CASE child' = child BY <2>1, <2>2, GoneTypes
  <2>3. CASE pass.pc \in Native /\ child' = [child EXCEPT ![pass.fence] = Doing]
    <3>1. pass.digest \in Digests
      BY <2>3 DEF TInv, PassTyped, Working, Alone, Applying
    <3>2. Doing \in Digests \cup {"reads", None} BY <3>1 DEF Doing
    <3> QED BY <2>1, <2>3, <3>2, GoneTypes
  <2> QED BY <1>3, <2>2, <2>3 DEF Crash, Native
<1>4. CASE Restart
  <2>1. RowOK(row') BY <1>4, Rows DEF Restart, Reverified
  <2>2. worker' \in Workers /\ (worker'.pc = "pass" <=> FALSE)
    BY <1>4 DEF Restart, Workers, WorkerSteps
  <2>3. UNCHANGED <<native, unseen, child, holder, pass, retry, due, owed, cleaning, admitted, left>> /\ life' = "up"
    BY <1>4 DEF Restart, uses
  <2>4. holder # "worker" BY <1>4 DEF Restart, TInv, TypeOK, Lives
  <2>5. TypeOK' BY <2>1, <2>2, <2>3, <2>4 DEF TInv, TypeOK, RowOK
  <2>6. PassTyped' /\ WorkerTyped' BY <2>2, <2>3 DEF TInv, PassTyped, WorkerTyped
  <2>7. Bounded' /\ Lives' BY <2>2, <2>3 DEF TInv, Bounded, Lives
  <2> QED BY <2>5, <2>6, <2>7 DEF TInv
<1> QED BY <1>1, <1>2, <1>3, <1>4

LEMMA InitTypes ==
    ASSUME Init
    PROVE  TInv
<1> USE SentinelsAssumption, HazardsAssumption
<1>1. TypeOK
  <2>1. 0 \in 0 .. Budget OBVIOUS
  <2>2. RowOK(row) BY DEF Init, RowOK
  <2> QED BY <2>1, <2>2 DEF Init, TypeOK, RowOK, NoPass, IdleWorker
<1>2. PassTyped BY DEF Init, PassTyped, NoPass, Working, Recovering, Alone, Applying, Native
<1>3. WorkerTyped BY DEF Init, WorkerTyped, Workers, WorkerSteps, IdleWorker
<1>4. Bounded BY DEF Init, Bounded
<1>5. Lives BY DEF Init, Lives, IdleWorker
<1> QED BY <1>1, <1>2, <1>3, <1>4, <1>5 DEF TInv

LEMMA StepTypes ==
    ASSUME TInv, [Next]_vars
    PROVE  TInv'
<1>1. CASE UNCHANGED vars
  BY <1>1 DEF vars, TInv, TypeOK, PassTyped, WorkerTyped, Bounded, Lives
<1>2. CASE Next
  BY <1>2, PassTypes, WorkerTypes, TakeTypes, TimerTypes, OutsideTypes, UserTypes, MaintainTypes,
     MaintenanceTypes, LifeTypes DEF Next, UserStep
<1> QED BY <1>1, <1>2

\* Every variable keeps to its kind, and the pass and the deletion belong to the
\* holder of the lock: for any number of digests, fences, timers and hazards.
THEOREM TypeCorrect == Spec => []TypeOK
<1>1. Init => TInv BY InitTypes
<1>2. TInv /\ [Next]_vars => TInv' BY StepTypes
<1>3. TInv => TypeOK BY DEF TInv
<1> QED BY <1>1, <1>2, <1>3, PTL DEF Spec
-----------------------------------------------------------------------------
(* Who is alive.                                                            *)

\* A step that leaves the fence of the row, and makes nothing ready.
RowKept == row'.fence = row.fence /\ (row'.state = "ready" => row' = row)

LEMMA RowsKept ==
    ASSUME RowOK(row)
    PROVE  /\ row' = row => RowKept
           /\ row' = Open(row) => RowKept
           /\ \A d : row' = Refreshed(row, d) => RowKept
           /\ row' = Closed(row) => RowKept
           /\ row' = Parked(row) => RowKept
           /\ \A d : CanBlame(row, d) /\ row' = Blamed(row) => RowKept
<1> USE DEF RowOK, RowKept
<1>1. row' = row => RowKept OBVIOUS
<1>2. row' = Open(row) => RowKept BY DEF Open
<1>3. \A d : row' = Refreshed(row, d) => RowKept BY DEF Refreshed, Open
<1>4. row' = Closed(row) => RowKept BY DEF Closed
<1>5. row' = Parked(row) => RowKept BY DEF Parked
<1>6. \A d : CanBlame(row, d) /\ row' = Blamed(row) => RowKept BY DEF CanBlame, Blamed
<1> QED BY <1>1, <1>2, <1>3, <1>4, <1>5, <1>6

\* The steps of the goroutines, the timers and the users that keep out of the
\* vault: they leave the row's fence, and every process and pass as it is.
Outside ==
    /\ RowKept
    /\ UNCHANGED <<pass, child, cleaning, admitted, native, unseen>>

LEMMA OutsideSteps ==
    ASSUME TInv,
           \/ Look \/ Later \/ GiveUp \/ Judge \/ Succeeded \/ Failed \/ Park \/ Blame \/ Continue
           \/ \E t \in Timers : TimerStep(t)
           \/ \E d \in Digests : Edit(d)
           \/ Signal \/ Stop \/ Restart
    PROVE  Outside
<1> USE TypedNow, RowsKept
<1>1. UNCHANGED <<pass, child, cleaning, admitted, native, unseen>>
  BY DEF Look, Later, GiveUp, Judge, Succeeded, Failed, Park, Blame, Continue, WorkerAt,
         TimerStep, Fire, Wake, Reopen, QueueRetry, Peek, Forget, RetryAgain, DueAt,
         Edit, Signal, Stop, Restart, uses
<1>2. RowKept
  <2>1. CASE Park BY <2>1 DEF Park
  <2>2. CASE Blame BY <2>2 DEF Blame
  <2>3. CASE \E t \in Timers : TimerStep(t)
    BY <2>3 DEF TimerStep, Fire, Wake, Reopen, QueueRetry, Peek, Forget, RetryAgain
  <2>4. CASE \E d \in Digests : Edit(d) BY <2>4 DEF Edit
  <2>5. CASE Restart BY <2>5 DEF Restart, Reverified
  <2>6. CASE Look \/ Later \/ GiveUp \/ Judge \/ Succeeded \/ Failed \/ Continue \/ Signal \/ Stop
    BY <2>6 DEF Look, Later, GiveUp, Judge, Succeeded, Failed, Continue, Signal, Stop
  <2> QED BY <2>1, <2>2, <2>3, <2>4, <2>5, <2>6
<1> QED BY <1>1, <1>2 DEF Outside

LEMMA OutsideFences ==
    ASSUME FInv, Outside
    PROVE  FInv'
<1>1. AliveIsNamed' BY DEF FInv, AliveIsNamed, Outside, RowKept
<1>2. PassAlone' BY DEF FInv, PassAlone, NoneAlive, Outside, RowKept
<1>3. UsesSafe' BY DEF FInv, UsesSafe, NoneAlive, Outside, RowKept
<1> QED BY <1>1, <1>2, <1>3 DEF FInv

\* The vault's users: a pass that begins or ends, a backup, a deletion, a drift, a
\* process that writes or ends.
LEMMA UserFences ==
    ASSUME TInv, FInv,
           \/ Take \/ Leave \/ Maintain \/ Reassured \/ Settle \/ MaintenanceEnds
           \/ Backup \/ BackupEnds \/ Clean \/ CleanNative \/ CleanEnds \/ Drift
           \/ \E f \in Fences : ChildWrites(f) \/ ChildEnds(f)
    PROVE  FInv'
<1> USE TypedNow, RowsKept, SentinelsAssumption
<1>1. RowKept
  BY DEF Take, Leave, Maintain, Reassured, Settle, MaintenanceEnds, Backup, BackupEnds, Clean,
         CleanNative, CleanEnds, Drift, ChildWrites, ChildEnds
<1>2. \A f \in Fences : child'[f] # None => child[f] # None
  <2>1. CASE \E f \in Fences : ChildEnds(f) BY <2>1 DEF ChildEnds
  <2>2. CASE UNCHANGED child BY <2>2
  <2> QED BY <2>1, <2>2 DEF Take, Leave, Maintain, Reassured, Settle, MaintenanceEnds, Backup,
         BackupEnds, Clean, CleanNative, CleanEnds, Drift, ChildWrites
<1>3. pass' = pass \/ pass'.pc \in Ending \cup {"none"}
  <2>1. CASE Reassured \/ Settle
    <3>1. PICK p \in {"reassured", "retry", "end"} : Goto(p) BY <2>1 DEF Reassured, Settle
    <3>2. At("over") \/ (At(pass.pc) /\ pass.pc \in Ending) BY <2>1 DEF Reassured, Settle, Ending
    <3>3. pass \in Passes BY <3>2, PassAt DEF Ending
    <3> QED BY <3>1, <3>3, GotoPass DEF PassIs, Ending
  <2>2. CASE ~(Reassured \/ Settle)
    BY <2>2, FreshPass DEF Take, Leave, Maintain, MaintenanceEnds, Backup, BackupEnds, Clean,
       CleanNative, CleanEnds, Drift, ChildWrites, ChildEnds, Ending
  <2> QED BY <2>1, <2>2
<1>4. AliveIsNamed' BY <1>1, <1>2 DEF FInv, AliveIsNamed, RowKept
<1>5. PassAlone'
  <2>1. CASE pass' = pass
    BY <1>1, <1>2, <2>1, TypedNow DEF FInv, PassAlone, NoneAlive, RowKept, TInv, TypeOK
  <2>2. CASE pass'.pc \in Ending \cup {"none"}
    BY <2>2 DEF PassAlone, Ending, Alone, Applying, Native
  <2> QED BY <1>3, <2>1, <2>2
<1>6. UsesSafe'
  <2>1. admitted' # None => NoneAlive'
    <3>1. CASE Backup
      <4>1. row.fence = None BY <3>1 DEF Backup, RowOK
      <4>2. \A f \in Fences : child[f] = None BY <4>1 DEF FInv, AliveIsNamed
      <4> QED BY <1>2, <4>2 DEF NoneAlive
    <3>2. CASE admitted' = admitted BY <1>2, <3>2 DEF FInv, UsesSafe, NoneAlive
    <3>3. CASE BackupEnds BY <3>3 DEF BackupEnds
    <3> QED BY <3>1, <3>2, <3>3 DEF Take, Leave, Maintain, Reassured, Settle, MaintenanceEnds,
           At, Clean, CleanNative, CleanEnds, Drift, ChildWrites, ChildEnds, uses, local
  <2>2. cleaning' # "no" => row'.state # "ready"
    <3>1. CASE Clean BY <3>1 DEF Clean, Closed, RowOK
    <3>2. CASE CleanNative \/ CleanEnds BY <3>2 DEF CleanNative, CleanEnds, FInv, UsesSafe, TInv, TypeOK
    <3>3. CASE cleaning' = cleaning BY <1>1, <3>3 DEF FInv, UsesSafe, RowKept
    <3> QED BY <3>1, <3>2, <3>3 DEF Take, Leave, Maintain, Reassured, Settle, MaintenanceEnds,
           At, Backup, BackupEnds, Drift, ChildWrites, ChildEnds, uses, local
  <2> QED BY <2>1, <2>2 DEF UsesSafe
<1> QED BY <1>4, <1>5, <1>6 DEF FInv

\* A pass leaves backups and deletions alone, and while it runs there are none.
LEMMA PassHasVault ==
    ASSUME TInv, NEW q \in Working \cup Ending, At(q)
    PROVE  admitted = None /\ cleaning = "no" /\ admitted' = None /\ cleaning' = "no"
<1>1. pass.pc # "none" BY PassAt DEF Working, Recovering, Alone, Applying, Native, Ending
<1>2. UNCHANGED <<admitted, cleaning>> BY DEF At, uses
<1> QED BY <1>1, <1>2 DEF TInv, TypeOK

\* What a pass has to show: that its processes are named, and that it is alone.
LEMMA PassFences ==
    ASSUME TInv, NEW q \in Working \cup Ending, At(q), child' = child, AliveIsNamed', PassAlone'
    PROVE  FInv'
BY PassHasVault DEF FInv, UsesSafe

\* A pass that is over has nothing to show.
LEMMA OverFences ==
    ASSUME TInv, FInv, NEW q \in Working \cup Ending, At(q), child' = child, Over(TRUE) \/ Over(FALSE),
           row'.fence = row.fence \/ NoneAlive
    PROVE  FInv'
<1>1. pass'.pc = "over" BY OverPass DEF PassIs
<1>2. PassAlone' BY <1>1 DEF PassAlone, Alone, Applying, Native
<1>3. AliveIsNamed' BY DEF FInv, AliveIsNamed, NoneAlive
<1> QED BY <1>2, <1>3, PassFences

LEMMA LookFences ==
    ASSUME TInv, FInv, Derive \/ Read \/ Prove
    PROVE  FInv'
<1> USE TypedNow, SentinelsAssumption
<1>1. UNCHANGED <<row, child>> BY DEF Derive, Read, Prove
<1>2. AliveIsNamed' BY <1>1 DEF FInv, AliveIsNamed
<1>3. CASE Derive
  <2>1. At("derive") BY <1>3 DEF Derive
  <2>2. pass'.pc = "read" BY <1>3, <2>1, PassAt, DerivePass DEF PassIs, Ending
  <2>3. PassAlone' BY <2>2 DEF PassAlone, Alone, Applying, Native
  <2> QED BY <1>1, <1>2, <2>1, <2>3, PassFences DEF Ending
<1>4. CASE Read
  <2>1. At("read") BY <1>4 DEF Read
  <2>2. CASE row.desired = pass.digest
    <3>1. pass'.pc = (IF row.fence # None THEN "prove" ELSE "begin") /\ pass'.fence = row.fence
      BY <1>4, <2>1, <2>2, PassAt, ReadPass DEF PassIs, Working
    <3>2. row.fence = None => NoneAlive BY DEF FInv, AliveIsNamed, NoneAlive
    <3>3. PassAlone'
      BY <1>1, <3>1, <3>2 DEF PassAlone, NoneAlive, Alone, Applying, Native
    <3> QED BY <1>1, <1>2, <2>1, <3>3, PassFences DEF Working
  <2>3. CASE row.desired # pass.digest
    BY <1>1, <1>4, <2>1, <2>3, OverFences DEF Read, Return, Working
  <2> QED BY <2>2, <2>3
<1>5. CASE Prove
  <2>1. At("prove") /\ pass \in Passes BY <1>5, PassAt DEF Prove, Working, Recovering
  <2>2. pass.fence \in Fences BY <2>1 DEF FInv, PassAlone, At
  <2>3. CASE Inactive(pass.fence) /\ Goto("reset")
    <3>1. pass'.pc = "reset" /\ pass'.fence = pass.fence
      BY <2>1, <2>3, GotoPass DEF PassIs, Working, Recovering
    <3>2. PassAlone' BY <1>1, <2>2, <2>3, <3>1 DEF PassAlone, Inactive, Alone, Applying, Native
    <3> QED BY <1>1, <1>2, <2>1, <3>2, PassFences DEF Working, Recovering
  <2>4. CASE Goto("hold")
    <3>1. pass'.pc = "hold" BY <2>1, <2>4, GotoPass DEF PassIs, Working, Recovering
    <3>2. PassAlone' BY <3>1 DEF PassAlone, Alone, Applying, Native
    <3> QED BY <1>1, <1>2, <2>1, <3>2, PassFences DEF Working, Recovering
  <2> QED BY <1>5, <2>3, <2>4 DEF Prove
<1> QED BY <1>3, <1>4, <1>5

\* A pass at a step at which it is alone knows that nothing is alive.
LEMMA AloneNow ==
    ASSUME FInv, pass.pc \in Alone
    PROVE  NoneAlive
BY DEF FInv, PassAlone

LEMMA AloneGoesOn ==
    ASSUME TInv, FInv, NEW q \in Working \cup Ending, At(q), NoneAlive, child' = child,
           pass'.pc \in Alone, pass'.pc \notin Applying
    PROVE  FInv'
<1>1. NoneAlive' /\ AliveIsNamed' BY DEF NoneAlive, AliveIsNamed
<1>2. PassAlone' BY <1>1 DEF PassAlone, Alone, Applying, Native
<1> QED BY <1>1, <1>2, PassFences

LEMMA ApplyingGoesOn ==
    ASSUME TInv, FInv, NEW q \in Applying, At(q), child' = child, row' = row,
           pass'.pc \in Applying, pass'.fence = pass.fence
    PROVE  FInv'
<1>1. pass.pc \in Applying BY DEF At
<1>2. NoneAlive BY <1>1, AloneNow DEF Alone
<1>3. NoneAlive' /\ AliveIsNamed' BY <1>2 DEF NoneAlive, AliveIsNamed
<1>4. PassAlone' BY <1>1, <1>3 DEF FInv, PassAlone, Alone, Applying, Native
<1> QED BY <1>3, <1>4, PassFences DEF Working, Alone

LEMMA ReturnFences ==
    ASSUME TInv, FInv, Hold \/ MarkFence
    PROVE  FInv'
<1> USE TypedNow, RowsKept
<1>1. child' = child /\ Over(TRUE) BY DEF Hold, MarkFence, Return
<1>2. CASE Hold
  <2>1. At("hold") /\ RowKept BY <1>2 DEF Hold
  <2> QED BY <1>1, <2>1, OverFences DEF Working, Recovering, RowKept
<1>3. CASE MarkFence
  <2>1. At("mark") /\ pass.pc = "mark" BY <1>3 DEF MarkFence, At
  <2>2. NoneAlive BY <2>1, AloneNow DEF Alone
  <2> QED BY <1>1, <2>1, <2>2, OverFences DEF Working, Alone
<1> QED BY <1>2, <1>3

LEMMA RecoverFences ==
    ASSUME TInv, FInv, Recover \/ Sweep
    PROVE  FInv'
<1> USE TypedNow
<1>1. child' = child BY DEF Recover, Sweep
<1>2. CASE Recover
  <2>1. At("reset") /\ pass \in Passes /\ pass.pc = "reset"
    BY <1>2, PassAt DEF Recover, Working, Recovering
  <2>2. CASE Over(TRUE) /\ UNCHANGED row
    BY <1>1, <2>1, <2>2, OverFences DEF Working, Recovering
  <2>3. CASE CanReset(row, pass.digest, pass.fence) /\ row' = Reset(row) /\ Goto("sweepOld")
    <3>1. row.fence = pass.fence /\ child[pass.fence] = None
      BY <2>1, <2>3 DEF FInv, PassAlone, CanReset
    <3>2. NoneAlive BY <3>1 DEF FInv, AliveIsNamed, NoneAlive
    <3>3. pass'.pc = "sweepOld" BY <2>1, <2>3, GotoPass DEF PassIs, Working, Alone
    <3> QED BY <1>1, <2>1, <3>2, <3>3, AloneGoesOn DEF Working, Recovering, Alone, Applying, Native
  <2> QED BY <1>2, <2>2, <2>3 DEF Recover, Return
<1>3. CASE Sweep
  <2>1. At(pass.pc) /\ pass.pc \in {"sweepOld", "sweep"} /\ UNCHANGED row BY <1>3 DEF Sweep
  <2>2. pass.pc \in Alone /\ pass.pc \in Working BY <2>1 DEF Alone, Working
  <2>3. NoneAlive BY <2>2, AloneNow
  <2>4. pass \in Passes /\ pass.failed \in BOOLEAN BY <2>1, <2>2, PassAt DEF Passes
  <2>5. CASE Goto("begin") \/ Goto("mark")
    <3>1. pass'.pc \in {"begin", "mark"} BY <2>4, <2>5, GotoPass DEF PassIs, Working, Alone
    <3> QED BY <1>1, <2>1, <2>2, <2>3, <3>1, AloneGoesOn DEF Alone, Applying, Native
  <2>6. CASE Over(pass.failed)
    BY <1>1, <2>1, <2>2, <2>4, <2>6, OverFences
  <2> QED BY <1>3, <2>5, <2>6 DEF Sweep
<1> QED BY <1>2, <1>3

LEMMA BeginFences ==
    ASSUME TInv, FInv, Begin
    PROVE  FInv'
<1> USE TypedNow
<1>1. child' = child /\ At("begin") BY DEF Begin
<1>2. pass \in Passes /\ pass.pc = "begin" BY <1>1, PassAt DEF Working, Alone
<1>3. NoneAlive BY <1>2, AloneNow DEF Alone
<1>4. CASE Over(TRUE) BY <1>1, <1>3, <1>4, OverFences DEF Working, Alone
<1>5. CASE ~Over(TRUE)
  <2>1. PICK f \in Fences : row' = Begun(row, f) /\ pass' = [pass EXCEPT !.pc = "inspect", !.fence = f]
    BY <1>5 DEF Begin, Return
  <2>2. pass'.pc = "inspect" /\ pass'.fence = f BY <1>2, <2>1, BeginPass DEF PassIs
  <2>3. row'.fence = f BY <2>1 DEF Begun, RowOK
  <2>4. NoneAlive' /\ AliveIsNamed' BY <1>1, <1>3 DEF NoneAlive, AliveIsNamed
  <2>5. PassAlone' BY <2>2, <2>3, <2>4 DEF PassAlone
  <2> QED BY <1>1, <2>4, <2>5, PassFences DEF Working, Alone
<1> QED BY <1>4, <1>5

\* No process outlives a call: then a failed command leaves nothing behind.
LEMMA FailFences ==
    ASSUME TInv, "return" \notin Outlive, NEW q \in Native, At(q), NEW kind, Fail(kind)
    PROVE  child' = child /\ pass'.pc = "finish" /\ pass'.fence = pass.fence
<1>1. pass \in Passes BY PassAt DEF Working, Alone, Applying
<1> QED BY <1>1, FailPass DEF Fail, PassIs

LEMMA ApplyFences ==
    ASSUME TInv, FInv, "return" \notin Outlive, Inspect \/ Write \/ Readback \/ Care
    PROVE  FInv'
<1>1. PICK q \in Native : At(q) BY DEF Inspect, Write, Readback, Care, Native
<1>2. pass \in Passes BY <1>1, PassAt DEF Working, Alone, Applying
<1>3. row' = row BY DEF Inspect, Write, Readback, Care
<1>4. child' = child /\ pass'.pc \in Applying /\ pass'.fence = pass.fence
  <2>1. CASE \E kind : Fail(kind) BY <1>1, <2>1, FailFences DEF Applying
  <2>2. CASE pass' = [pass EXCEPT !.pc = "finish", !.failed = TRUE, !.keep = FALSE] /\ UNCHANGED child
    BY <1>2, <2>2, RefusedPass DEF PassIs, Applying
  <2>3. CASE (Goto("writing") \/ Goto("readback") \/ Goto("finish")) /\ UNCHANGED child
    BY <1>2, <2>3, GotoPass DEF PassIs, Working, Alone, Applying, Native
  <2>4. CASE /\ pass' = [pass EXCEPT !.pc = IF native = pass.digest THEN "care" ELSE "write",
                                     !.drift = native # pass.digest]
             /\ UNCHANGED child
    BY <1>2, <2>4, InspectPass DEF PassIs, Applying, Native
  <2>5. CASE /\ pass' = [pass EXCEPT !.pc = IF native = pass.digest THEN "care" ELSE "finish",
                                     !.failed = native # pass.digest]
             /\ UNCHANGED child
    BY <1>2, <2>5, ReadbackPass DEF PassIs, Applying, Native
  <2>6. CASE Inspect BY <2>1, <2>2, <2>4, <2>6 DEF Inspect
  <2>7. CASE Write BY <2>1, <2>3, <2>7 DEF Write
  <2>8. CASE Readback BY <2>1, <2>5, <2>8 DEF Readback
  <2>9. CASE Care BY <2>1, <2>2, <2>3, <2>9 DEF Care
  <2> QED BY <2>6, <2>7, <2>8, <2>9
<1> QED BY <1>1, <1>3, <1>4, ApplyingGoesOn DEF Applying

LEMMA FinishFences ==
    ASSUME TInv, FInv, Finish
    PROVE  FInv'
<1>1. child' = child /\ At("finish") BY DEF Finish
<1>2. pass \in Passes /\ pass.pc = "finish" BY <1>1, PassAt DEF Working, Alone, Applying
<1>3. NoneAlive BY <1>2, AloneNow DEF Alone, Applying
<1>4. CASE Over(TRUE) BY <1>1, <1>3, <1>4, OverFences DEF Working, Alone, Applying
<1>5. CASE Goto("sweep")
  <2>1. pass'.pc = "sweep" BY <1>2, <1>5, GotoPass DEF PassIs, Working, Alone
  <2> QED BY <1>1, <1>3, <2>1, AloneGoesOn DEF Working, Alone, Applying, Native
<1> QED BY <1>4, <1>5 DEF Finish, Return

\* The application ends: what holds a fence after a crash is the process whose
\* fence the row names.
LEMMA GoneFences ==
    ASSUME TInv, FInv, Exit \/ Crash
    PROVE  FInv'
<1> USE TypedNow
<1>1. Gone BY DEF Exit, Crash
<1>2. PassAlone' /\ UsesSafe'
  BY <1>1 DEF Gone, NoPass, PassAlone, UsesSafe, Alone, Applying, Native
<1>3. row' = row BY <1>1 DEF Gone
<1>4. AliveIsNamed'
  <2>1. CASE child' = child BY <1>3, <2>1 DEF FInv, AliveIsNamed
  <2>2. CASE pass.pc \in Native /\ child' = [child EXCEPT ![pass.fence] = Doing]
    <3>1. NoneAlive /\ pass.fence \in Fences /\ row.fence = pass.fence
      BY <2>2 DEF FInv, PassAlone, Alone, Applying
    <3>2. ASSUME NEW f \in Fences, f # pass.fence PROVE child'[f] = None
      BY <2>2, <3>1, <3>2 DEF NoneAlive
    <3> QED BY <1>3, <3>1, <3>2 DEF AliveIsNamed
  <2> QED BY <2>1, <2>2 DEF Exit, Crash, Native
<1> QED BY <1>2, <1>4 DEF FInv

LEMMA InitFences ==
    ASSUME Init
    PROVE  FInv
<1> USE SentinelsAssumption
<1>1. AliveIsNamed BY DEF Init, AliveIsNamed
<1>2. PassAlone BY DEF Init, PassAlone, NoPass, Alone, Applying, Native
<1>3. UsesSafe BY DEF Init, UsesSafe
<1> QED BY <1>1, <1>2, <1>3 DEF FInv

LEMMA StepFences ==
    ASSUME TInv, FInv, "return" \notin Outlive, [Next]_vars
    PROVE  FInv'
<1>1. CASE UNCHANGED vars
  BY <1>1 DEF vars, FInv, AliveIsNamed, PassAlone, UsesSafe, NoneAlive
<1>2. CASE PassStep
  BY <1>2, LookFences, ReturnFences, RecoverFences, BeginFences, ApplyFences, FinishFences
  DEF PassStep
<1>3. CASE Next /\ ~PassStep
  BY <1>3, OutsideSteps, OutsideFences, UserFences, GoneFences DEF Next, WorkerStep, UserStep
<1> QED BY <1>1, <1>2, <1>3

\* No pass runs policy commands while the process of an earlier pass holds its
\* fence, provided that no process outlives the call that started it; it may
\* outlive the application. Without the proviso it is false: see the README.
THEOREM OneWriterAtATime ==
    ASSUME "return" \notin Outlive
    PROVE  Spec => []OneWriter
<1>1. Init => TInv /\ FInv BY InitTypes, InitFences
<1>2. TInv /\ FInv /\ [Next]_vars => (TInv /\ FInv)' BY StepTypes, StepFences
<1>3. TInv /\ FInv => OneWriter
  BY DEF FInv, PassAlone, NoneAlive, OneWriter, Alone, Applying, Native
<1> QED BY <1>1, <1>2, <1>3, PTL DEF Spec
-----------------------------------------------------------------------------
(* What a ready row says of the vault.                                       *)

LEMMA OutsideTruth ==
    ASSUME PInv, Outside
    PROVE  PInv'
<1>1. PolicyHolds' BY DEF PInv, PolicyHolds, Outside, RowKept
<1>2. PassTruthful' BY DEF PInv, PassTruthful, Applied, Outside
<1> QED BY <1>1, <1>2 DEF PInv

\* What the policy in the vault can be changed by while nobody is told.
LEMMA NothingReady ==
    ASSUME TInv, FInv, row.fence \in Fences \/ cleaning # "no"
    PROVE  row.state # "ready"
BY SentinelsAssumption DEF TInv, TypeOK, FInv, UsesSafe

\* The row may have changed, and the policy been changed in a vault that is not
\* ready and that no backup uses.
LEMMA UserTruth ==
    ASSUME TInv, FInv, PInv,
           \/ Take \/ Leave \/ Maintain \/ Reassured \/ Settle \/ MaintenanceEnds
           \/ Backup \/ BackupEnds \/ Clean \/ CleanNative \/ CleanEnds \/ Drift
           \/ \E f \in Fences : ChildWrites(f) \/ ChildEnds(f)
    PROVE  PInv'
<1> USE TypedNow, RowsKept, SentinelsAssumption
<1>1. RowKept
  BY DEF Take, Leave, Maintain, Reassured, Settle, MaintenanceEnds, Backup, BackupEnds, Clean,
         CleanNative, CleanEnds, Drift, ChildWrites, ChildEnds
<1>2. unseen' = unseen \/ unseen'
  BY DEF Take, Leave, Maintain, Reassured, Settle, MaintenanceEnds, Backup, BackupEnds, Clean,
         CleanNative, CleanEnds, Drift, ChildWrites, ChildEnds
<1>3. pass' = pass \/ pass'.pc \in Ending \cup {"none"}
  <2>1. CASE Reassured \/ Settle
    <3>1. PICK p \in {"reassured", "retry", "end"} : Goto(p) BY <2>1 DEF Reassured, Settle
    <3>2. At("over") \/ (At(pass.pc) /\ pass.pc \in Ending) BY <2>1 DEF Reassured, Settle, Ending
    <3>3. pass \in Passes BY <3>2, PassAt DEF Ending
    <3> QED BY <3>1, <3>3, GotoPass DEF PassIs, Ending
  <2>2. CASE ~(Reassured \/ Settle)
    BY <2>2, FreshPass DEF Take, Leave, Maintain, MaintenanceEnds, Backup, BackupEnds, Clean,
       CleanNative, CleanEnds, Drift, ChildWrites, ChildEnds, Ending
  <2> QED BY <2>1, <2>2
<1>4. CASE Drift
  <2>1. unseen' /\ UNCHANGED pass BY <1>4 DEF Drift
  <2> QED BY <2>1 DEF PInv, PolicyHolds, PassTruthful, Applied
<1>5. CASE CleanNative \/ \E f \in Fences : ChildWrites(f)
  <2>1. row' = row /\ pass' = pass /\ admitted' = admitted
    BY <1>5 DEF CleanNative, ChildWrites, uses, local
  <2>2. row.state # "ready" /\ admitted = None /\ pass.pc \notin Alone
    <3>1. CASE CleanNative
      <4>1. holder = "cleanup" /\ cleaning # "no" BY <3>1 DEF CleanNative, TInv, TypeOK
      <4>2. admitted = None /\ pass.pc = "none" BY <4>1 DEF TInv, TypeOK
      <4> QED BY <4>1, <4>2, NothingReady DEF Alone, Applying, Native
    <3>2. CASE \E f \in Fences : ChildWrites(f)
      <4>1. PICK f \in Fences : child[f] # None BY <3>2 DEF ChildWrites
      <4>2. row.fence = f /\ ~NoneAlive BY <4>1 DEF FInv, AliveIsNamed, NoneAlive
      <4> QED BY <4>2, NothingReady DEF FInv, UsesSafe, PassAlone
    <3> QED BY <1>5, <3>1, <3>2
  <2>3. PolicyHolds' BY <2>1, <2>2 DEF PolicyHolds
  <2>4. PassTruthful' BY <2>1, <2>2 DEF PInv, PassTruthful, Alone, Applying, Native
  <2> QED BY <2>3, <2>4 DEF PInv
<1>6. CASE ~Drift /\ ~CleanNative /\ ~\E f \in Fences : ChildWrites(f)
  <2>1. UNCHANGED <<native, unseen>>
    BY <1>6 DEF Take, Leave, Maintain, Reassured, Settle, MaintenanceEnds, Backup, BackupEnds,
       Clean, CleanEnds, ChildEnds
  <2>2. admitted' # None => admitted' = admitted \/ (admitted' = row.desired /\ row.state = "ready")
    BY <1>6 DEF Take, Leave, Maintain, Reassured, Settle, MaintenanceEnds, At, Backup, BackupEnds,
       Clean, CleanEnds, ChildEnds, uses, local
  <2>3. PolicyHolds' BY <1>1, <2>1, <2>2 DEF PInv, PolicyHolds, RowKept
  <2>4. PassTruthful'
    <3>1. CASE pass' = pass BY <2>1, <3>1 DEF PInv, PassTruthful, Applied
    <3>2. CASE pass'.pc \in Ending \cup {"none"}
      BY <3>2 DEF PassTruthful, Recovering, Applying, Native, Ending
    <3> QED BY <1>3, <3>1, <3>2
  <2> QED BY <2>3, <2>4 DEF PInv
<1> QED BY <1>4, <1>5, <1>6

\* A pass may change the policy and look at it while the row names its fence.
LEMMA PassTruth ==
    ASSUME TInv, FInv, PInv, NEW q \in Working \cup Ending, At(q),
           \/ UNCHANGED <<native, unseen>> /\ (row'.state = "ready" => row' = row)
           \/ q \in Applying /\ row' = row,
           PassTruthful'
    PROVE  PInv'
<1>1. admitted' = None BY PassHasVault
<1>2. CASE UNCHANGED <<native, unseen>> /\ (row'.state = "ready" => row' = row)
  BY <1>1, <1>2 DEF PInv, PolicyHolds
<1>3. CASE q \in Applying /\ row' = row
  <2>1. row.fence \in Fences BY <1>3 DEF FInv, PassAlone, At
  <2> QED BY <1>1, <1>3, <2>1, NothingReady DEF PInv, PolicyHolds
<1> QED BY <1>2, <1>3

LEMMA OverTruth ==
    ASSUME TInv, FInv, PInv, NEW q \in Working \cup Ending, At(q), Over(TRUE) \/ Over(FALSE),
           UNCHANGED <<native, unseen>>, row'.state = "ready" => row' = row
    PROVE  PInv'
<1>1. pass'.pc = "over" BY OverPass DEF PassIs
<1>2. PassTruthful' BY <1>1 DEF PassTruthful, Recovering, Applying, Native
<1> QED BY <1>2, PassTruth

LEMMA LookTruth ==
    ASSUME TInv, FInv, PInv, Derive \/ Read \/ Prove
    PROVE  PInv'
<1> USE TypedNow, SentinelsAssumption
<1>1. UNCHANGED <<row, native, unseen>> BY DEF Derive, Read, Prove
<1>2. CASE Derive
  <2>1. At("derive") BY <1>2 DEF Derive
  <2>2. pass'.pc = "read" BY <1>2, <2>1, PassAt, DerivePass DEF PassIs, Ending
  <2>3. PassTruthful' BY <2>2 DEF PassTruthful, Recovering, Applying, Native
  <2> QED BY <1>1, <2>1, <2>3, PassTruth DEF Ending
<1>3. CASE Read
  <2>1. At("read") BY <1>3 DEF Read
  <2>2. CASE row.desired = pass.digest
    <3>1. /\ pass'.pc = (IF row.fence # None THEN "prove" ELSE "begin")
          /\ pass'.digest = pass.digest
          /\ pass'.keep = (holder = "maintenance" /\ row.state = "ready")
      BY <1>3, <2>1, <2>2, PassAt, ReadPass DEF PassIs, Working
    <3>2. row.state = "ready" => row.fence = None BY DEF RowOK
    <3>3. row.state = "ready" => unseen \/ native = pass.digest BY <2>2 DEF PInv, PolicyHolds
    <3>4. PassTruthful'
      BY <1>1, <3>1, <3>2, <3>3 DEF PassTruthful, Applied, Recovering, Applying, Native
    <3> QED BY <1>1, <2>1, <3>4, PassTruth DEF Working
  <2>3. CASE row.desired # pass.digest
    BY <1>1, <1>3, <2>1, <2>3, OverTruth DEF Read, Return, Working
  <2> QED BY <2>2, <2>3
<1>4. CASE Prove
  <2>1. At("prove") /\ pass \in Passes /\ pass.pc = "prove"
    BY <1>4, PassAt DEF Prove, Working, Recovering
  <2>2. ~pass.keep BY <2>1 DEF PInv, PassTruthful, Recovering
  <2>3. pass'.pc \in {"reset", "hold"} /\ pass'.keep = pass.keep
    BY <1>4, <2>1, GotoPass DEF Prove, PassIs, Working, Recovering
  <2>4. PassTruthful' BY <2>2, <2>3 DEF PassTruthful, Applying, Native
  <2> QED BY <1>1, <2>1, <2>4, PassTruth DEF Working, Recovering
<1> QED BY <1>2, <1>3, <1>4

LEMMA ReturnTruth ==
    ASSUME TInv, FInv, PInv, Hold \/ MarkFence
    PROVE  PInv'
<1>1. UNCHANGED <<native, unseen>> /\ Over(TRUE) BY DEF Hold, MarkFence, Return
<1>2. At("hold") \/ At("mark") BY DEF Hold, MarkFence
<1>3. row'.state = "ready" => row' = row
  BY TypedNow DEF Hold, MarkFence, Parked, FenceMarked, RowOK
<1> QED BY <1>1, <1>2, <1>3, OverTruth DEF Working, Recovering, Alone

LEMMA RecoverTruth ==
    ASSUME TInv, FInv, PInv, Recover \/ Sweep
    PROVE  PInv'
<1>1. UNCHANGED <<native, unseen>> BY DEF Recover, Sweep
<1>2. row'.state = "ready" => row' = row
  BY TypedNow DEF Recover, Sweep, Reset, RowOK
<1>3. PICK q \in {"reset", "sweepOld", "sweep"} : At(q) /\ q = pass.pc BY DEF Recover, Sweep, At
<1>4. pass \in Passes /\ pass.failed \in BOOLEAN
  BY <1>3, PassAt DEF Working, Recovering, Alone, Passes
<1>5. CASE Over(TRUE) \/ Over(pass.failed)
  BY <1>1, <1>2, <1>3, <1>4, <1>5, OverTruth DEF Working, Recovering, Alone
<1>6. CASE q # "sweep" /\ (Goto("sweepOld") \/ Goto("begin"))
  <2>2. ~pass.keep BY <1>3, <1>6 DEF PInv, PassTruthful, Recovering
  <2>3. pass'.pc \in {"sweepOld", "begin"} /\ pass'.keep = pass.keep
    BY <1>4, <1>6, GotoPass DEF PassIs, Working, Alone
  <2>4. PassTruthful' BY <2>2, <2>3 DEF PassTruthful, Applying, Native
  <2> QED BY <1>1, <1>2, <1>3, <2>4, PassTruth DEF Working, Recovering, Alone
<1>7. CASE Goto("mark")
  <2>1. pass'.pc = "mark" BY <1>4, <1>7, GotoPass DEF PassIs, Working, Alone
  <2>2. PassTruthful' BY <2>1 DEF PassTruthful, Recovering, Applying, Native
  <2> QED BY <1>1, <1>2, <1>3, <2>2, PassTruth DEF Working, Recovering, Alone
<1> QED BY <1>3, <1>5, <1>6, <1>7 DEF Recover, Sweep, Return, At

LEMMA BeginTruth ==
    ASSUME TInv, FInv, PInv, Begin
    PROVE  PInv'
<1> USE TypedNow
<1>1. At("begin") /\ UNCHANGED <<native, unseen>> BY DEF Begin
<1>2. pass \in Passes /\ pass.pc = "begin" BY <1>1, PassAt DEF Working, Alone
<1>3. row'.state = "ready" => row' = row BY DEF Begin, Begun, RowOK
<1>4. CASE Over(TRUE) BY <1>1, <1>3, <1>4, OverTruth DEF Working, Alone
<1>5. CASE ~Over(TRUE)
  <2>1. PICK f \in Fences : pass' = [pass EXCEPT !.pc = "inspect", !.fence = f]
    BY <1>5 DEF Begin, Return
  <2>2. /\ pass'.pc = "inspect" /\ pass'.digest = pass.digest /\ pass'.keep = pass.keep
        /\ pass'.drift = pass.drift
    BY <1>2, <2>1, BeginPass DEF PassIs
  <2>3. PassTruthful'
    BY <1>1, <1>2, <2>2 DEF PInv, PassTruthful, Applied, Recovering, Applying, Native
  <2> QED BY <1>1, <1>3, <2>3, PassTruth DEF Working, Alone
<1> QED BY <1>4, <1>5

\* A command that fails adds nothing to what the pass knows.
LEMMA FailTruth ==
    ASSUME TInv, FInv, PInv, NEW q \in Native, At(q),
           \/ \E kind : Fail(kind)
           \/ pass' = [pass EXCEPT !.pc = "finish", !.failed = TRUE, !.keep = FALSE],
           UNCHANGED <<row, native, unseen>>
    PROVE  PInv'
<1>1. pass \in Passes /\ pass.pc = q BY PassAt DEF Working, Alone, Applying
<1>2. /\ pass'.pc = "finish" /\ pass'.failed /\ pass'.digest = pass.digest
      /\ pass'.drift = pass.drift /\ (pass'.keep => pass.keep)
  BY <1>1, FailPass, RefusedPass DEF Fail, PassIs
<1>3. PassTruthful'
  BY <1>1, <1>2 DEF PInv, PassTruthful, Applied, Recovering, Applying, Native
<1> QED BY <1>3, PassTruth DEF Working, Alone, Applying

LEMMA InspectTruth ==
    ASSUME TInv, FInv, PInv, Inspect \/ Readback
    PROVE  PInv'
<1>1. PICK q \in {"inspect", "readback"} : At(q) BY DEF Inspect, Readback
<1>2. pass \in Passes /\ pass.pc = q /\ row' = row /\ native' = native
  BY <1>1, PassAt DEF Inspect, Readback, Working, Alone, Applying, Native
<1>3. CASE /\ UNCHANGED unseen
           /\ \/ Fail("reads")
              \/ pass' = [pass EXCEPT !.pc = "finish", !.failed = TRUE, !.keep = FALSE]
  BY <1>1, <1>2, <1>3, FailTruth DEF Native
<1>4. CASE pass' = [pass EXCEPT !.pc = IF native = pass.digest THEN "care" ELSE "write",
                                !.drift = native # pass.digest]
  <2>1. /\ pass'.pc = (IF native = pass.digest THEN "care" ELSE "write")
        /\ pass'.digest = pass.digest /\ pass'.drift = (native # pass.digest)
    BY <1>2, <1>4, InspectPass DEF PassIs
  <2>2. PassTruthful' BY <1>2, <2>1 DEF PassTruthful, Applied, Recovering, Applying, Native
  <2> QED BY <1>1, <1>2, <2>2, PassTruth DEF Working, Alone, Applying, Native
<1>5. CASE /\ q = "readback"
           /\ pass' = [pass EXCEPT !.pc = IF native = pass.digest THEN "care" ELSE "finish",
                                   !.failed = native # pass.digest]
  <2>1. /\ pass'.pc = (IF native = pass.digest THEN "care" ELSE "finish")
        /\ pass'.digest = pass.digest /\ pass'.drift = pass.drift
        /\ pass'.failed = (native # pass.digest)
    BY <1>2, <1>5, ReadbackPass DEF PassIs
  <2>2. pass.drift BY <1>2, <1>5 DEF PInv, PassTruthful
  <2>3. PassTruthful' BY <1>2, <2>1, <2>2 DEF PassTruthful, Applied, Recovering, Applying, Native
  <2> QED BY <1>1, <1>2, <2>3, PassTruth DEF Working, Alone, Applying, Native
<1> QED BY <1>1, <1>3, <1>4, <1>5 DEF Inspect, Readback, At

LEMMA WriteTruth ==
    ASSUME TInv, FInv, PInv, Write
    PROVE  PInv'
<1>1. PICK q \in {"write", "writing"} : At(q) BY DEF Write
<1>2. pass \in Passes /\ pass.pc = q /\ row' = row /\ unseen' = unseen
  BY <1>1, PassAt DEF Write, Working, Alone, Applying, Native
<1>3. pass.drift BY <1>1, <1>2 DEF PInv, PassTruthful
<1>4. CASE Fail(pass.digest) /\ UNCHANGED native
  BY <1>1, <1>2, <1>4, FailTruth DEF Native
<1>5. CASE Goto("writing") \/ Goto("readback")
  <2>1. pass'.pc \in {"writing", "readback"} /\ pass'.drift = pass.drift
    BY <1>2, <1>5, GotoPass DEF PassIs, Working, Alone, Applying, Native
  <2>2. PassTruthful' BY <1>3, <2>1 DEF PassTruthful, Recovering
  <2> QED BY <1>1, <1>2, <2>2, PassTruth DEF Working, Alone, Applying, Native
<1> QED BY <1>4, <1>5 DEF Write

LEMMA CareTruth ==
    ASSUME TInv, FInv, PInv, Care
    PROVE  PInv'
<1>1. At("care") /\ UNCHANGED <<row, native, unseen>> BY DEF Care
<1>2. pass \in Passes /\ pass.pc = "care" BY <1>1, PassAt DEF Working, Alone, Applying, Native
<1>3. CASE Goto("finish")
  <2>1. Applied BY <1>2 DEF PInv, PassTruthful
  <2>2. pass'.pc = "finish" /\ pass'.digest = pass.digest
    BY <1>2, <1>3, GotoPass DEF PassIs, Working, Alone, Applying
  <2>3. PassTruthful' BY <1>1, <2>1, <2>2 DEF PassTruthful, Applied, Recovering
  <2> QED BY <1>1, <2>3, PassTruth DEF Working, Alone, Applying, Native
<1>4. CASE ~Goto("finish") BY <1>1, <1>4, FailTruth DEF Care, Native
<1> QED BY <1>3, <1>4

LEMMA FinishTruth ==
    ASSUME TInv, FInv, PInv, Finish
    PROVE  PInv'
<1> USE TypedNow
<1>1. At("finish") /\ UNCHANGED <<native, unseen>> BY DEF Finish
<1>2. pass \in Passes /\ pass.pc = "finish" BY <1>1, PassAt DEF Working, Alone, Applying
<1>3. CASE Over(TRUE) /\ UNCHANGED row
  BY <1>1, <1>3, OverTruth DEF Working, Alone, Applying
<1>4. CASE row.desired = pass.digest /\ row' = Finished(row, pass) /\ Goto("sweep")
  <2>1. row'.desired = pass.digest /\ row'.state = Outcome(pass) BY <1>4 DEF Finished, RowOK
  <2>2. Outcome(pass) = "ready" => Applied
    BY <1>2 DEF Outcome, PInv, PassTruthful, Applying
  <2>3. admitted' = None BY <1>1, PassHasVault DEF Working, Alone, Applying
  <2>4. PolicyHolds' BY <1>1, <2>1, <2>2, <2>3 DEF PolicyHolds, Applied
  <2>5. pass'.pc = "sweep" BY <1>2, <1>4, GotoPass DEF PassIs, Working, Alone
  <2>6. PassTruthful' BY <2>5 DEF PassTruthful, Recovering, Applying, Native
  <2> QED BY <2>4, <2>6 DEF PInv
<1> QED BY <1>3, <1>4 DEF Finish, Return

LEMMA GoneTruth ==
    ASSUME PInv, Exit \/ Crash
    PROVE  PInv'
<1>1. Gone BY DEF Exit, Crash
<1>2. PassTruthful' BY <1>1 DEF Gone, NoPass, PassTruthful, Recovering, Applying, Native
<1>3. PolicyHolds' BY <1>1 DEF Gone, PInv, PolicyHolds
<1> QED BY <1>2, <1>3 DEF PInv

LEMMA InitTruth ==
    ASSUME Init
    PROVE  PInv
<1>1. PolicyHolds BY DEF Init, PolicyHolds
<1>2. PassTruthful BY DEF Init, PassTruthful, NoPass, Recovering, Applying, Native
<1> QED BY <1>1, <1>2 DEF PInv

LEMMA StepTruth ==
    ASSUME TInv, FInv, PInv, [Next]_vars
    PROVE  PInv'
<1>1. CASE UNCHANGED vars
  BY <1>1 DEF vars, PInv, PolicyHolds, PassTruthful, Applied
<1>2. CASE PassStep
  BY <1>2, LookTruth, ReturnTruth, RecoverTruth, BeginTruth, InspectTruth, WriteTruth, CareTruth,
     FinishTruth DEF PassStep
<1>3. CASE Next /\ ~PassStep
  BY <1>3, OutsideSteps, OutsideTruth, UserTruth, GoneTruth DEF Next, WorkerStep, UserStep
<1> QED BY <1>1, <1>2, <1>3

\* A vault that is ready, or that a backup uses, has the policy its jobs ask for,
\* unless somebody else changed it since the application last looked: though
\* processes outlive the application and go on writing, under the same proviso.
THEOREM ReadyIsTrue ==
    ASSUME "return" \notin Outlive
    PROVE  Spec => []PolicyHolds
<1>1. Init => IInv BY InitTypes, InitFences, InitTruth DEF IInv
<1>2. IInv /\ [Next]_vars => IInv' BY StepTypes, StepFences, StepTruth DEF IInv
<1>3. IInv => PolicyHolds BY DEF IInv, PInv
<1> QED BY <1>1, <1>2, <1>3, PTL DEF Spec
=============================================================================
