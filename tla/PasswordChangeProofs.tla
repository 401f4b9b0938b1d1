----------------------- MODULE PasswordChangeProofs -----------------------
(***************************************************************************)
(* Proofs about PasswordChange for any profiles, any bound on reruns and   *)
(* any number of changes, faults and stops, and for both engines.  That    *)
(* nobody is locked out and nothing half done is left open rests on what   *)
(* each durable phase promises about the three other stores, whatever      *)
(* attempt is running, and on what the running attempt adds to that.       *)
(***************************************************************************)
EXTENDS PasswordChange, TLAPS

\* The steps that an attempt takes while the row is in one phase.
BeforeNative == {"makeFolder", "startNative"} \cup Preparing \cup Undoing
Dropping == {"dropProfiles", "dropRoot", "dropStage", "dropRow"}
Running == {"launch", "native", "keepResult", "probe", "decide", "resetResult",
            "toPublishing"}
Publishing == {"verifyNew", "publishProfiles", "publishRoot", "commit"}
Cleaning == {"cleanStage", "complete"}

StepsInPhase ==
    /\ pc \in BeforeNative => phase = "preparing"
    /\ pc \in Running \cup Dropping \cup {"fenceWait"} => phase = "native_started"
    /\ pc \in Publishing => phase = "publishing"
    /\ pc \in Cleaning => phase = "cleanup_pending"
    /\ pc \in {"dropRecord", "settle"} => phase = "none"

\* Which passwords the database knows in each phase.
PasswordsKnown ==
    /\ phase = "none" => ~pending
    /\ phase \in {"preparing", "native_started", "publishing"} => saved = "old" /\ pending
    /\ phase = "cleanup_pending" => saved = "new" /\ ~pending

\* A rollback that has begun is one of a change that never reached the vault.
RollbackKnown ==
    /\ pc = "startNative" => record.saved
    /\ phase = "native_started" => record.saved
    /\ record.rollingBack => phase \in {"native_started", "none"} /\ saved = "old"
    /\ pc \in Dropping => record.rollingBack
    /\ pc \in Running => ~record.rollingBack

\* The native repository: untouched, committed, or in the hands of one command.
Untouched == phase = "preparing" \/ (phase = "none" /\ saved = "old") \/ record.rollingBack
Committed == phase \in {"publishing", "cleanup_pending"} \/ (phase = "none" /\ saved = "new")
NativeKnown ==
    /\ Untouched => writes = 0
    /\ Committed => Opens("new")
    /\ orphan => /\ phase = "native_started" /\ ~record.rollingBack
                 /\ pc \in {"idle", "fenceWait"}
    /\ pc = "decide" /\ probe = "old" => writes = 0
    /\ pc = "decide" /\ probe = "new" => Opens("new")
    /\ pc = "toPublishing" => Opens("new")

\* The protected metadata.  Before publication every object has the old password
\* and the fences stand in order; while nothing is rolled back all of them stand.
FencedOld == [password |-> "old", fenced |-> TRUE]
AllClean(password) == \A o \in Objects : tree[o] = CleanObject(password)
TreeKnown ==
    /\ phase = "none" => AllClean(saved)
    /\ phase \in {"preparing", "native_started"} =>
           /\ \A o \in Objects : tree[o].password = "old"
           /\ FencesInOrder
    /\ phase = "native_started" /\ ~record.rollingBack => AllFenced
    /\ phase = "publishing" =>
           /\ \A o \in Objects : tree[o] \in {FencedOld, CleanObject("new")}
           /\ tree["root"] = CleanObject("new") => AllClean("new")
    /\ phase = "cleanup_pending" => AllClean("new")

\* What the running attempt has reached of it.
ProgressKnown ==
    /\ pc = "profileFences" => tree["root"].fenced
    /\ pc \in {"resetStage", "fillStage", "writeRecord", "startNative"} => AllFenced
    /\ pc \in {"undoRoot", "dropRoot"} => \A p \in Profiles : ~tree[p].fenced
    /\ pc \in {"undoStage", "undoRow", "dropStage", "dropRow"} =>
           \A o \in Objects : ~tree[o].fenced
    /\ pc = "publishRoot" => \A p \in Profiles : tree[p] = CleanObject("new")
    /\ pc = "commit" => AllClean("new")

\* The three groups that the steps are proved to keep, one after the other.
Control == StepsInPhase /\ PasswordsKnown /\ RollbackKnown
NativeOK == Control /\ NativeKnown
Metadata == TreeKnown /\ ProgressKnown
IInv == TypeOK /\ NativeOK /\ Metadata
-----------------------------------------------------------------------------
\* The values that the steps assign.
LEMMA StepNames ==
    /\ "idle" \in Steps /\ "makeFolder" \in Steps /\ "rootFence" \in Steps
    /\ "profileFences" \in Steps /\ "resetStage" \in Steps /\ "fillStage" \in Steps
    /\ "writeRecord" \in Steps /\ "startNative" \in Steps /\ "fenceWait" \in Steps
    /\ "undoProfiles" \in Steps /\ "undoRoot" \in Steps /\ "undoStage" \in Steps
    /\ "undoRow" \in Steps /\ "launch" \in Steps /\ "native" \in Steps
    /\ "keepResult" \in Steps /\ "probe" \in Steps /\ "decide" \in Steps
    /\ "resetResult" \in Steps /\ "toPublishing" \in Steps /\ "dropProfiles" \in Steps
    /\ "dropRoot" \in Steps /\ "dropStage" \in Steps /\ "dropRow" \in Steps
    /\ "dropRecord" \in Steps /\ "verifyNew" \in Steps /\ "publishProfiles" \in Steps
    /\ "publishRoot" \in Steps /\ "commit" \in Steps /\ "cleanStage" \in Steps
    /\ "complete" \in Steps /\ "settle" \in Steps
BY DEF Steps, Preparing, Undoing
LEMMA Values ==
    /\ NoRecord \in Records
    /\ "unset" \in Statuses /\ "not_started" \in Statuses /\ "succeeded" \in Statuses
    /\ "failed" \in Statuses /\ "interrupted" \in Statuses
    /\ "none" \in Phases /\ "preparing" \in Phases /\ "native_started" \in Phases
    /\ "publishing" \in Phases /\ "cleanup_pending" \in Phases
    /\ "old" \in Passwords /\ "new" \in Passwords
BY BoundsAssumption DEF NoRecord, Records, Statuses, Phases, Passwords

\* One object gets or loses its fence, or is published; the others stay.
LEMMA FenceTree ==
    ASSUME NEW t \in Trees, NEW o \in Objects, NEW b \in BOOLEAN, NEW u,
           u = [t EXCEPT ![o].fenced = b]
    PROVE  /\ u \in Trees /\ u[o] = [password |-> t[o].password, fenced |-> b]
           /\ \A x \in Objects : x # o => u[x] = t[x]
BY DEF Trees
LEMMA PublishTree ==
    ASSUME NEW t \in Trees, NEW o \in Objects
    PROVE  LET u == [t EXCEPT ![o] = CleanObject("new")]
           IN  /\ u \in Trees /\ u[o] = CleanObject("new")
               /\ \A x \in Objects : x # o => u[x] = t[x]
BY DEF Trees, CleanObject, Passwords

AttemptTyped == /\ pc \in Steps /\ mode \in {"none", "change", "retry", "startup"}
                /\ launched \in BOOLEAN /\ outcome \in Statuses
                /\ probe \in {"new", "old", "neither"}
LEMMA EndedTyped == NoAttempt => AttemptTyped'
BY StepNames, Values, Zenon DEF NoAttempt, AttemptTyped
LEMMA AttemptEnds ==
    ASSUME TypeOK, NEW rowRemains, EndAttempt(rowRemains)
    PROVE  AttemptTyped' /\ opRecord' \in {"none", "running", "finished"}
BY EndedTyped DEF TypeOK, EndAttempt
LEMMA GotoTyped ==
    ASSUME TypeOK, NEW step \in Steps, Goto(step)
    PROVE  AttemptTyped'
BY DEF TypeOK, Goto, AttemptTyped

LEMMA InitTypes == Init => TypeOK
<1> SUFFICES ASSUME Init PROVE TypeOK OBVIOUS
<1>1. tree \in Trees BY DEF Init, Trees, CleanObject, Passwords
<1>2. AttemptTyped BY StepNames, Values, Zenon DEF Init, AttemptTyped
<1>4. /\ status \in Statuses /\ phase \in Phases /\ saved \in Passwords /\ record \in Records
      /\ opRecord \in {"none", "running", "finished"} /\ app \in {"up", "quitting", "down"}
      /\ writes \in 0..2
  BY Values DEF Init
<1>3. changes \in Nat /\ faults \in Nat /\ stops \in Nat BY BoundsAssumption DEF Init
<1> QED BY <1>1, <1>2, <1>3, <1>4 DEF Init, TypeOK, AttemptTyped

LEMMA LeftLock == TypeOK /\ MayLeaveLock => lockLeft' \in BOOLEAN
BY Zenon DEF TypeOK, MayLeaveLock

LEMMA StepTypes == TypeOK /\ Next => TypeOK'
<1> SUFFICES ASSUME TypeOK, Next PROVE TypeOK' OBVIOUS
<1> USE DEF database, stage, repository, attempt, budgets
<1>1. CASE Begin
  <2>1. pc' \in Steps /\ status' \in Statuses /\ phase' \in Phases /\ record' \in Records
        /\ mode' \in {"none", "change", "retry", "startup"}
        /\ opRecord' \in {"none", "running", "finished"} /\ app' = app
        /\ pending' \in BOOLEAN /\ folder' \in BOOLEAN /\ staged' \in BOOLEAN
    BY <1>1, StepNames, Values, Zenon DEF Begin
  <2>2. changes' \in Nat BY <1>1 DEF Begin, TypeOK
  <2> QED BY <1>1, <2>1, <2>2 DEF Begin, TypeOK
<1>2. CASE Retry BY <1>2 DEF Retry, TypeOK
<1>3. CASE Prepare
  <2>1. CASE MakeFolder BY <2>1, StepNames, Values DEF MakeFolder, TypeOK, Goto
  <2>2. CASE FenceRoot
    <3>1. tree' \in Trees BY <2>2, FenceTree DEF FenceRoot, TypeOK, Objects
    <3> QED BY <2>2, <3>1, StepNames, Values DEF FenceRoot, TypeOK, Goto
  <2>3. CASE FencesUp BY <2>3, StepNames, Values DEF FencesUp, TypeOK, Goto
  <2>4. CASE ResetStage
    <3>1. AttemptTyped' BY <2>4, GotoTyped, StepNames DEF ResetStage
    <3> QED BY <2>4, <3>1, Values DEF ResetStage, TypeOK, AttemptTyped
  <2>5. CASE FillStage BY <2>5, StepNames, Values DEF FillStage, TypeOK, Goto
  <2>6. CASE WriteRecord
    <3>1. record' \in Records
      BY <2>6, BoundsAssumption DEF Records, WriteRecord
    <3> QED BY <2>6, <3>1, StepNames, Values DEF WriteRecord, TypeOK, Goto
  <2>7. CASE StartNative BY <2>7, StepNames, Values DEF StartNative, TypeOK, Goto
  <2> QED BY <1>3, <2>1, <2>2, <2>3, <2>4, <2>5, <2>6, <2>7 DEF Prepare
<1>4. CASE ObjectStep
  <2>1. PICK o \in Profiles : FenceProfile(o) \/ DropProfileFence(o) \/ PublishProfile(o)
    BY <1>4 DEF ObjectStep
  <2>2. tree' \in Trees
    <3>1. tree \in Trees /\ o \in Objects BY DEF TypeOK, Objects
    <3>2. CASE PublishProfile(o) BY <3>1, <3>2, PublishTree DEF PublishProfile
    <3>3. CASE FenceProfile(o) BY <3>1, <3>3, FenceTree DEF FenceProfile
    <3>4. CASE DropProfileFence(o) BY <3>1, <3>4, FenceTree DEF DropProfileFence
    <3> QED BY <2>1, <3>2, <3>3, <3>4
  <2> QED BY <2>1, <2>2 DEF FenceProfile, DropProfileFence, PublishProfile, TypeOK, Goto
<1>5. CASE Undo
  <2>1. CASE ProfilesClean BY <2>1, StepNames, Values DEF ProfilesClean, TypeOK, Goto
  <2>2. CASE DropRootFence
    <3>1. tree' \in Trees BY <2>2, FenceTree DEF DropRootFence, TypeOK, Objects
    <3> QED BY <2>2, <3>1, StepNames, Values DEF DropRootFence, TypeOK, Goto
  <2>4. CASE UndoStage
    <3>1. AttemptTyped' BY <2>4, GotoTyped, StepNames DEF UndoStage
    <3> QED BY <2>4, <3>1, Values DEF UndoStage, TypeOK, AttemptTyped
  <2>5. CASE UndoRow
    <3>1. AttemptTyped' BY <2>5, GotoTyped, StepNames DEF UndoRow
    <3> QED BY <2>5, <3>1, Values DEF UndoRow, TypeOK, AttemptTyped
  <2>6. CASE DropStage
    <3>1. AttemptTyped' BY <2>6, GotoTyped, StepNames DEF DropStage
    <3> QED BY <2>6, <3>1, Values DEF DropStage, TypeOK, AttemptTyped
  <2>7. CASE DropRow
    <3>1. AttemptTyped' BY <2>7, GotoTyped, StepNames DEF DropRow
    <3> QED BY <2>7, <3>1, Values DEF DropRow, TypeOK, AttemptTyped
  <2>8. CASE DropRecord
    <3>1. AttemptTyped' BY <2>8, GotoTyped, StepNames DEF DropRecord
    <3> QED BY <2>8, <3>1, Values DEF DropRecord, TypeOK, AttemptTyped
  <2>9. CASE Settle
    BY <2>9, AttemptEnds, Values DEF Settle, TypeOK, AttemptTyped
  <2> QED BY <1>5, <2>1, <2>2, <2>4, <2>5, <2>6, <2>7, <2>8, <2>9 DEF Undo
<1>6. CASE Native
  <2>1. CASE Launch BY <2>1, StepNames, Values DEF Launch, TypeOK
  <2>2. CASE NativeEnds
    <3>1. lockLeft' \in BOOLEAN BY <2>2, LeftLock DEF NativeEnds
    <3>2. faults' \in Nat /\ outcome' \in Statuses BY <2>2, Values DEF NativeEnds, TypeOK
    <3> QED BY <2>2, <3>1, <3>2, StepNames, Values DEF NativeEnds, TypeOK
  <2>3. CASE KeepResult BY <2>3, StepNames, Values DEF KeepResult, TypeOK
  <2> QED BY <1>6, <2>1, <2>2, <2>3 DEF Native
<1>7. CASE Recover
  <2>1. CASE TakeFence BY <2>1, StepNames, Values DEF TakeFence, TypeOK, Goto
  <2>2. CASE Probe
    <3>1. probe' \in {"new", "old", "neither"} BY <2>2 DEF Probe
    <3>2. writes' \in 0..2 /\ faults' \in Nat BY <2>2 DEF Probe, TypeOK
    <3>3. lockLeft' \in BOOLEAN /\ pc' \in Steps BY <2>2, StepNames, Zenon DEF Probe
    <3> QED BY <2>2, <3>1, <3>2, <3>3 DEF Probe, TypeOK
  <2>3. CASE GoForward
    <3>1. lockLeft' \in BOOLEAN BY <2>3, LockAssumption, Zenon
         DEF GoForward, RemovalCutOff, TypeOK, repository
    <3>2. writes' \in {writes, 1, 2} /\ faults' \in {faults, faults - 1}
          /\ (faults' # faults => faults > 0)
      BY <2>3 DEF GoForward, RemovalCutOff, Removing
    <3> QED BY <2>3, <3>1, <3>2, StepNames, Values DEF GoForward, TypeOK, Goto
  <2>4. CASE ToPublishing BY <2>4, StepNames, Values DEF ToPublishing, TypeOK, Goto
  <2>5. CASE Rerun
    <3>1. record' \in Records
      BY <2>5, BoundsAssumption DEF Records, Rerun, ShouldRerun, TypeOK
    <3> QED BY <2>5, <3>1, StepNames, Values DEF Rerun, TypeOK, Goto
  <2>6. CASE ResetResult BY <2>6, StepNames, Values DEF ResetResult, TypeOK, Goto
  <2>7. CASE RollBack
    <3>1. record' \in Records
      BY <2>7 DEF RollBack, TypeOK, Records
    <3> QED BY <2>7, <3>1, StepNames, Values DEF RollBack, TypeOK, Goto
  <2>8. CASE LeaveForRetry
    BY <2>8, AttemptEnds, Values DEF LeaveForRetry, TypeOK, AttemptTyped
  <2> QED BY <1>7, <2>1, <2>2, <2>3, <2>4, <2>5, <2>6, <2>7, <2>8 DEF Recover
<1>8. CASE Publish
  <2>1. CASE VerifyNew
    <3>1. AttemptTyped' /\ opRecord' \in {"none", "running", "finished"}
      BY <2>1, AttemptEnds, GotoTyped, StepNames DEF VerifyNew, TypeOK
    <3> QED BY <2>1, <3>1 DEF VerifyNew, TypeOK, AttemptTyped
  <2>2. CASE ProfilesPublished BY <2>2, StepNames, Values DEF ProfilesPublished, TypeOK, Goto
  <2>3. CASE PublishRoot
    <3>1. tree' \in Trees BY <2>3, PublishTree DEF PublishRoot, TypeOK, Objects
    <3> QED BY <2>3, <3>1, StepNames, Values DEF PublishRoot, TypeOK, Goto
  <2>4. CASE Commit
    <3>1. AttemptTyped' BY <2>4, GotoTyped, StepNames DEF Commit
    <3> QED BY <2>4, <3>1, Values DEF Commit, TypeOK, AttemptTyped
  <2>5. CASE CleanStage
    <3>1. AttemptTyped' BY <2>5, GotoTyped, StepNames DEF CleanStage
    <3> QED BY <2>5, <3>1, Values DEF CleanStage, TypeOK, AttemptTyped
  <2>6. CASE Complete
    <3>1. AttemptTyped' BY <2>6, GotoTyped, StepNames DEF Complete
    <3> QED BY <2>6, <3>1, Values DEF Complete, TypeOK, AttemptTyped
  <2> QED BY <1>8, <2>1, <2>2, <2>3, <2>4, <2>5, <2>6 DEF Publish
<1>9. CASE PrepareFails
  <2>1. faults' \in Nat BY <1>9 DEF PrepareFails, TypeOK
  <2>2. AttemptTyped' /\ opRecord' \in {"none", "running", "finished"}
    BY <1>9, AttemptEnds, GotoTyped, StepNames DEF PrepareFails, TypeOK
  <2> QED BY <1>9, <2>1, <2>2 DEF PrepareFails, TypeOK, AttemptTyped
<1>10. CASE NotStarted BY <1>10, StepNames, Values DEF NotStarted, TypeOK, Goto
<1>11. CASE NativeWrite BY <1>11 DEF NativeWrite, TypeOK
<1>12. CASE OrphanEnds
  <2>1. lockLeft' \in BOOLEAN /\ orphan' \in BOOLEAN BY <1>12, LeftLock DEF OrphanEnds
  <2> QED BY <1>12, <2>1 DEF OrphanEnds, TypeOK
<1>13. CASE AttemptStops
  <2>1. faults' \in Nat BY <1>13 DEF AttemptStops, TypeOK
  <2>2. AttemptTyped' /\ opRecord' \in {"none", "running", "finished"}
    BY <1>13, AttemptEnds DEF AttemptStops
  <2> QED BY <1>13, <2>1, <2>2 DEF AttemptStops, TypeOK, AttemptTyped
<1>14. CASE Quit \/ Exit BY <1>14 DEF Quit, Exit, TypeOK
<1>15. CASE Boot
  <2>1. pc' \in Steps /\ mode' \in {"none", "change", "retry", "startup"}
    BY <1>15 DEF Boot, TypeOK
  <2>2. opRecord' \in {"none", "running", "finished"} BY <1>15 DEF Boot, TypeOK
  <2> QED BY <1>15, <2>1, <2>2 DEF Boot, TypeOK
<1>16. CASE Crash
  <2>1. lockLeft' \in BOOLEAN /\ orphan' \in BOOLEAN BY <1>16, LeftLock DEF Crash, TypeOK
  <2>2. AttemptTyped' BY <1>16, EndedTyped DEF Crash
  <2> QED BY <1>16, <2>1, <2>2 DEF Crash, TypeOK, AttemptTyped
<1> QED BY <1>1, <1>2, <1>3, <1>4, <1>5, <1>6, <1>7, <1>8, <1>9, <1>10, <1>11, <1>12, <1>13,
           <1>14, <1>15, <1>16 DEF Next, Work

-----------------------------------------------------------------------------
(* What the database and the record say.                                    *)

LEMMA StepControl ==
    ASSUME TypeOK, Control, Next
    PROVE  Control'
<1> USE DEF database, stage, repository, attempt, budgets, Control, StepsInPhase,
            PasswordsKnown, RollbackKnown, Goto, NoRecord, BeforeNative, Preparing, Undoing,
            Dropping, Running, Publishing, Cleaning
<1>1. CASE Begin BY <1>1 DEF Begin
<1>2. CASE Retry BY <1>2 DEF Retry, Admitted
<1>3. CASE Boot BY <1>3 DEF Boot, Admitted
<1>4. CASE ObjectStep
  BY <1>4 DEF ObjectStep, FenceProfile, DropProfileFence, PublishProfile
<1>5. CASE Prepare
  <2>1. CASE MakeFolder BY <2>1 DEF MakeFolder
  <2>2. CASE FenceRoot BY <2>2 DEF FenceRoot
  <2>3. CASE FencesUp BY <2>3 DEF FencesUp
  <2>4. CASE ResetStage BY <2>4 DEF ResetStage
  <2>5. CASE FillStage BY <2>5 DEF FillStage
  <2>6. CASE WriteRecord BY <2>6 DEF WriteRecord
  <2>7. CASE StartNative BY <2>7 DEF StartNative
  <2> QED BY <1>5, <2>1, <2>2, <2>3, <2>4, <2>5, <2>6, <2>7 DEF Prepare
<1>6. CASE Undo
  <2>1. CASE ProfilesClean BY <2>1 DEF ProfilesClean
  <2>2. CASE DropRootFence BY <2>2 DEF DropRootFence
  <2>3. CASE UndoStage BY <2>3 DEF UndoStage
  <2>4. CASE UndoRow BY <2>4 DEF UndoRow
  <2>5. CASE DropStage BY <2>5 DEF DropStage
  <2>6. CASE DropRow BY <2>6 DEF DropRow
  <2>7. CASE DropRecord BY <2>7 DEF DropRecord
  <2>8. CASE Settle BY <2>8 DEF Settle, EndAttempt, NoAttempt
  <2> QED BY <1>6, <2>1, <2>2, <2>3, <2>4, <2>5, <2>6, <2>7, <2>8 DEF Undo
<1>7. CASE Native
  <2>1. CASE Launch BY <2>1 DEF Launch
  <2>2. CASE NativeEnds BY <2>2 DEF NativeEnds
  <2>3. CASE KeepResult BY <2>3 DEF KeepResult
  <2> QED BY <1>7, <2>1, <2>2, <2>3 DEF Native
<1>8. CASE Recover
  <2>1. CASE TakeFence BY <2>1 DEF TakeFence
  <2>2. CASE Probe BY <2>2 DEF Probe
  <2>3. CASE GoForward BY <2>3 DEF GoForward
  <2>4. CASE ToPublishing BY <2>4 DEF ToPublishing
  <2>5. CASE Rerun BY <2>5 DEF Rerun, TypeOK, Records
  <2>6. CASE ResetResult BY <2>6 DEF ResetResult
  <2>7. CASE RollBack BY <2>7 DEF RollBack, TypeOK, Records
  <2>8. CASE LeaveForRetry BY <2>8 DEF LeaveForRetry, EndAttempt, NoAttempt
  <2> QED BY <1>8, <2>1, <2>2, <2>3, <2>4, <2>5, <2>6, <2>7, <2>8 DEF Recover
<1>9. CASE Publish
  <2>1. CASE VerifyNew BY <2>1 DEF VerifyNew, EndAttempt, NoAttempt
  <2>2. CASE ProfilesPublished BY <2>2 DEF ProfilesPublished
  <2>3. CASE PublishRoot BY <2>3 DEF PublishRoot
  <2>4. CASE Commit BY <2>4 DEF Commit
  <2>5. CASE CleanStage BY <2>5 DEF CleanStage
  <2>6. CASE Complete BY <2>6 DEF Complete
  <2> QED BY <1>9, <2>1, <2>2, <2>3, <2>4, <2>5, <2>6 DEF Publish
<1>10. CASE PrepareFails BY <1>10 DEF PrepareFails, EndAttempt, NoAttempt
<1>11. CASE NotStarted BY <1>11 DEF NotStarted
<1>12. CASE NativeWrite \/ OrphanEnds \/ Quit \/ Exit
  BY <1>12 DEF NativeWrite, OrphanEnds, Quit, Exit
<1>13. CASE AttemptStops BY <1>13 DEF AttemptStops, EndAttempt, NoAttempt
<1>14. CASE Crash BY <1>14 DEF Crash, NoAttempt
<1> QED BY <1>1, <1>2, <1>3, <1>4, <1>5, <1>6, <1>7, <1>8, <1>9, <1>10, <1>11, <1>12, <1>13,
           <1>14 DEF Next, Work

-----------------------------------------------------------------------------
(* What the repository holds.                                               *)

OpensWhen ==
    /\ Opens("new") <=> IF engine = "restic" THEN writes > 0 ELSE writes = 2
    /\ Opens("old") <=> IF engine = "restic" THEN writes < 2 ELSE writes = 0
LEMMA OpensMeans ==
    /\ engine \in Engines => OpensWhen
    /\ engine' \in Engines => OpensWhen'
BY DEF OpensWhen, Opens, Engines

LEMMA StepNativeKnown ==
    ASSUME TypeOK, TypeOK', NativeOK, Control', Next
    PROVE  NativeKnown'
<1>0. OpensWhen /\ OpensWhen' BY OpensMeans DEF TypeOK
<1> USE <1>0 DEF database, stage, repository, attempt, budgets, NativeOK, Control,
            StepsInPhase, PasswordsKnown, RollbackKnown, NativeKnown, Untouched, Committed,
            OpensWhen, Goto, NoRecord, BeforeNative, Preparing, Undoing, Dropping, Running,
            Publishing, Cleaning
<1>1. CASE Begin BY <1>1 DEF Begin
<1>2. CASE Retry BY <1>2 DEF Retry, Admitted
<1>3. CASE Boot BY <1>3 DEF Boot, Admitted
<1>4. CASE ObjectStep
  BY <1>4 DEF ObjectStep, FenceProfile, DropProfileFence, PublishProfile
<1>5. CASE Prepare
  <2>1. CASE MakeFolder BY <2>1 DEF MakeFolder
  <2>2. CASE FenceRoot BY <2>2 DEF FenceRoot
  <2>3. CASE FencesUp BY <2>3 DEF FencesUp
  <2>4. CASE ResetStage BY <2>4 DEF ResetStage
  <2>5. CASE FillStage BY <2>5 DEF FillStage
  <2>6. CASE WriteRecord BY <2>6 DEF WriteRecord
  <2>7. CASE StartNative BY <2>7 DEF StartNative
  <2> QED BY <1>5, <2>1, <2>2, <2>3, <2>4, <2>5, <2>6, <2>7 DEF Prepare
<1>6. CASE Undo
  <2>1. CASE ProfilesClean BY <2>1 DEF ProfilesClean
  <2>2. CASE DropRootFence BY <2>2 DEF DropRootFence
  <2>3. CASE UndoStage BY <2>3 DEF UndoStage
  <2>4. CASE UndoRow BY <2>4 DEF UndoRow
  <2>5. CASE DropStage BY <2>5 DEF DropStage
  <2>6. CASE DropRow BY <2>6 DEF DropRow
  <2>7. CASE DropRecord BY <2>7 DEF DropRecord
  <2>8. CASE Settle BY <2>8 DEF Settle, EndAttempt, NoAttempt
  <2> QED BY <1>6, <2>1, <2>2, <2>3, <2>4, <2>5, <2>6, <2>7, <2>8 DEF Undo
<1>7. CASE Native
  <2>1. CASE Launch BY <2>1 DEF Launch
  <2>2. CASE NativeEnds BY <2>2 DEF NativeEnds
  <2>3. CASE KeepResult BY <2>3 DEF KeepResult
  <2> QED BY <1>7, <2>1, <2>2, <2>3 DEF Native
<1>8. CASE Recover
  <2>1. CASE TakeFence BY <2>1 DEF TakeFence, FenceFree
  <2>2. CASE Probe
    <3>1. writes' = writes \/ (Split /\ writes' = 0) BY <2>2 DEF Probe
    <3>2. probe' = "old" => (writes' = writes /\ Opens("old") /\ ~Opens("new")) \/ writes' = 0
      <4>1. probe' = "old" => ~Opens("new") /\ (Opens("old") \/ Split) BY <2>2 DEF Probe
      <4>2. probe' = "old" => writes' = IF Split THEN 0 ELSE writes BY <2>2 DEF Probe
      <4> QED BY <4>1, <4>2
    <3>3. probe' = "new" => Opens("new") BY <2>2 DEF Probe
    <3> QED BY <2>2, <3>1, <3>2, <3>3 DEF Probe, Split, TypeOK, Engines
  <2>3. CASE GoForward
    <3>1. Opens("new") BY <2>3 DEF GoForward
    <3>2. writes' = writes \/ (engine = "restic" /\ writes' \in {1, 2})
      BY <2>3 DEF GoForward, RemovalCutOff, Removing
    <3> QED BY <2>3, <3>1, <3>2 DEF GoForward, TypeOK
  <2>4. CASE ToPublishing BY <2>4 DEF ToPublishing
  <2>5. CASE Rerun BY <2>5 DEF Rerun, TypeOK, Records
  <2>6. CASE ResetResult BY <2>6 DEF ResetResult
  <2>7. CASE RollBack BY <2>7 DEF RollBack, ShouldRollBack, TypeOK, Records
  <2>8. CASE LeaveForRetry BY <2>8 DEF LeaveForRetry, EndAttempt, NoAttempt
  <2> QED BY <1>8, <2>1, <2>2, <2>3, <2>4, <2>5, <2>6, <2>7, <2>8 DEF Recover
<1>9. CASE Publish
  <2>1. CASE VerifyNew BY <2>1 DEF VerifyNew, EndAttempt, NoAttempt
  <2>2. CASE ProfilesPublished BY <2>2 DEF ProfilesPublished
  <2>3. CASE PublishRoot BY <2>3 DEF PublishRoot
  <2>4. CASE Commit BY <2>4 DEF Commit
  <2>5. CASE CleanStage BY <2>5 DEF CleanStage
  <2>6. CASE Complete BY <2>6 DEF Complete
  <2> QED BY <1>9, <2>1, <2>2, <2>3, <2>4, <2>5, <2>6 DEF Publish
<1>10. CASE PrepareFails BY <1>10 DEF PrepareFails, EndAttempt, NoAttempt
<1>11. CASE NotStarted BY <1>11 DEF NotStarted
<1>12. CASE NativeWrite BY <1>12 DEF NativeWrite
<1>13. CASE OrphanEnds \/ Quit \/ Exit
  BY <1>13 DEF OrphanEnds, Quit, Exit
<1>14. CASE AttemptStops BY <1>14 DEF AttemptStops, EndAttempt, NoAttempt
<1>15. CASE Crash BY <1>15 DEF Crash, Removing, NoAttempt
<1> QED BY <1>1, <1>2, <1>3, <1>4, <1>5, <1>6, <1>7, <1>8, <1>9, <1>10, <1>11, <1>12, <1>14,
           <1>15, <1>13 DEF Next, Work

-----------------------------------------------------------------------------
(* What the protected metadata holds.                                       *)

\* Objects whose two fields are known are known.
LEMMA ObjectKnown ==
    ASSUME TypeOK, NEW o \in Objects
    PROVE  /\ tree[o].password = "old" /\ tree[o].fenced => tree[o] = FencedOld
           /\ tree[o].password = "old" /\ ~tree[o].fenced => tree[o] = CleanObject("old")
BY DEF TypeOK, Trees, Passwords, FencedOld, CleanObject

LEMMA FenceMoves ==
    ASSUME TypeOK, NEW o \in Objects
    PROVE  /\ tree' = [tree EXCEPT ![o].fenced = TRUE] =>
                  /\ tree'[o] = [password |-> tree[o].password, fenced |-> TRUE]
                  /\ \A x \in Objects : x # o => tree'[x] = tree[x]
           /\ tree' = [tree EXCEPT ![o].fenced = FALSE] =>
                  /\ tree'[o] = [password |-> tree[o].password, fenced |-> FALSE]
                  /\ \A x \in Objects : x # o => tree'[x] = tree[x]
BY DEF TypeOK, Trees

LEMMA StepMetadata ==
    ASSUME TypeOK, NativeOK, Metadata, Control', Next
    PROVE  Metadata'
<1> USE ProfilesAssumption
    DEF database, stage, repository, attempt, budgets, NativeOK, Control, StepsInPhase,
        PasswordsKnown, RollbackKnown, Metadata, TreeKnown, ProgressKnown, FencedOld,
        CleanObject, AllClean, AllFenced, FencesInOrder, Objects, Goto, NoRecord,
        BeforeNative, Preparing, Undoing, Dropping, Running, Publishing, Cleaning
<1>1. CASE Begin BY <1>1 DEF Begin
<1>2. CASE Retry BY <1>2 DEF Retry, Admitted
<1>3. CASE Boot BY <1>3 DEF Boot, Admitted
<1>4. CASE ObjectStep
  <2>1. PICK p \in Profiles : FenceProfile(p) \/ DropProfileFence(p) \/ PublishProfile(p)
    BY <1>4 DEF ObjectStep
  <2>2. tree \in Trees /\ p \in Objects /\ p # "root" /\ "root" \in Objects BY DEF TypeOK
  <2>3. CASE FenceProfile(p)
    <3>1. /\ tree'[p] = [password |-> tree[p].password, fenced |-> TRUE]
          /\ \A x \in Objects : x # p => tree'[x] = tree[x]
      BY <2>2, <2>3, FenceMoves DEF FenceProfile
    <3> QED BY <2>2, <2>3, <3>1 DEF FenceProfile
  <2>4. CASE DropProfileFence(p)
    <3>1. /\ tree'[p] = [password |-> tree[p].password, fenced |-> FALSE]
          /\ \A x \in Objects : x # p => tree'[x] = tree[x]
      BY <2>2, <2>4, FenceMoves DEF DropProfileFence
    <3> QED BY <2>2, <2>4, <3>1 DEF DropProfileFence
  <2>5. CASE PublishProfile(p)
    <3>1. /\ tree'[p] = CleanObject("new")
          /\ \A x \in Objects : x # p => tree'[x] = tree[x]
      BY <2>2, <2>5, PublishTree DEF PublishProfile
    <3> QED BY <2>2, <2>5, <3>1 DEF PublishProfile
  <2> QED BY <2>1, <2>3, <2>4, <2>5
<1>5. CASE Prepare
  <2>1. CASE MakeFolder BY <2>1 DEF MakeFolder
  <2>2. CASE FenceRoot
    <3>1. /\ tree'["root"] = [password |-> tree["root"].password, fenced |-> TRUE]
          /\ \A x \in Objects : x # "root" => tree'[x] = tree[x]
      BY <2>2, FenceMoves DEF FenceRoot
    <3> QED BY <2>2, <3>1 DEF FenceRoot
  <2>3. CASE FencesUp BY <2>3 DEF FencesUp
  <2>4. CASE ResetStage BY <2>4 DEF ResetStage
  <2>5. CASE FillStage BY <2>5 DEF FillStage
  <2>6. CASE WriteRecord BY <2>6 DEF WriteRecord
  <2>7. CASE StartNative BY <2>7 DEF StartNative
  <2> QED BY <1>5, <2>1, <2>2, <2>3, <2>4, <2>5, <2>6, <2>7 DEF Prepare
<1>6. CASE Undo
  <2>1. CASE ProfilesClean BY <2>1 DEF ProfilesClean
  <2>2. CASE DropRootFence
    <3>1. /\ tree'["root"] = [password |-> tree["root"].password, fenced |-> FALSE]
          /\ \A x \in Objects : x # "root" => tree'[x] = tree[x]
      BY <2>2, FenceMoves DEF DropRootFence
    <3> QED BY <2>2, <3>1 DEF DropRootFence
  <2>3. CASE UndoStage BY <2>3 DEF UndoStage
  <2>4. CASE UndoRow
    <3>1. \A o \in Objects : tree[o] = CleanObject("old") BY <2>4, ObjectKnown DEF UndoRow
    <3> QED BY <2>4, <3>1 DEF UndoRow
  <2>5. CASE DropStage BY <2>5 DEF DropStage
  <2>6. CASE DropRow
    <3>1. \A o \in Objects : tree[o] = CleanObject("old") BY <2>6, ObjectKnown DEF DropRow
    <3> QED BY <2>6, <3>1 DEF DropRow
  <2>7. CASE DropRecord BY <2>7 DEF DropRecord
  <2>8. CASE Settle BY <2>8 DEF Settle, EndAttempt, NoAttempt
  <2> QED BY <1>6, <2>1, <2>2, <2>3, <2>4, <2>5, <2>6, <2>7, <2>8 DEF Undo
<1>7. CASE Native
  <2>1. CASE Launch BY <2>1 DEF Launch
  <2>2. CASE NativeEnds BY <2>2 DEF NativeEnds
  <2>3. CASE KeepResult BY <2>3 DEF KeepResult
  <2> QED BY <1>7, <2>1, <2>2, <2>3 DEF Native
<1>8. CASE Recover
  <2>1. CASE TakeFence BY <2>1 DEF TakeFence, FenceFree
  <2>2. CASE Probe BY <2>2 DEF Probe
  <2>3. CASE GoForward BY <2>3 DEF GoForward
  <2>4. CASE ToPublishing
    <3>1. \A o \in Objects : tree[o] = FencedOld BY <2>4, ObjectKnown DEF ToPublishing
    <3> QED BY <2>4, <3>1 DEF ToPublishing
  <2>5. CASE Rerun BY <2>5 DEF Rerun, TypeOK, Records
  <2>6. CASE ResetResult BY <2>6 DEF ResetResult
  <2>7. CASE RollBack BY <2>7 DEF RollBack, ShouldRollBack, TypeOK, Records
  <2>8. CASE LeaveForRetry BY <2>8 DEF LeaveForRetry, EndAttempt, NoAttempt
  <2> QED BY <1>8, <2>1, <2>2, <2>3, <2>4, <2>5, <2>6, <2>7, <2>8 DEF Recover
<1>9. CASE Publish
  <2>1. CASE VerifyNew BY <2>1 DEF VerifyNew, EndAttempt, NoAttempt
  <2>2. CASE ProfilesPublished BY <2>2 DEF ProfilesPublished
  <2>3. CASE PublishRoot
    <3>1. /\ tree'["root"] = CleanObject("new")
          /\ \A p \in Profiles : tree'[p] = tree[p]
      BY <2>3, PublishTree DEF PublishRoot, TypeOK
    <3> QED BY <2>3, <3>1 DEF PublishRoot
  <2>4. CASE Commit BY <2>4 DEF Commit
  <2>5. CASE CleanStage BY <2>5 DEF CleanStage
  <2>6. CASE Complete BY <2>6 DEF Complete
  <2> QED BY <1>9, <2>1, <2>2, <2>3, <2>4, <2>5, <2>6 DEF Publish
<1>10. CASE PrepareFails BY <1>10 DEF PrepareFails, EndAttempt, NoAttempt
<1>11. CASE NotStarted BY <1>11 DEF NotStarted
<1>12. CASE NativeWrite BY <1>12 DEF NativeWrite
<1>13. CASE OrphanEnds BY <1>13 DEF OrphanEnds
<1>14. CASE Quit BY <1>14 DEF Quit
<1>15. CASE Exit BY <1>15 DEF Exit
<1>16. CASE AttemptStops BY <1>16 DEF AttemptStops, EndAttempt, NoAttempt
<1>17. CASE Crash BY <1>17 DEF Crash, NoAttempt
<1> QED BY <1>1, <1>2, <1>3, <1>4, <1>5, <1>6, <1>7, <1>8, <1>9, <1>10, <1>11, <1>12, <1>16,
           <1>17, <1>13, <1>14, <1>15 DEF Next, Work
-----------------------------------------------------------------------------
(* The invariant, and what follows from it.                                 *)

LEMMA InitInvariant == Init => IInv
<1> SUFFICES ASSUME Init PROVE IInv OBVIOUS
<1>1. TypeOK BY InitTypes
<1>2. Control
  BY DEF Init, Control, StepsInPhase, PasswordsKnown, RollbackKnown, NoRecord, BeforeNative,
         Preparing, Undoing, Dropping, Running, Publishing, Cleaning
<1>3. NativeKnown
  BY DEF Init, NativeKnown, Untouched, Committed, NoRecord
<1>4. Metadata
  BY DEF Init, Metadata, TreeKnown, ProgressKnown, AllClean
<1> QED BY <1>1, <1>2, <1>3, <1>4 DEF IInv, NativeOK

LEMMA StepInvariant == IInv /\ [Next]_vars => IInv'
<1> SUFFICES ASSUME IInv, [Next]_vars PROVE IInv' OBVIOUS
<1>1. CASE UNCHANGED vars
  BY <1>1 DEF vars, database, stage, repository, attempt, budgets, IInv, TypeOK, NativeOK,
     Control, StepsInPhase, PasswordsKnown, RollbackKnown, NativeKnown, Untouched, Committed,
     Opens, Metadata, TreeKnown, ProgressKnown, AllClean, AllFenced, FencesInOrder
<1>2. CASE Next
  BY <1>2, StepTypes, StepControl, StepNativeKnown, StepMetadata DEF IInv, NativeOK
<1> QED BY <1>1, <1>2

\* Every variable keeps its type; in particular the record never counts more reruns
\* than vaultPasswordMaximumReruns.
THEOREM TypeCorrect == Spec => []TypeOK
<1>1. Init => IInv BY InitInvariant
<1>2. IInv /\ [Next]_vars => IInv' BY StepInvariant
<1>3. IInv => TypeOK BY DEF IInv
<1> QED BY <1>1, <1>2, <1>3, PTL DEF Spec

\* The user is never locked out, for both engines and whatever fails or stops
\* (runner/password_change_recovery.go:24-48).
THEOREM NobodyLockedOut == Spec => []NeverLockedOut
<1>1. Init => IInv BY InitInvariant
<1>2. IInv /\ [Next]_vars => IInv' BY StepInvariant
<1>3. IInv => NeverLockedOut
  <2> SUFFICES ASSUME IInv PROVE NeverLockedOut OBVIOUS
  <2>1. OpensWhen /\ writes \in 0..2 /\ engine \in Engines
    BY OpensMeans DEF IInv, TypeOK
  <2>2. CASE Untouched
    BY <2>1, <2>2 DEF IInv, NativeOK, Control, PasswordsKnown, RollbackKnown, NativeKnown,
       Untouched, OpensWhen, NeverLockedOut
  <2>3. CASE Committed
    BY <2>1, <2>3 DEF IInv, NativeOK, Control, PasswordsKnown, NativeKnown, Committed,
       NeverLockedOut
  <2>4. CASE phase = "native_started" /\ ~record.rollingBack
    BY <2>1, <2>4 DEF IInv, NativeOK, Control, PasswordsKnown, RollbackKnown, OpensWhen,
       NeverLockedOut, Split, Engines
  <2> QED
    BY <2>2, <2>3, <2>4 DEF IInv, TypeOK, Phases, Passwords, Untouched, Committed
<1> QED BY <1>1, <1>2, <1>3, PTL DEF Spec

\* Nothing half done is open to another computer or left behind
\* (rollbackRecordedPasswordChange, PublishPasswordRotatedTree).
THEOREM HalfDoneStaysGuarded == Spec => []HalfDoneIsGuarded
<1>1. Init => IInv BY InitInvariant
<1>2. IInv /\ [Next]_vars => IInv' BY StepInvariant
<1>3. IInv => HalfDoneIsGuarded
  <2> SUFFICES ASSUME IInv PROVE HalfDoneIsGuarded OBVIOUS
  <2> USE DEF IInv, NativeOK, Control, Metadata
  <2>1. OpensWhen BY OpensMeans DEF TypeOK
  <2>2. ASSUME NEW p \in Profiles,
               tree[p].fenced \/ tree[p].password # tree["root"].password
        PROVE  tree["root"].fenced
    <3>1. p \in Objects /\ "root" \in Objects BY DEF Objects
    <3>2. CASE phase \in {"preparing", "native_started"}
      BY <2>2, <3>1, <3>2 DEF TreeKnown, FencesInOrder
    <3>3. CASE phase = "publishing"
      <4>1. CASE tree["root"] = FencedOld BY <4>1 DEF FencedOld
      <4>2. CASE tree["root"] = CleanObject("new")
        <5>1. tree[p] = tree["root"] BY <3>1, <3>3, <4>2 DEF TreeKnown, AllClean
        <5> QED BY <2>2, <4>2, <5>1 DEF CleanObject
      <4> QED BY <3>1, <3>3, <4>1, <4>2 DEF TreeKnown
    <3>4. CASE phase \in {"none", "cleanup_pending"}
      BY <2>2, <3>1, <3>4 DEF TreeKnown, AllClean, CleanObject
    <3> QED BY <3>2, <3>3, <3>4 DEF TypeOK, Phases
  <2>3. ASSUME phase = "none"
        PROVE  Opens(saved) /\ ~pending /\ ~orphan /\ AllClean(saved)
    BY <2>1, <2>3 DEF TypeOK, Passwords, Engines, PasswordsKnown, NativeKnown, Untouched,
       Committed, TreeKnown, OpensWhen
  <2> QED BY <2>2, <2>3 DEF HalfDoneIsGuarded, AllClean
<1> QED BY <1>1, <1>2, <1>3, PTL DEF Spec
=============================================================================
