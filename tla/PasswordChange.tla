---------------------------- MODULE PasswordChange ----------------------------
(***************************************************************************)
(* Changing the password of one vault, with everything that can cut the   *)
(* change off.  The code is runner/password_change.go,                     *)
(* runner/password_change_recovery.go, vaultprofile/password_rotation.go,  *)
(* vaultprofile/password_rotation_record.go and                            *)
(* database/password_change.go.                                            *)
(*                                                                         *)
(* Four stores have to agree in the end: the database (which password is   *)
(* saved, which one is pending, the phase), the stage folder (the copy of  *)
(* the protected metadata and the recovery record), the protected metadata *)
(* on the vault's storage (a root and one object per profile, each         *)
(* encrypted with a vault password and carrying a fence), and the native   *)
(* repository, whose password is changed by one engine command that makes  *)
(* two writes.  No transaction spans them.  A crash, a quit, a failed step *)
(* or an engine command that outlives the application can fall between any *)
(* two writes; recovery knows the phase, the record and which password     *)
(* opens the vault, and nothing else.                                      *)
(*                                                                         *)
(* One vault, one installation.  The change always goes from "old" to      *)
(* "new"; it may be rolled back and started again.  A change row left by a *)
(* build without recovery records is not modelled, nor are pending uploads *)
(* of the metadata: each has a name derived from the operation and is      *)
(* written again before it is copied over its target.                      *)
(* The write that gives the user's operation its outcome is taken to       *)
(* succeed; the code only logs its failure.                                *)
(***************************************************************************)
EXTENDS Naturals, FiniteSets

CONSTANTS
    Profiles,           \* installations that keep a profile in the vault
    MaxReruns,          \* vaultPasswordMaximumReruns
    Changes,            \* bound: password changes the user starts
    Faults,             \* bound: steps that fail, commands that fail
    Stops,              \* bound: crashes and quits
    RemovalKeepsLock    \* may `key remove` leave its Restic lock behind?

ASSUME ProfilesAssumption == IsFiniteSet(Profiles) /\ "root" \notin Profiles
ASSUME BoundsAssumption == /\ MaxReruns \in Nat /\ Changes \in Nat
                           /\ Faults \in Nat /\ Stops \in Nat
ASSUME LockAssumption == RemovalKeepsLock \in BOOLEAN

Objects == Profiles \cup {"root"}
Engines == {"restic", "kopia"}
Passwords == {"old", "new"}
Phases == {"none", "preparing", "native_started", "publishing", "cleanup_pending"}
\* "unset": no result of the command is saved.
Statuses == {"unset", "not_started", "succeeded", "failed", "interrupted"}
Trees == [Objects -> [password : Passwords, fenced : BOOLEAN]]
Records == [saved : BOOLEAN, reruns : 0..MaxReruns, rollingBack : BOOLEAN]
NoRecord == [saved |-> FALSE, reruns |-> 0, rollingBack |-> FALSE]

\* Where the goroutine that holds the vault lock stands.
Preparing == {"rootFence", "profileFences", "resetStage", "fillStage", "writeRecord"}
Undoing == {"undoProfiles", "undoRoot", "undoStage", "undoRow"}
Steps == Preparing \cup Undoing \cup
         {"idle", "makeFolder", "startNative", "fenceWait",
          "launch", "native", "keepResult", "probe", "decide", "resetResult",
          "toPublishing", "dropProfiles", "dropRoot", "dropStage", "dropRow",
          "dropRecord", "verifyNew", "publishProfiles", "publishRoot",
          "commit", "cleanStage", "complete", "settle"}
\* Steps that only read or write the local database, or that run under a
\* context of their own, so quitting does not cut them off.
Uncancelled == Undoing \cup {"idle", "native", "startNative", "keepResult",
                             "resetResult", "toPublishing", "dropRow",
                             "dropRecord", "commit", "cleanStage", "complete",
                             "settle"}

VARIABLES
    engine,      \* the vault's engine
    saved,       \* repositories.passphrase
    pending,     \* repositories.pending_passphrase is set (to "new")
    phase,       \* the phase of the change's row, "none" without a row
    status,      \* native_status of the row
    folder,      \* the operation's stage folder exists
    staged,      \* it holds the manifest and every object
    record,      \* recovery.json in it
    tree,        \* the protected metadata: password and fence of each object
    writes,      \* how many of the command's two writes the repository holds
    lockLeft,    \* an exclusive Restic lock no live process owns
    orphan,      \* an engine command of an earlier process still runs
    pc,          \* the step of the running attempt, "idle" without one
    mode,        \* what started it: "change", "retry", "startup" or "none"
    launched,    \* this attempt already ran the native command
    outcome,     \* how the command ended, until that is saved
    probe,       \* which password opened the vault: "new", "old", "neither"
    opRecord,    \* the tracked operation shown to the user
    app,         \* "up", "quitting" or "down"
    changes, faults, stops

database == <<saved, pending, phase, status>>
stage == <<folder, staged, record>>
repository == <<writes, lockLeft>>
attempt == <<pc, mode, launched, outcome, probe>>
budgets == <<changes, faults, stops>>
vars == <<engine, database, stage, tree, repository, orphan, attempt,
          opRecord, app, budgets>>

-----------------------------------------------------------------------------
(* The native repository.                                                   *)

\* `key passwd` adds the key of the new password and then removes the old
\* one; `repository change-password` rewrites kopia.blobcfg and then
\* kopia.repository, and between the two no password opens the repository.
Opens(password) ==
    CASE engine = "restic" /\ password = "old" -> writes < 2
      [] engine = "restic" /\ password = "new" -> writes > 0
      [] engine = "kopia"  /\ password = "old" -> writes = 0
      [] OTHER                                 -> writes = 2

Split == engine = "kopia" /\ writes = 1

\* A Restic command meets the leftover lock and reports exit code 11.
Usable(password) == Opens(password) /\ ~lockLeft

-----------------------------------------------------------------------------
(* Mutants: plausible bugs, each written like the definition it stands for. *)

\* The fences of a rollback are taken down in any order.
MutProfilesUnchecked ==
    /\ \/ pc = "undoProfiles" /\ pc' = "undoRoot"
       \/ pc = "dropProfiles" /\ pc' = "dropRoot"
    /\ UNCHANGED <<engine, database, stage, tree, repository, orphan, opRecord,
                   app, budgets, mode, launched, outcome, probe>>

\* A failed command is rolled back without asking which password opens.
MutFailureRollsBack == status \in {"failed", "not_started"} \/
                       (probe = "old" /\ record.reruns >= MaxReruns)

\* One rerun too many.
MutOneRerunMore == probe = "old" /\ status \in {"unset", "interrupted"} /\
                   record.reruns <= MaxReruns

\* The passwords are tried with the stale lock still there.
MutProbeWithoutUnlock ==
    /\ pc = "probe" /\ ~lockLeft
    /\ probe' = IF Opens("new") THEN "new" ELSE "old"
    /\ writes' = IF Split THEN 0 ELSE writes
    /\ pc' = "decide"
    /\ UNCHANGED <<engine, database, stage, tree, lockLeft, orphan, mode,
                   launched, outcome, opRecord, app, budgets>>

-----------------------------------------------------------------------------
(* Fences and metadata.                                                      *)

\* Every command run against the repository inherits the change's fence, so
\* the fence can be taken when the command of the earlier process has ended.
FenceFree == ~orphan

CleanObject(password) == [password |-> password, fenced |-> FALSE]
AllFenced == \A o \in Objects : tree[o].fenced
\* AssertPasswordChangeAuthority with allowUnfenced: a fenced profile under
\* an unfenced root is refused.
FencesInOrder == (\E p \in Profiles : tree[p].fenced) => tree["root"].fenced

-----------------------------------------------------------------------------
Init ==
    /\ engine \in Engines
    /\ saved = "old" /\ pending = FALSE /\ phase = "none" /\ status = "unset"
    /\ folder = FALSE /\ staged = FALSE /\ record = NoRecord
    /\ tree = [o \in Objects |-> CleanObject("old")]
    /\ writes = 0 /\ lockLeft = FALSE /\ orphan = FALSE
    /\ pc = "idle" /\ mode = "none" /\ launched = FALSE
    /\ outcome = "unset" /\ probe = "neither"
    /\ opRecord = "none" /\ app = "up"
    /\ changes = Changes /\ faults = Faults /\ stops = Stops

Goto(step) == pc' = step /\ UNCHANGED <<mode, launched, outcome, probe>>

NoAttempt == /\ pc' = "idle" /\ mode' = "none" /\ launched' = FALSE
             /\ outcome' = "unset" /\ probe' = "neither"

\* The attempt returns.  A tracked change or Retry finishes its operation;
\* startup recovery finishes the operation of the process that died, unless
\* the application is quitting and the row remains for the next start.
EndAttempt(rowRemains) ==
    /\ NoAttempt
    /\ opRecord' = IF opRecord # "running" \/
                      (mode = "startup" /\ app = "quitting" /\ rowRemains)
                   THEN opRecord ELSE "finished"

-----------------------------------------------------------------------------
(* A change, from the request to the first launch of the native command.    *)

\* The row and the pending candidate are one transaction; the stage folder
\* of this operation does not exist yet.
Begin ==
    /\ app = "up" /\ pc = "idle" /\ phase = "none"
    /\ saved = "old" /\ changes > 0 /\ Usable("old")
    /\ changes' = changes - 1
    /\ pending' = TRUE /\ phase' = "preparing" /\ status' = "unset"
    /\ folder' = FALSE /\ staged' = FALSE /\ record' = NoRecord
    /\ pc' = "makeFolder" /\ mode' = "change"
    /\ opRecord' = "running"
    /\ UNCHANGED <<engine, saved, tree, repository, orphan, launched, outcome,
                   probe, app, faults, stops>>

MakeFolder ==
    /\ pc = "makeFolder"
    /\ folder' = TRUE
    /\ Goto("rootFence")
    /\ UNCHANGED <<engine, database, staged, record, tree, repository, orphan,
                   opRecord, app, budgets>>

\* Fences go up root first.  Every metadata write needs the stage folder.
FenceRoot ==
    /\ pc = "rootFence" /\ folder
    /\ tree' = [tree EXCEPT !["root"].fenced = TRUE]
    /\ Goto("profileFences")
    /\ UNCHANGED <<engine, database, stage, repository, orphan, opRecord, app,
                   budgets>>

FenceProfile(p) ==
    /\ pc = "profileFences" /\ ~tree[p].fenced
    /\ tree' = [tree EXCEPT ![p].fenced = TRUE]
    /\ UNCHANGED <<engine, database, stage, repository, orphan, attempt,
                   opRecord, app, budgets>>

FencesUp ==
    /\ pc = "profileFences" /\ AllFenced
    /\ Goto("resetStage")
    /\ UNCHANGED <<engine, database, stage, tree, repository, orphan, opRecord,
                   app, budgets>>

\* The reset removes whatever an earlier attempt staged, its record as well.
ResetStage ==
    /\ pc = "resetStage"
    /\ staged' = FALSE /\ record' = NoRecord
    /\ Goto("fillStage")
    /\ UNCHANGED <<engine, database, folder, tree, repository, orphan, opRecord,
                   app, budgets>>

FillStage ==
    /\ pc = "fillStage"
    /\ staged' = TRUE
    /\ Goto("writeRecord")
    /\ UNCHANGED <<engine, database, folder, record, tree, repository, orphan,
                   opRecord, app, budgets>>

\* The record (with the copy of Kopia's format blobs) and the fence exist
\* before native_started is saved.
WriteRecord ==
    /\ pc = "writeRecord" /\ Opens("old") /\ AllFenced /\ FenceFree
    /\ record' = [saved |-> TRUE, reruns |-> 0, rollingBack |-> FALSE]
    /\ Goto("startNative")
    /\ UNCHANGED <<engine, database, folder, staged, tree, repository, orphan,
                   opRecord, app, budgets>>

StartNative ==
    /\ pc = "startNative"
    /\ phase' = "native_started"
    /\ Goto("launch")
    /\ UNCHANGED <<engine, saved, pending, status, stage, tree, repository,
                   orphan, opRecord, app, budgets>>

\* Preparation fails, up to the listing of Restic's keys or the copy of Kopia's
\* blobs: the change is rolled back under a context of its own, unless the
\* application quits while startup recovery prepares.
PrepareFails ==
    /\ pc \in Preparing
    /\ \/ ~folder /\ UNCHANGED faults
       \/ app = "quitting" /\ UNCHANGED faults
       \/ faults > 0 /\ faults' = faults - 1
    /\ IF mode = "startup" /\ app = "quitting"
       THEN EndAttempt(phase # "none")
       ELSE Goto("undoProfiles") /\ UNCHANGED opRecord
    /\ UNCHANGED <<engine, database, stage, tree, repository, orphan, app,
                   changes, stops>>

-----------------------------------------------------------------------------
(* Taking fences down again: profiles first, the root last.                 *)

DropProfileFence(p) ==
    /\ pc \in {"undoProfiles", "dropProfiles"} /\ tree[p].fenced
    /\ tree' = [tree EXCEPT ![p].fenced = FALSE]
    /\ UNCHANGED <<engine, database, stage, repository, orphan, attempt,
                   opRecord, app, budgets>>

ProfilesClean ==
    /\ \A p \in Profiles : ~tree[p].fenced
    /\ \/ pc = "undoProfiles" /\ Goto("undoRoot")
       \/ pc = "dropProfiles" /\ Goto("dropRoot")
    /\ UNCHANGED <<engine, database, stage, tree, repository, orphan, opRecord,
                   app, budgets>>

DropRootFence ==
    /\ \/ pc = "undoRoot" /\ Goto("undoStage")
       \/ pc = "dropRoot" /\ Goto("dropStage")
    /\ tree' = [tree EXCEPT !["root"].fenced = FALSE]
    /\ UNCHANGED <<engine, database, stage, repository, orphan, opRecord, app,
                   budgets>>

\* The rollback of a preparing change removes the whole folder ...
UndoStage ==
    /\ pc = "undoStage"
    /\ folder' = FALSE /\ staged' = FALSE /\ record' = NoRecord
    /\ Goto("undoRow")
    /\ UNCHANGED <<engine, database, tree, repository, orphan, opRecord, app,
                   budgets>>

UndoRow ==
    /\ pc = "undoRow"
    /\ phase' = "none" /\ pending' = FALSE
    /\ Goto("settle")
    /\ UNCHANGED <<engine, saved, status, stage, tree, repository, orphan,
                   opRecord, app, budgets>>

\* ... that of a native_started change keeps the record until its row is gone.
DropStage ==
    /\ pc = "dropStage"
    /\ staged' = FALSE
    /\ Goto("dropRow")
    /\ UNCHANGED <<engine, database, folder, record, tree, repository, orphan,
                   opRecord, app, budgets>>

DropRow ==
    /\ pc = "dropRow" /\ phase = "native_started"
    /\ phase' = "none" /\ pending' = FALSE
    /\ Goto("dropRecord")
    /\ UNCHANGED <<engine, saved, status, stage, tree, repository, orphan,
                   opRecord, app, budgets>>

DropRecord ==
    /\ pc = "dropRecord"
    /\ folder' = FALSE /\ record' = NoRecord
    /\ Goto("settle")
    /\ UNCHANGED <<engine, database, staged, tree, repository, orphan,
                   opRecord, app, budgets>>

\* The row of the change is gone; the operation the user sees gets its outcome.
Settle ==
    /\ pc = "settle"
    /\ EndAttempt(FALSE)
    /\ UNCHANGED <<engine, database, stage, tree, repository, orphan, app,
                   budgets>>

-----------------------------------------------------------------------------
(* The native command.                                                      *)

Launch ==
    /\ pc = "launch"
    /\ launched' = TRUE
    /\ pc' = "native"
    /\ UNCHANGED <<engine, database, stage, tree, repository, orphan, mode,
                   outcome, probe, opRecord, app, budgets>>

\* The engine cannot be resolved or the password file cannot be written.
NotStarted ==
    /\ pc = "launch" /\ faults > 0
    /\ faults' = faults - 1
    /\ status' = "not_started"
    /\ Goto("probe")
    /\ UNCHANGED <<engine, saved, pending, phase, stage, tree, repository,
                   orphan, opRecord, app, changes, stops>>

\* A write of the running command, of this process or of an earlier one.
NativeWrite ==
    /\ pc = "native" \/ orphan
    /\ writes < 2
    /\ writes' = writes + 1
    /\ UNCHANGED <<engine, database, stage, tree, lockLeft, orphan, attempt,
                   opRecord, app, budgets>>

\* A Restic command may end without removing its lock: killed, or with exit
\* code 0 and a warning.
MayLeaveLock == lockLeft' \in IF engine = "restic" THEN {lockLeft, TRUE}
                              ELSE {lockLeft}

\* It is interrupted when its context ends, and may fail at any point.
NativeEnds ==
    /\ pc = "native"
    /\ \/ outcome' = "succeeded" /\ writes = 2 /\ UNCHANGED faults
       \/ outcome' = "interrupted" /\ app = "quitting" /\ UNCHANGED faults
       \/ outcome' \in {"failed", "interrupted"} /\ faults > 0
          /\ faults' = faults - 1
    /\ pc' = "keepResult"
    /\ MayLeaveLock
    /\ UNCHANGED <<engine, database, stage, tree, writes, orphan, mode,
                   launched, probe, opRecord, app, changes, stops>>

OrphanEnds ==
    /\ orphan
    /\ orphan' = FALSE
    /\ MayLeaveLock
    /\ UNCHANGED <<engine, database, stage, tree, writes, attempt, opRecord,
                   app, budgets>>

KeepResult ==
    /\ pc = "keepResult"
    /\ status' = outcome
    /\ pc' = "probe" /\ outcome' = "unset"
    /\ UNCHANGED <<engine, saved, pending, phase, stage, tree, repository,
                   orphan, mode, launched, probe, opRecord, app,
                   budgets>>

-----------------------------------------------------------------------------
(* Recovery of a native_started change that has a record.                   *)

\* Restic removes its stale lock before the passwords are tried, and its exit
\* codes keep the answer honest.  Kopia gives none: a probe that fails for
\* another reason reads as "does not open".  When neither password opens a
\* Kopia repository, the saved kopia.blobcfg is put back, but only over a
\* rewritten one that still stands beside the saved kopia.repository.
Probe ==
    /\ pc = "probe"
    /\ lockLeft' = FALSE
    /\ \/ /\ probe' = IF Opens("new") THEN "new"
                    ELSE IF Opens("old") \/ Split THEN "old" ELSE "neither"
          /\ writes' = IF Split THEN 0 ELSE writes
          /\ UNCHANGED faults
       \/ /\ engine = "kopia" /\ faults > 0
          /\ faults' = faults - 1
          /\ probe' = "neither"
          /\ UNCHANGED writes
    /\ pc' = "decide"
    /\ UNCHANGED <<engine, database, stage, tree, orphan, mode, launched,
                   outcome, opRecord, app, changes, stops>>

\* decideRecordedNativePassword
CutOff == status \in {"unset", "interrupted"}
ShouldRerun == probe = "old" /\ CutOff /\ record.reruns < MaxReruns
ShouldRollBack == /\ probe = "old"
                  /\ \/ CutOff /\ record.reruns >= MaxReruns
                     \/ status \in {"failed", "not_started"}

\* removeReplacedResticKey: the old key an interrupted command left behind goes.
Removing == /\ pc = "decide" /\ probe = "new"
            /\ engine = "restic" /\ status # "succeeded" /\ writes = 1

\* A removal that fails or is cut off may have removed the key or not, and may
\* leave its lock; the change continues either way.
RemovalCutOff ==
    /\ \/ faults > 0 /\ faults' = faults - 1
       \/ app = "quitting" /\ UNCHANGED faults
    /\ writes' \in {1, 2}
    /\ lockLeft' \in {FALSE, RemovalKeepsLock}

GoForward ==
    /\ pc = "decide" /\ probe = "new"
    /\ IF Removing
       THEN \/ writes' = 2 /\ UNCHANGED <<lockLeft, faults>>
            \/ RemovalCutOff
       ELSE UNCHANGED <<repository, faults>>
    /\ Goto("toPublishing")
    /\ UNCHANGED <<engine, database, stage, tree, orphan, opRecord, app,
                   changes, stops>>

ToPublishing ==
    /\ pc = "toPublishing" /\ phase = "native_started" /\ pending
    /\ phase' = "publishing"
    /\ Goto("verifyNew")
    /\ UNCHANGED <<engine, saved, pending, status, stage, tree, repository,
                   orphan, opRecord, app, budgets>>

\* The raised count is durable before the earlier result is cleared and the
\* command runs again; the staged copy must still match the vault.
Rerun ==
    /\ pc = "decide" /\ ShouldRerun /\ ~launched /\ staged /\ AllFenced
    /\ record' = [record EXCEPT !.reruns = @ + 1]
    /\ Goto("resetResult")
    /\ UNCHANGED <<engine, database, folder, staged, tree, repository, orphan,
                   opRecord, app, budgets>>

ResetResult ==
    /\ pc = "resetResult" /\ phase = "native_started" /\ CutOff
    /\ status' = "unset"
    /\ Goto("launch")
    /\ UNCHANGED <<engine, saved, pending, phase, stage, tree, repository,
                   orphan, opRecord, app, budgets>>

\* The flag is durable before the first fence goes.
RollBack ==
    /\ pc = "decide" /\ ShouldRollBack
    /\ record' = [record EXCEPT !.rollingBack = TRUE]
    /\ Goto("dropProfiles")
    /\ UNCHANGED <<engine, database, folder, staged, tree, repository, orphan,
                   opRecord, app, budgets>>

\* One launch per attempt; a reported success is never rolled back; a vault
\* that neither password opens is left as it is.
LeaveForRetry ==
    /\ pc = "decide" /\ probe # "new" /\ ~ShouldRollBack
    /\ ShouldRerun => launched
    /\ EndAttempt(phase # "none")
    /\ UNCHANGED <<engine, database, stage, tree, repository, orphan, app,
                   budgets>>

-----------------------------------------------------------------------------
(* Publishing the metadata under the new password, and the commit.          *)

VerifyNew ==
    /\ pc = "verifyNew"
    /\ IF Usable("new") /\ staged
       THEN Goto("publishProfiles") /\ UNCHANGED opRecord
       ELSE EndAttempt(phase # "none")
    /\ UNCHANGED <<engine, database, stage, tree, repository, orphan, app,
                   budgets>>

PublishProfile(p) ==
    /\ pc = "publishProfiles" /\ tree[p] # CleanObject("new")
    /\ tree' = [tree EXCEPT ![p] = CleanObject("new")]
    /\ UNCHANGED <<engine, database, stage, repository, orphan, attempt,
                   opRecord, app, budgets>>

\* verifyPasswordRotatedObjectsBeforeRoot, then the root.
ProfilesPublished ==
    /\ pc = "publishProfiles"
    /\ \A p \in Profiles : tree[p] = CleanObject("new")
    /\ Goto("publishRoot")
    /\ UNCHANGED <<engine, database, stage, tree, repository, orphan, opRecord,
                   app, budgets>>

PublishRoot ==
    /\ pc = "publishRoot"
    /\ tree' = [tree EXCEPT !["root"] = CleanObject("new")]
    /\ Goto("commit")
    /\ UNCHANGED <<engine, database, stage, repository, orphan, opRecord, app,
                   budgets>>

Commit ==
    /\ pc = "commit" /\ phase = "publishing" /\ pending
    /\ saved' = "new" /\ pending' = FALSE /\ phase' = "cleanup_pending"
    /\ Goto("cleanStage")
    /\ UNCHANGED <<engine, status, stage, tree, repository, orphan, opRecord,
                   app, budgets>>

CleanStage ==
    /\ pc = "cleanStage"
    /\ folder' = FALSE /\ staged' = FALSE /\ record' = NoRecord
    /\ Goto("complete")
    /\ UNCHANGED <<engine, database, tree, repository, orphan, opRecord, app,
                   budgets>>

Complete ==
    /\ pc = "complete" /\ phase = "cleanup_pending" /\ ~pending
    /\ phase' = "none"
    /\ Goto("settle")
    /\ UNCHANGED <<engine, saved, pending, status, stage, tree, repository,
                   orphan, opRecord, app, budgets>>

-----------------------------------------------------------------------------
(* Recovery: a Retry of the user, or the one attempt of a start.            *)

\* What recovery admits before it acts, and where it then resumes.
Admitted(step) ==
    \/ /\ phase = "preparing" /\ FencesInOrder /\ Usable("old")
       /\ step = "rootFence"
    \/ phase = "native_started" /\ record.saved /\ step = "fenceWait"
    \/ /\ phase = "publishing" /\ Usable("new")
       /\ \/ tree["root"] = [password |-> "old", fenced |-> TRUE]
          \/ tree["root"] = CleanObject("new")
       /\ step = "verifyNew"
    \/ phase = "cleanup_pending" /\ step = "cleanStage"

Retry ==
    /\ app = "up" /\ pc = "idle"
    /\ \E step \in Steps : Admitted(step) /\ pc' = step
    /\ mode' = "retry" /\ opRecord' = "running"
    /\ UNCHANGED <<engine, database, stage, tree, repository, orphan, launched,
                   outcome, probe, app, budgets>>

\* The fence is taken before the vault is looked at.  Only a change that is
\* already rolling back may be found with some fences gone, and its rollback
\* continues without a probe.
TakeFence ==
    /\ pc = "fenceWait" /\ FenceFree
    /\ \/ record.rollingBack /\ FencesInOrder /\ Goto("dropProfiles")
       \/ ~record.rollingBack /\ AllFenced /\ Goto("probe")
    /\ UNCHANGED <<engine, database, stage, tree, repository, orphan, opRecord,
                   app, budgets>>

\* PrepareStartupPasswordRecovery: an operation without a row is interrupted,
\* a row gets its attempt.  The vault lock is held until that attempt ends.
Boot ==
    /\ app = "down"
    /\ app' = "up"
    /\ IF \E step \in Steps : Admitted(step)
       THEN /\ \E step \in Steps : Admitted(step) /\ pc' = step
            /\ mode' = "startup"
            /\ UNCHANGED opRecord
       ELSE /\ UNCHANGED <<pc, mode>>
            /\ opRecord' = IF opRecord = "running" THEN "finished" ELSE opRecord
    /\ UNCHANGED <<engine, database, stage, tree, repository, orphan, launched,
                   outcome, probe, budgets>>

\* A step fails, the wait for the fence ends, the metadata turns out to be
\* someone else's, or the context of the attempt is cancelled.
AttemptStops ==
    /\ pc \notin {"idle", "native", "settle"}
    /\ \/ faults > 0 /\ faults' = faults - 1
       \/ app = "quitting" /\ pc \notin Uncancelled /\ UNCHANGED faults
    /\ EndAttempt(phase # "none")
    /\ UNCHANGED <<engine, database, stage, tree, repository, orphan, app,
                   changes, stops>>

Quit ==
    /\ app = "up" /\ stops > 0
    /\ app' = "quitting" /\ stops' = stops - 1
    /\ UNCHANGED <<engine, database, stage, tree, repository, orphan, attempt,
                   opRecord, changes, faults>>

Exit ==
    /\ app = "quitting" /\ pc = "idle"
    /\ app' = "down"
    /\ UNCHANGED <<engine, database, stage, tree, repository, orphan, attempt,
                   opRecord, budgets>>

\* A running command, or the removal of the old key, dies with the application or
\* survives it.
Crash ==
    /\ app # "down" /\ stops > 0
    /\ app' = "down" /\ stops' = stops - 1
    /\ NoAttempt
    /\ IF pc = "native" \/ Removing
       THEN \/ orphan' = TRUE /\ UNCHANGED lockLeft
            \/ UNCHANGED orphan /\ MayLeaveLock
       ELSE UNCHANGED <<orphan, lockLeft>>
    /\ UNCHANGED <<engine, database, stage, tree, writes, opRecord,
                   changes, faults>>

-----------------------------------------------------------------------------
ObjectStep == \E p \in Profiles : \/ FenceProfile(p)
                                  \/ DropProfileFence(p)
                                  \/ PublishProfile(p)

Prepare == MakeFolder \/ FenceRoot \/ FencesUp \/ ResetStage \/ FillStage
           \/ WriteRecord \/ StartNative
Undo == ProfilesClean \/ DropRootFence \/ UndoStage \/ UndoRow \/ DropStage
        \/ DropRow \/ DropRecord \/ Settle
Native == Launch \/ NativeEnds \/ KeepResult
Recover == TakeFence \/ Probe \/ GoForward \/ ToPublishing \/ Rerun
           \/ ResetResult \/ RollBack \/ LeaveForRetry
Publish == VerifyNew \/ ProfilesPublished \/ PublishRoot \/ Commit
           \/ CleanStage \/ Complete
Work == ObjectStep \/ Prepare \/ Undo \/ Native \/ Recover \/ Publish

Next == Begin \/ Retry \/ Work \/ PrepareFails \/ NotStarted \/ NativeWrite
        \/ OrphanEnds \/ AttemptStops \/ Quit \/ Exit \/ Boot \/ Crash

Spec == Init /\ [][Next]_vars

\* The goroutine that holds the lock keeps going (a folder that is missing
\* fails its step), a command that runs makes its writes and ends, the
\* application that stopped is started again, and the user retries.
Fairness ==
    /\ WF_vars(Work) /\ WF_vars(PrepareFails /\ ~folder)
    /\ WF_vars(NativeWrite) /\ WF_vars(OrphanEnds)
    /\ WF_vars(Exit) /\ WF_vars(Boot) /\ WF_vars(Retry)

FairSpec == Spec /\ Fairness

-----------------------------------------------------------------------------
(* Properties.                                                              *)

TypeOK ==
    /\ engine \in Engines /\ saved \in Passwords /\ pending \in BOOLEAN
    /\ phase \in Phases /\ status \in Statuses
    /\ folder \in BOOLEAN /\ staged \in BOOLEAN
    /\ record \in Records
    /\ tree \in Trees
    /\ writes \in 0..2 /\ lockLeft \in BOOLEAN /\ orphan \in BOOLEAN
    /\ pc \in Steps /\ mode \in {"none", "change", "retry", "startup"}
    /\ launched \in BOOLEAN /\ outcome \in Statuses
    /\ probe \in {"new", "old", "neither"}
    /\ opRecord \in {"none", "running", "finished"}
    /\ app \in {"up", "quitting", "down"}
    /\ changes \in Nat /\ faults \in Nat /\ stops \in Nat

(* The user is never locked out: at every moment, in the middle of the      *)
(* command and after any crash, a password the application knows opens the  *)
(* vault, or it is the half-written Kopia repository whose way back the     *)
(* record holds (runner/password_change_recovery.go:24-48).                 *)
NeverLockedOut ==
    \/ Opens(saved)
    \/ pending /\ Opens("new")
    \/ Split /\ record.saved /\ ~record.rollingBack

(* Nothing half done is open to another computer or left behind.  The root  *)
(* keeps other computers out until every profile is whole again: no profile *)
(* carries a fence, or a password other than the root's, under a root       *)
(* without one (rollbackRecordedPasswordChange,                             *)
(* PublishPasswordRotatedTree).  And when the change is over the saved      *)
(* password opens the repository and all the metadata, no fence is up, and  *)
(* no command is still at work that could change that.                      *)
HalfDoneIsGuarded ==
    /\ \A p \in Profiles :
           tree[p].fenced \/ tree[p].password # tree["root"].password
               => tree["root"].fenced
    /\ phase = "none" => /\ Opens(saved) /\ ~pending /\ ~orphan
                         /\ \A o \in Objects : tree[o] = CleanObject(saved)

(* A change that was begun ends, committed or rolled back, once steps stop  *)
(* failing and the user retries what a start left unfinished; and the       *)
(* operation the user sees as running gets its outcome, also when the       *)
(* application stopped between the end of the change and the outcome.       *)
ChangeEnds ==
    /\ phase # "none" ~> phase = "none"
    /\ opRecord = "running" ~> opRecord # "running"
=============================================================================
