------------------------ MODULE MCTrackedOperations ------------------------
(* Small instances of TrackedOperations for TLC.                             *)
EXTENDS TrackedOperations, TLC

CONSTANTS d1, d2, rm, bk, ck, sc, sv, q1, v1, v2, j1, j2

\* The deletions of two jobs that share two Kopia vaults, the removal of one of these
\* vaults, and a backup into it.
DeletionKinds == d1 :> "delete_job" @@ d2 :> "delete_job"
                 @@ rm :> "delete_repository" @@ bk :> "backup"
DeletionVaults == d1 :> NoVault @@ d2 :> NoVault @@ rm :> v1 @@ bk :> v1
DeletionJobs == d1 :> j1 @@ d2 :> j2 @@ rm :> NoJob @@ bk :> j1
BothShared == j1 :> {v1, v2} @@ j2 :> {v1, v2}
VaultRank == v1 :> 1 @@ v2 :> 2
NoRequests == [q \in {} |-> v1]

\* What meets in one vault while the application is quit.
TaskKinds == ck :> "check" @@ sc :> "scheduled" @@ sv :> "settings"
TaskVaults == ck :> v1 @@ sc :> v1 @@ sv :> v1
TaskJobs == ck :> NoJob @@ sc :> NoJob @@ sv :> NoJob
NoTargets == [j \in {} |-> {}]
OneRank == v1 :> 1
RequestV1 == q1 :> v1
============================================================================
