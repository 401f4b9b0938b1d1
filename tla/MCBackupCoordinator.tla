------------------------- MODULE MCBackupCoordinator -------------------------
(* Small instances of BackupCoordinator for TLC.                             *)
EXTENDS BackupCoordinator

CONSTANTS o1, o2, o3

At(job, vault) == [job |-> job, vault |-> vault]

\* A job with two vaults, and a second operation for its first target.
RepeatedTarget == o1 :> At("j1", "v1") @@ o2 :> At("j1", "v2") @@ o3 :> At("j1", "v1")

\* Two jobs that share a vault.
SharedVault == o1 :> At("j1", "v1") @@ o2 :> At("j1", "v2") @@ o3 :> At("j2", "v1")
=============================================================================
