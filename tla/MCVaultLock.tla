----------------------------- MODULE MCVaultLock -----------------------------
(* Small instances of VaultLock for TLC.                                    *)
EXTENDS VaultLock, TLC

Perms == Permutations(Waiters) \cup Permutations(Lows) \cup Permutations(Sharers)
=============================================================================
