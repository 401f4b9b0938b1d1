-------------------------- MODULE MCVaultOwnership --------------------------
(* A small instance of VaultOwnership for TLC.                               *)
EXTENDS VaultOwnership

=============================================================================
