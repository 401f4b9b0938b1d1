--------------------------- MODULE MCPasswordChange ---------------------------
(* Small instances of PasswordChange for TLC.                               *)
EXTENDS PasswordChange, TLC

Perms == Permutations(Profiles)
=============================================================================
