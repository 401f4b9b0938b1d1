------------------------------ MODULE MCCatchUp ------------------------------
(* Small instances of CatchUp for TLC.                                      *)
EXTENDS CatchUp, TLC

Perms == Permutations(Vaults) \cup Permutations(Ops)
=============================================================================
