--------------------------- MODULE MCKopiaPolicy ---------------------------
(* Small instances of KopiaPolicy for TLC: fences, and timers, differ in     *)
(* nothing but their names.                                                  *)
EXTENDS KopiaPolicy, TLC

Symmetry == Permutations(Fences) \cup Permutations(Timers)

=============================================================================
