---------------------------- MODULE MCCheckQueue ----------------------------
(* CheckQueue for TLC: worker threads and checks are model values. *)
EXTENDS CheckQueue, TLC

Symmetry == Permutations(Workers) \cup Permutations(Checks)
=============================================================================
