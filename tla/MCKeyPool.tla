----------------------------- MODULE MCKeyPool -----------------------------
(* KeyPool for TLC. *)
EXTENDS KeyPool, TLC

Symmetry == Permutations(Holders)
=============================================================================
