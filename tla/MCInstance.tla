----------------------------- MODULE MCInstance -----------------------------
(* Small instances of Instance for TLC. *)
EXTENDS Instance, TLC

PromiseSymmetry == Permutations(PromiseIds)
=============================================================================
