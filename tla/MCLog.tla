------------------------------- MODULE MCLog -------------------------------
(* Small instances of Log. *)
EXTENDS Log, TLC

LogSymmetry == Permutations(Procs) \cup Permutations(Blocks)
=============================================================================
