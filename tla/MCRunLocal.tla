----------------------------- MODULE MCRunLocal -----------------------------
(* Constants for RunLocal; the runs are interchangeable. *)
EXTENDS RunLocal, TLC

Symmetry == Permutations(Runs)
=============================================================================
