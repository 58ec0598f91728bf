------------------------------ MODULE MCThreads ------------------------------
(* Small instances of Threads for TLC. *)
EXTENDS Threads, TLC

(* Every thread but the main one is interchangeable. *)
Symmetry == Permutations(Threads \ {Main})
=============================================================================
