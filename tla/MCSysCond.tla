------------------------------ MODULE MCSysCond ------------------------------
(* Mutexes and condition variables on small tables. *)
EXTENDS SysCond, TLC

Symmetry == Permutations(Threads)
=============================================================================
