--------------------------- MODULE MCSysSemaphore ---------------------------
(* Semaphores on a small table. *)
EXTENDS SysSemaphore, TLC

Symmetry == Permutations(Threads)
=============================================================================
