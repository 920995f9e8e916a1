----------------------------- MODULE MCSysEvents -----------------------------
(* Event queues on a small table, fed by ports, or by a timer that is      *)
(* bound and started once, before the queues are used, or by a timer with  *)
(* late threads and calls on it at any time, while nobody else uses them.  *)
EXTENDS SysEvents, TLC

VARIABLE source     \* which of the three the guest makes

MCInit == EventsInit /\ source \in {"port", "timer", "late"}

Alive == {b \in Beats : ~BeatAt(b, "none")}

MCNext ==
    /\ EventsNext
    /\ source = "port"  => timer' = timer
    /\ source # "port"  => portVars' = portVars
    /\ source = "timer" /\ Alive # {} => UNCHANGED <<timer, bound, binder>>
    /\ source = "late" \/ (source = "timer" /\ Alive = {}) => pc' = pc
    /\ UNCHANGED source

MCSpec == MCInit /\ [][MCNext]_<<eventVars, source>>

Symmetry == Permutations(Threads) \cup Permutations(Events)
=============================================================================
