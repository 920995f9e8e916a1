--------------------------- MODULE CellSyncBarrier ---------------------------
(***************************************************************************)
(* CellSyncBarrier of libs/sync/cellSync.c.  Every thread goes through     *)
(* rounds of Notify (or TryNotify, which is the same) and then, as it      *)
(* likes in each of them, Wait or TryWait until that does not answer BUSY; *)
(* each atomic operation is a step.                                        *)
(***************************************************************************)
EXTENDS Callers

CONSTANT MaxRounds      \* how often a thread notifies

ASSUME RoundsAssumption == MaxRounds \in Nat

VARIABLES
    arrived, phase,     \* the barrier; its total is the number of threads
    rounds,             \* each thread: how often it has notified
    old,                \* each thread: the phase that its Wait loaded
    stale               \* history: a Wait has loaded the phase too early

barrierVars == <<arrived, phase, rounds, old, stale, pc>>

total == Cardinality(Threads)

(* cellSyncBarrierInitialize *)
BarrierInit ==
    /\ arrived = 0 /\ phase = 0
    /\ rounds = [t \in Threads |-> 0]
    /\ old    = [t \in Threads |-> 0]
    /\ stale  = FALSE
    /\ NobodyCalls

(* Mutant: the arrival before the last one already opens the barrier. *)
LastButOne == arrived + 2 >= total

LastArrives == arrived + 1 >= total

cellSyncBarrierNotify(t) ==
    /\ At(t, "idle") /\ rounds[t] < MaxRounds
    /\ arrived' = arrived + 1
    /\ rounds'  = [rounds EXCEPT ![t] = @ + 1]
    /\ Goto(t, IF LastArrives THEN "reset" ELSE "notified")
    /\ UNCHANGED <<phase, old, stale>>

NotifyResets(t) ==
    /\ Moves(t, "reset", "advance")
    /\ arrived' = 0
    /\ UNCHANGED <<phase, rounds, old, stale>>

NotifyAdvances(t) ==
    /\ Moves(t, "advance", "notified")
    /\ phase' = phase + 1
    /\ UNCHANGED <<arrived, rounds, old, stale>>

(* A thread of an earlier round has reset arrived and is still to advance  *)
(* the phase: TryWait has let t into its round already.                    *)
Overtakes(t) == \E u \in Callers({"advance"}) : rounds[u] < rounds[t]

cellSyncBarrierWait(t) ==
    /\ Moves(t, "notified", "waiting")
    /\ old' = [old EXCEPT ![t] = phase]
    /\ stale' = (stale \/ Overtakes(t))
    /\ UNCHANGED <<arrived, phase, rounds>>

WaitReturns(t) ==
    /\ phase # old[t]
    /\ Moves(t, "waiting", "idle")
    /\ UNCHANGED <<arrived, phase, rounds, old, stale>>

(* CELL_SYNC_ERROR_BUSY while somebody has arrived. *)
cellSyncBarrierTryWait(t) ==
    /\ arrived = 0
    /\ Moves(t, "notified", "idle")
    /\ UNCHANGED <<arrived, phase, rounds, old, stale>>

BarrierRun(t) ==
    \/ NotifyResets(t) \/ NotifyAdvances(t)
    \/ cellSyncBarrierWait(t) \/ WaitReturns(t) \/ cellSyncBarrierTryWait(t)

BarrierNext == \E t \in Threads : cellSyncBarrierNotify(t) \/ BarrierRun(t)

BarrierSpec == BarrierInit /\ [][BarrierNext]_barrierVars

(* Threads keep running, and one that has notified goes on to wait. *)
BarrierFairness == \A t \in Threads : WF_barrierVars(BarrierRun(t))

BarrierFairSpec == BarrierSpec /\ BarrierFairness

----------------------------------------------------------------------------
(* What the barrier promises. *)

(* "all threads must arrive before any proceed": a thread that is through  *)
(* a round has left nobody behind in an earlier one.                       *)
BarrierHolds ==
    \A t, u \in Threads : At(t, "idle") => rounds[t] <= rounds[u]

(* The last to arrive resets arrived and advances phase in two steps, and  *)
(* TryWait goes by the first of them, Wait by the second.  That breaks the *)
(* rounds in one way only: a thread that TryWait let through in between    *)
(* notifies again and its Wait loads the phase which is about to change.   *)
BarrierHoldsUntilStale == ~stale => BarrierHolds

(* "Wait until the phase changes (all have arrived)": when all threads     *)
(* have arrived in a round, each one gets through it.                      *)
BarrierReleases ==
    \A t \in Threads : (\A u \in Threads : rounds[t] <= rounds[u]) ~> At(t, "idle")
=============================================================================
