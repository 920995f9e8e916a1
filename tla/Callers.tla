------------------------------- MODULE Callers -------------------------------
(***************************************************************************)
(* The threads that call into the runtime, and how far each one's call is. *)
(***************************************************************************)
EXTENDS Integers, FiniteSets

CONSTANT Threads        \* PPU threads, and the SPUs' host threads

ASSUME CallersAssumption == IsFiniteSet(Threads)

VARIABLE pc             \* "idle" between two calls

NobodyCalls == pc = [t \in Threads |-> "idle"]

At(t, where)   == pc[t] = where
Goto(t, where) == pc' = [pc EXCEPT ![t] = where]

(* The step of a call that leads from one place to the next. *)
Moves(t, from, to) == At(t, from) /\ Goto(t, to)

Callers(places) == {t \in Threads : pc[t] \in places}
=============================================================================
