---------------------------- MODULE QueueElements ----------------------------
(* The elements and the depth of a cellSync queue. *)
EXTENDS Callers, Sequences

CONSTANTS Values, NoValue, Depth

ASSUME QueueAssumption == Depth \in Nat \ {0} /\ NoValue \notin Values

Slots == 0 .. (Depth - 1)
=============================================================================
