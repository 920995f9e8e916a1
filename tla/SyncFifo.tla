------------------------------- MODULE SyncFifo -------------------------------
(***************************************************************************)
(* What the two queues of cellSync promise: a bounded queue whose elements *)
(* leave in the order they came, each to one thread.                       *)
(***************************************************************************)
EXTENDS Integers, Sequences

CONSTANTS Threads, Values, NoValue, Depth

VARIABLES
    fifo,   \* the elements, oldest first
    got     \* what the thread's last Pop or Peek gave it

syncFifoVars == <<fifo, got>>

Init == fifo = <<>> /\ got = [t \in Threads |-> NoValue]

Put(v) ==
    /\ Len(fifo) < Depth
    /\ fifo' = Append(fifo, v)
    /\ UNCHANGED got

Look(t) ==
    /\ fifo # <<>>
    /\ got' = [got EXCEPT ![t] = Head(fifo)]
    /\ UNCHANGED fifo

Get(t) ==
    /\ fifo # <<>>
    /\ got'  = [got EXCEPT ![t] = Head(fifo)]
    /\ fifo' = Tail(fifo)

Forget(t) == got' = [got EXCEPT ![t] = NoValue] /\ UNCHANGED fifo

Clear == fifo' = <<>> /\ UNCHANGED got

Next ==
    \/ Clear
    \/ \E v \in Values : Put(v)
    \/ \E t \in Threads : Look(t) \/ Get(t) \/ Forget(t)

Spec == Init /\ [][Next]_syncFifoVars
=============================================================================
