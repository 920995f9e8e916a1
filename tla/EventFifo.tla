------------------------------ MODULE EventFifo ------------------------------
(***************************************************************************)
(* What an event queue promises: a bounded queue of events that are        *)
(* received in the order they were sent, each by one receiver.             *)
(***************************************************************************)
EXTENDS Integers, Sequences

CONSTANTS Queues, Threads, Events

VARIABLES
    size,   \* how many events each queue takes
    fifo,   \* the events in each queue, oldest first
    out     \* what the thread's last receive gave it

fifoVars == <<size, fifo, out>>

Init ==
    /\ size = [q \in Queues |-> 0]
    /\ fifo = [q \in Queues |-> <<>>]
    /\ out  = [t \in Threads |-> <<>>]

Open(q) ==
    /\ size'[q] \in Nat \ {0}
    /\ size' = [size EXCEPT ![q] = size'[q]]
    /\ fifo' = [fifo EXCEPT ![q] = <<>>]
    /\ UNCHANGED out

Drain(q) ==
    /\ fifo' = [fifo EXCEPT ![q] = <<>>]
    /\ UNCHANGED <<size, out>>

Send(q, e) ==
    /\ Len(fifo[q]) < size[q]
    /\ fifo' = [fifo EXCEPT ![q] = Append(@, e)]
    /\ UNCHANGED <<size, out>>

Call(t) ==
    /\ out' = [out EXCEPT ![t] = <<>>]
    /\ UNCHANGED <<size, fifo>>

Receive(t, q, n) ==
    /\ out'  = [out  EXCEPT ![t] = SubSeq(fifo[q], 1, n)]
    /\ fifo' = [fifo EXCEPT ![q] = SubSeq(@, n + 1, Len(@))]
    /\ UNCHANGED size

Next ==
    \/ \E q \in Queues : Open(q) \/ Drain(q) \/ \E e \in Events : Send(q, e)
    \/ \E t \in Threads : Call(t) \/ \E q \in Queues : \E n \in 0 .. Len(fifo[q]) : Receive(t, q, n)

Spec == Init /\ [][Next]_fifoVars
=============================================================================
