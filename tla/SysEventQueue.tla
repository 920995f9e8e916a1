---------------------------- MODULE SysEventQueue ----------------------------
(***************************************************************************)
(* The event queues of runtime/syscalls/sys_event.c (the Windows build): a *)
(* ring of events with a lock and a condition variable that are made once  *)
(* per slot and outlive the queues the slot holds.                         *)
(*                                                                         *)
(* A section under the queue's lock is one step; so are create and destroy *)
(* (table lock, then the queue's).  Every other call first looks at active *)
(* without a lock, so by its next step the slot may be destroyed, or hold  *)
(* a new queue.  A thread in SleepConditionVariableCS stays on the slot's  *)
(* condition variable through both.                                        *)
(***************************************************************************)
EXTENDS Integers, Sequences, FiniteSets

CONSTANTS
    Threads,        \* guest threads, SPU host threads, and host producers
    QueueMax,       \* SYS_EVENT_QUEUE_MAX
    BufMax,         \* SYS_EVENT_QUEUE_BUF_MAX
    Sizes,          \* the size arguments of create
    MaxCounts,      \* the max_count arguments of tryreceive
    Events, NoEvent \* sys_event_t values, and a cleared one

ASSUME ThreadsAssumption == IsFiniteSet(Threads)
ASSUME BoundsAssumption  ==
    /\ QueueMax \in Nat /\ BufMax \in Nat \ {0}
    /\ Sizes \subseteq Int /\ MaxCounts \subseteq Int
    /\ NoEvent \notin Events

Queues == 1 .. QueueMax
Cells  == 0 .. (BufMax - 1)

VARIABLES
    (* sys_event_queue_info, one function of the id per field *)
    active, buffer, capacity, head, tail, count, cancelled, waiters,
    (* each thread: where its call is, on which queue, and its arguments *)
    pc, tgt,
    mode,       \* receive: "untimed", "timed" (from 1 ms), "poll" or "host"
    arg,        \* the event to push, the max_count of tryreceive
    out         \* the events the last call gave the caller

ring     == <<buffer, capacity, head, tail, count>>
slotVars == <<active, ring, cancelled, waiters>>
locals   == <<tgt, mode, arg>>
vars     == <<slotVars, pc, locals, out>>

Init ==
    /\ active    = [q \in Queues |-> FALSE]
    /\ buffer    = [q \in Queues |-> [i \in Cells |-> NoEvent]]
    /\ capacity  = [q \in Queues |-> 0]
    /\ head      = [q \in Queues |-> 0]
    /\ tail      = [q \in Queues |-> 0]
    /\ count     = [q \in Queues |-> 0]
    /\ cancelled = [q \in Queues |-> FALSE]
    /\ waiters   = [q \in Queues |-> 0]
    /\ pc   = [t \in Threads |-> "idle"]
    /\ tgt  = [t \in Threads |-> 0]
    /\ mode = [t \in Threads |-> "poll"]
    /\ arg  = [t \in Threads |-> 0]
    /\ out  = [t \in Threads |-> <<>>]

Idle(t) == pc[t] = "idle"
At(t, where) == pc[t] = where

(* The call starts, on a queue it saw live (ESRCH otherwise). *)
Begin(t, q, where, how, a) ==
    /\ Idle(t) /\ active[q]
    /\ pc'   = [pc   EXCEPT ![t] = where]
    /\ tgt'  = [tgt  EXCEPT ![t] = q]
    /\ mode' = [mode EXCEPT ![t] = how]
    /\ arg'  = [arg  EXCEPT ![t] = a]
    /\ out'  = [out  EXCEPT ![t] = <<>>]
    /\ UNCHANGED slotVars

(* pc when the call of t ends and the threads in woken have been woken. *)
Ended(t, woken) ==
    [u \in Threads |-> IF u = t THEN "idle" ELSE IF u \in woken THEN "woken" ELSE pc[u]]

(* The call ends, and its locals with it. *)
Return(t, woken) ==
    /\ pc'   = Ended(t, woken)
    /\ tgt'  = [tgt  EXCEPT ![t] = 0]
    /\ mode' = [mode EXCEPT ![t] = "poll"]
    /\ arg'  = [arg  EXCEPT ![t] = 0]

(* The threads on the condition variable, and those on their way from it   *)
(* back to the lock.                                                       *)
Asleep(q) == {t \in Threads : pc[t] = "asleep" /\ tgt[t] = q}
Woken(q)  == {t \in Threads : pc[t] = "woken" /\ tgt[t] = q}

----------------------------------------------------------------------------
(* sys_event_queue_create and sys_event_queue_create_direct: the lowest    *)
(* free slot, everything but the lock and the condition variable cleared.  *)

Capacity(size) == IF size <= 0 \/ size > BufMax THEN BufMax ELSE size

sys_event_queue_create(t, q, size) ==
    /\ Idle(t)
    /\ ~active[q] /\ \A k \in 1 .. (q - 1) : active[k]      \* EAGAIN
    /\ active'    = [active    EXCEPT ![q] = TRUE]
    /\ buffer'    = [buffer    EXCEPT ![q] = [i \in Cells |-> NoEvent]]
    /\ capacity'  = [capacity  EXCEPT ![q] = Capacity(size)]
    /\ head'      = [head      EXCEPT ![q] = 0]
    /\ tail'      = [tail      EXCEPT ![q] = 0]
    /\ count'     = [count     EXCEPT ![q] = 0]
    /\ cancelled' = [cancelled EXCEPT ![q] = FALSE]
    /\ waiters'   = [waiters   EXCEPT ![q] = 0]
    /\ UNCHANGED <<pc, locals, out>>

(* sys_event_queue_destroy wakes nobody and asks nobody. *)
sys_event_queue_destroy(t, q) ==
    /\ Idle(t) /\ active[q]
    /\ active' = [active EXCEPT ![q] = FALSE]
    /\ UNCHANGED <<ring, cancelled, waiters, pc, locals, out>>

----------------------------------------------------------------------------
(* sys_event_queue_cancel_by_id wakes every waiter, not one;               *)
(* sys_event_queue_uncancel_by_id takes the cancel back.                   *)

sys_event_queue_cancel_by_id(t, q) == Begin(t, q, "cancel", "poll", 0)

(* Mutant: the cancel wakes one waiter. *)
CancelsOne(t) ==
    /\ At(t, "cancel")
    /\ cancelled' = [cancelled EXCEPT ![tgt[t]] = TRUE]
    /\ \/ Asleep(tgt[t]) = {} /\ Return(t, {})
       \/ \E u \in Asleep(tgt[t]) : Return(t, {u})
    /\ UNCHANGED <<active, ring, waiters, out>>

Cancels(t) ==
    /\ At(t, "cancel")
    /\ cancelled' = [cancelled EXCEPT ![tgt[t]] = TRUE]
    /\ Return(t, Asleep(tgt[t]))
    /\ UNCHANGED <<active, ring, waiters, out>>

sys_event_queue_uncancel_by_id(t, q) ==
    /\ cancelled[q]
    /\ Begin(t, q, "uncancel", "poll", 0)

Uncancels(t) ==
    /\ At(t, "uncancel")
    /\ cancelled' = [cancelled EXCEPT ![tgt[t]] = FALSE]
    /\ Return(t, {})
    /\ UNCHANGED <<active, ring, waiters, out>>

----------------------------------------------------------------------------
(* event_queue_push, for sys_event_queue_push_by_id and                    *)
(* sys_event_queue_inject: -1 when the queue is gone or full.              *)

sys_event_queue_push_by_id(t, q, e) == Begin(t, q, "push", "poll", e)

PushRefused(t) ==
    LET q == tgt[t] IN
    /\ At(t, "push") /\ (~active[q] \/ count[q] >= capacity[q])
    /\ Return(t, {})
    /\ UNCHANGED <<slotVars, out>>

(* Mutant: only the push into an empty queue wakes. *)
WakesFirst(q, woken) ==
    \/ (Asleep(q) = {} \/ count[q] > 0) /\ woken = {}
    \/ count[q] = 0 /\ \E u \in Asleep(q) : woken = {u}

(* WakeConditionVariable: one sleeper, if there is one. *)
WakesOne(q, woken) ==
    \/ Asleep(q) = {} /\ woken = {}
    \/ \E u \in Asleep(q) : woken = {u}

(* Mutant: a queue with capacity events takes one more. *)
PushStoresFull(t, woken) ==
    LET q == tgt[t] IN
    /\ At(t, "push") /\ active[q] /\ count[q] <= capacity[q]
    /\ buffer' = [buffer EXCEPT ![q][tail[q]] = arg[t]]
    /\ tail'   = [tail   EXCEPT ![q] = (@ + 1) % capacity[q]]
    /\ count'  = [count  EXCEPT ![q] = @ + 1]
    /\ WakesOne(q, woken)
    /\ Return(t, woken)
    /\ UNCHANGED <<active, capacity, head, cancelled, waiters, out>>

PushStores(t, woken) ==
    LET q == tgt[t] IN
    /\ At(t, "push") /\ active[q] /\ count[q] < capacity[q]
    /\ buffer' = [buffer EXCEPT ![q][tail[q]] = arg[t]]
    /\ tail'   = [tail   EXCEPT ![q] = (@ + 1) % capacity[q]]
    /\ count'  = [count  EXCEPT ![q] = @ + 1]
    /\ WakesOne(q, woken)
    /\ Return(t, woken)
    /\ UNCHANGED <<active, capacity, head, cancelled, waiters, out>>

----------------------------------------------------------------------------
(* sys_event_queue_receive and sys_event_queue_receive_host *)

sys_event_queue_receive(t, q, how) == Begin(t, q, "enter", how, 0)

(* The event i places behind the oldest. *)
EventAt(q, i) == buffer[q][(head[q] + i) % capacity[q]]

(* n events leave the ring for the caller. *)
Take(t, n) ==
    LET q == tgt[t] IN
    /\ out'   = [out   EXCEPT ![t] = [i \in 1 .. n |-> EventAt(q, i - 1)]]
    /\ head'  = [head  EXCEPT ![q] = IF n = 0 THEN @ ELSE (@ + n) % capacity[q]]
    /\ count' = [count EXCEPT ![q] = @ - n]
    /\ UNCHANGED <<buffer, capacity, tail>>

(* Receives that q->waiters counts: untimed ones and the SPU's. *)
Counted(t) == mode[t] \in {"untimed", "host"}

(* The condition of the sleep loop.  An SPU's receive sleeps once, whether *)
(* or not the queue is live.                                               *)
Sleeps(t) ==
    LET q == tgt[t] IN
    /\ count[q] = 0 /\ ~cancelled[q]
    /\ \/ mode[t] \in {"untimed", "timed"} /\ active[q]
       \/ mode[t] = "host" /\ At(t, "enter")

AtLock(t) == pc[t] \in {"enter", "woken"}

ReceiveSleeps(t) ==
    /\ AtLock(t) /\ Sleeps(t)
    /\ pc' = [pc EXCEPT ![t] = "asleep"]
    /\ waiters' = [waiters EXCEPT ![tgt[t]] = IF At(t, "enter") /\ Counted(t) THEN @ + 1 ELSE @]
    /\ UNCHANGED <<active, ring, cancelled, locals, out>>

(* Mutant: an SPU's receive is never counted down. *)
LeavesCountUntimed(t) ==
    LET q == tgt[t] IN
    waiters' = [waiters EXCEPT ![q] =
                  IF At(t, "woken") /\ mode[t] = "untimed" /\ @ > 0 THEN @ - 1 ELSE @]

(* q->waiters when the receive leaves. *)
LeavesCount(t) ==
    LET q == tgt[t] IN
    waiters' = [waiters EXCEPT ![q] =
                  IF At(t, "woken") /\ Counted(t) /\ @ > 0 THEN @ - 1 ELSE @]

ReceiveTakes(t) ==
    LET q == tgt[t] IN
    /\ AtLock(t) /\ active[q] /\ count[q] > 0
    /\ Take(t, 1)
    /\ LeavesCount(t)
    /\ Return(t, {})
    /\ UNCHANGED <<active, cancelled>>

(* ECANCELED, ESRCH, a poll's ETIMEDOUT, an SPU's 0 or -1. *)
ReceiveFails(t) ==
    LET q == tgt[t] IN
    /\ AtLock(t) /\ ~Sleeps(t) /\ ~(active[q] /\ count[q] > 0)
    /\ LeavesCount(t)
    /\ Return(t, {})
    /\ UNCHANGED <<active, ring, cancelled, out>>

(* A timed sleep ends with ERROR_TIMEOUT: no second look at the ring. *)
ReceiveTimesOut(t) ==
    /\ At(t, "asleep") /\ mode[t] = "timed"
    /\ Return(t, {})
    /\ UNCHANGED <<slotVars, out>>

(* The SPU's slice is over. *)
HostSliceOver(t) ==
    /\ At(t, "asleep") /\ mode[t] = "host"
    /\ pc' = [pc EXCEPT ![t] = "woken"]
    /\ UNCHANGED <<slotVars, locals, out>>

(* SleepConditionVariableCS may return with nothing to show for it. *)
SpuriousWake(t) ==
    /\ At(t, "asleep")
    /\ pc' = [pc EXCEPT ![t] = "woken"]
    /\ UNCHANGED <<slotVars, locals, out>>

----------------------------------------------------------------------------
(* sys_event_queue_tryreceive takes up to max_count events, and does not   *)
(* look at active under the lock; sys_event_queue_drain drops them all.    *)

sys_event_queue_tryreceive(t, q, max_count) ==
    Begin(t, q, "try", "poll", IF max_count <= 0 THEN 1 ELSE max_count)

TryTakes(t) ==
    /\ At(t, "try")
    /\ Take(t, IF arg[t] < count[tgt[t]] THEN arg[t] ELSE count[tgt[t]])
    /\ Return(t, {})
    /\ UNCHANGED <<active, cancelled, waiters>>

sys_event_queue_drain(t, q) == Begin(t, q, "drain", "poll", 0)

(* Mutant: the drain leaves head where it was. *)
DrainsTail(t) ==
    LET q == tgt[t] IN
    /\ At(t, "drain")
    /\ tail'  = [tail  EXCEPT ![q] = 0]
    /\ count' = [count EXCEPT ![q] = 0]
    /\ Return(t, {})
    /\ UNCHANGED <<active, buffer, capacity, head, cancelled, waiters, out>>

Drains(t) ==
    LET q == tgt[t] IN
    /\ At(t, "drain")
    /\ head'  = [head  EXCEPT ![q] = 0]
    /\ tail'  = [tail  EXCEPT ![q] = 0]
    /\ count' = [count EXCEPT ![q] = 0]
    /\ Return(t, {})
    /\ UNCHANGED <<active, buffer, capacity, cancelled, waiters, out>>

----------------------------------------------------------------------------
Call(t) ==
    \E q \in Queues :
        \/ \E size \in Sizes : sys_event_queue_create(t, q, size)
        \/ sys_event_queue_destroy(t, q)
        \/ sys_event_queue_cancel_by_id(t, q)
        \/ sys_event_queue_uncancel_by_id(t, q)
        \/ \E e \in Events : sys_event_queue_push_by_id(t, q, e)
        \/ \E how \in {"untimed", "timed", "poll", "host"} : sys_event_queue_receive(t, q, how)
        \/ \E n \in MaxCounts : sys_event_queue_tryreceive(t, q, n)
        \/ sys_event_queue_drain(t, q)

(* The steps of a call that are not waiting for another thread. *)
Run(t) ==
    \/ Cancels(t) \/ Uncancels(t)
    \/ PushRefused(t) \/ \E woken \in SUBSET Threads : PushStores(t, woken)
    \/ ReceiveSleeps(t) \/ ReceiveTakes(t) \/ ReceiveFails(t)
    \/ TryTakes(t) \/ Drains(t)

Step(t) == Call(t) \/ Run(t) \/ ReceiveTimesOut(t) \/ HostSliceOver(t)

Next == \E t \in Threads : Step(t) \/ SpuriousWake(t)

Spec == Init /\ [][Next]_vars

(* The host keeps running a thread that is not asleep, and its timers end  *)
(* the sleeps that have one.  Nobody owes a call.                          *)
Fairness ==
    \A t \in Threads :
        WF_vars(Run(t)) /\ WF_vars(ReceiveTimesOut(t)) /\ WF_vars(HostSliceOver(t))

FairSpec == Spec /\ Fairness

(* The same without spurious wake-ups. *)
CalmSpec == Init /\ [][\E t \in Threads : Step(t)]_vars /\ Fairness

----------------------------------------------------------------------------
(* What the file promises. *)

PcValues == {"idle", "cancel", "uncancel", "push", "enter", "asleep", "woken", "try", "drain"}

(* Every variable keeps its type, the ring's indices that of the buffer. *)
TypeOK ==
    /\ active    \in [Queues -> BOOLEAN]
    /\ buffer    \in [Queues -> [Cells -> Events \cup {NoEvent}]]
    /\ capacity  \in [Queues -> 0 .. BufMax]
    /\ head      \in [Queues -> Cells]
    /\ tail      \in [Queues -> Cells]
    /\ count     \in [Queues -> 0 .. BufMax]
    /\ cancelled \in [Queues -> BOOLEAN]
    /\ waiters   \in [Queues -> Nat]
    /\ pc   \in [Threads -> PcValues]
    /\ tgt  \in [Threads -> Queues \cup {0}]
    /\ mode \in [Threads -> {"untimed", "timed", "poll", "host"}]
    /\ arg  \in [Threads -> Events \cup Nat]
    /\ out  \in [Threads -> Seq(Events)]

(* The events in the ring, oldest first. *)
Contents(q) == [i \in 1 .. count[q] |-> EventAt(q, i - 1)]

Fifo == INSTANCE EventFifo WITH
            size <- capacity, fifo <- [q \in Queues |-> Contents(q)]

(* The ring is whole: its indices and its count stay inside the slot's own *)
(* capacity, the tail is count places behind the head, and each of these   *)
(* places has an event, also when the slot is recycled for a smaller queue *)
(* under a push, a receive or a drain that looked at it before.            *)
RingInv ==
    \A q \in Queues :
        /\ active[q] => capacity[q] > 0
        /\ head[q] + count[q] > 0 => capacity[q] > 0
        /\ capacity[q] > 0 => /\ head[q] < capacity[q] /\ count[q] <= capacity[q]
                              /\ tail[q] = (head[q] + count[q]) % capacity[q]
        /\ \A i \in 0 .. (count[q] - 1) : EventAt(q, i) \in Events

(* A call under way has a slot that was used, and its arguments. *)
CallInv ==
    \A t \in Threads :
        /\ ~Idle(t) => tgt[t] \in Queues /\ capacity[tgt[t]] > 0
        /\ At(t, "push") => arg[t] \in Events
        /\ At(t, "try") => arg[t] \in Nat \ {0}

(* The ring with its wrapping indices is a bounded queue: whatever the     *)
(* pushes, receives, tryreceives and drains under way, each event goes to  *)
(* one receiver, in the order of the pushes, and a full queue takes none.  *)
FifoSpec == Fifo!Spec

(* A push wakes one sleeper, a sleeper that was woken may find its event   *)
(* taken, and slots are recycled under sleepers; still no receiver of a    *)
(* live queue sleeps beside an event that no woken receiver is coming for. *)
NoLostEvent ==
    \A q \in Queues :
        active[q] /\ Asleep(q) # {} => count[q] <= Cardinality(Woken(q))

Blocked(q) == {t \in Threads : Counted(t) /\ t \in Asleep(q) \cup Woken(q)}

(* "A queue nobody is waiting on gets nothing" (spurs_notify_task_         *)
(* completion, which asks sys_event_queue_waiters): waiters never counts   *)
(* more receivers than are blocked, whatever was recycled under them.      *)
WaitersReal == \A q \in Queues : waiters[q] <= Cardinality(Blocked(q))

(* An event and a sleeping receiver do not stay beside each other. *)
EventsFindReceivers ==
    \A q \in Queues :
        (active[q] /\ count[q] > 0 /\ Asleep(q) # {})
            ~> (count[q] = 0 \/ Asleep(q) = {} \/ ~active[q])

(* A cancel releases every waiter, unless it is taken back first. *)
CancelReleases ==
    \A t \in Threads, q \in Queues :
        (cancelled[q] /\ t \in Asleep(q) \cup Woken(q))
            ~> (Idle(t) \/ ~cancelled[q])

(* "Block until an event arrives.  Supports timeout.": a timed receive     *)
(* returns, at least on a queue that nobody cancels.                       *)
TimedReceiveReturns ==
    (\A q \in Queues : []~cancelled[q]) =>
        \A t \in Threads : (At(t, "asleep") /\ mode[t] = "timed") ~> Idle(t)
=============================================================================
