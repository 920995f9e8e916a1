----------------------------- MODULE MCObjects -----------------------------
(* The primitives in guest memory, those of cellSync and the lightweight   *)
(* mutex, and the kernel's event flags, reader-writer locks, SPU worker    *)
(* pool and thread table, each on its own: they share no state, so a       *)
(* behaviour has one kind of object.                                       *)
EXTENDS CellSyncMutex, CellSyncRwm, CellSyncBarrier, CellSyncQueue, CellSyncLFQueue, SysLwmutex,
        SysEventFlag, SysRwlock, SpuAsyncPool, SysPpuThread

VARIABLE kind       \* the object the threads use

vars == <<mutexVars, rwmVars, barrierVars, queueVars, lfQueueVars, lwmVars,
          flagVars, rwlockVars, poolVars, threadVars, kind>>

Init ==
    /\ kind \in {"mutex", "rwm", "barrier", "queue", "lfqueue", "lwmutex",
                 "flag", "rwlock", "pool", "thread"}
    /\ MutexInit /\ RwmInit /\ BarrierInit /\ QueueInit /\ LFQueueInit /\ LwmInit
    /\ FlagInit /\ RwlockInit /\ PoolInit
    /\ ThreadsInit /\ (kind # "thread" => unwinds)

MutexData   == <<freed, order, raw, ticket>>
RwmData     == <<readers, writer, try>>
BarrierData == <<arrived, phase, rounds, old, stale>>
QueueData   == <<ctrl, slots, pos, elem>>
LFQueueData == <<ring, lock, cells, op, once, item>>
LwmData     == <<cnt, waiters, owner, recur, back, holds, crossed>>
FlagData    == <<pattern, want>>
RwlockData  == <<excl, shared, rwlockWords>>
PoolData    == <<workerVars, job, taken>>
ThreadData  == <<slotVars, info, reg, joinVars, unwinds, loose>>

InMemory == <<MutexData, RwmData, BarrierData, QueueData, LFQueueData, LwmData>>
InKernel == <<FlagData, RwlockData, PoolData, ThreadData>>

(* One object moves, the others do not. *)
MutexOnly   == kind = "mutex" /\ UNCHANGED <<RwmData, BarrierData, QueueData, LFQueueData, LwmData, InKernel, kind>>
RwmOnly     == kind = "rwm" /\ UNCHANGED <<MutexData, BarrierData, QueueData, LFQueueData, LwmData, InKernel, kind>>
BarrierOnly == kind = "barrier" /\ UNCHANGED <<MutexData, RwmData, QueueData, LFQueueData, LwmData, InKernel, kind>>
QueueOnly   == kind = "queue" /\ UNCHANGED <<MutexData, RwmData, BarrierData, LFQueueData, LwmData, InKernel, kind>>
LFQueueOnly == kind = "lfqueue" /\ UNCHANGED <<MutexData, RwmData, BarrierData, QueueData, LwmData, InKernel, kind>>
LwmOnly     == kind = "lwmutex" /\ UNCHANGED <<MutexData, RwmData, BarrierData, QueueData, LFQueueData, InKernel, kind>>
FlagOnly    == kind = "flag" /\ UNCHANGED <<InMemory, RwlockData, PoolData, ThreadData, kind>>
RwlockOnly  == kind = "rwlock" /\ UNCHANGED <<InMemory, FlagData, PoolData, ThreadData, kind>>
PoolOnly    == kind = "pool" /\ UNCHANGED <<InMemory, FlagData, RwlockData, ThreadData, kind>>
ThreadsOnly == kind = "thread" /\ UNCHANGED <<InMemory, FlagData, RwlockData, PoolData, kind>>

(* Bounds: one thread at a time waits on the lwcond, one thread does not   *)
(* wait on the flag, and a behaviour ends where the recursive path lets a  *)
(* second thread in, or a slot of the thread table is freed under its      *)
(* thread.                                                                 *)
LwmBound  == ~crossed /\ \A t, u \in Threads : InCond(t) /\ InCond(u) => t = u
FlagBound == \E t \in Threads : pc'[t] = "idle"

Next ==
    \/ MutexOnly /\ MutexNext
    \/ RwmOnly /\ RwmNext
    \/ BarrierOnly /\ BarrierNext
    \/ QueueOnly /\ QueueNext
    \/ LFQueueOnly /\ LFQueueNext
    \/ LwmOnly /\ LwmBound /\ LwmNext
    \/ FlagOnly /\ FlagNext /\ FlagBound
    \/ RwlockOnly /\ RwlockNext
    \/ PoolOnly /\ PoolNext
    \/ ThreadsOnly /\ ~loose /\ ThreadsNext

(* The fairness of each object, for the one that the behaviour has. *)
Runs(t) ==
    \/ MutexOnly /\ MutexRun(t)
    \/ RwmOnly /\ RwmRun(t)
    \/ FlagOnly /\ FlagRun(t)
    \/ PoolOnly /\ PoolRun(t)

Fairness ==
    /\ \A t \in Threads : WF_vars(Runs(t))
    /\ \A w \in Workers : WF_vars(PoolOnly /\ WorkerRun(w))

Spec == Init /\ [][Next]_vars /\ Fairness

(* The modes that test all bits and any bit, and clear some and all. *)
SomeModes == {[all |-> TRUE, clear |-> "bits"], [all |-> FALSE, clear |-> "all"]}
=============================================================================
