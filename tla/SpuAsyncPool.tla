----------------------------- MODULE SpuAsyncPool -----------------------------
(***************************************************************************)
(* The worker threads of runtime/spu/spu_async_pool.c that run SPU jobs: a  *)
(* list of idle workers under a lock, and for each worker an auto-reset    *)
(* event.  A section under the lock, or one access to a worker that is off *)
(* the list, is a step.                                                    *)
(***************************************************************************)
EXTENDS Callers, Sequences

CONSTANTS Workers, Jobs, NoJob, MaxIdle

ASSUME PoolAssumption == NoJob \notin Jobs /\ MaxIdle \in Nat

VARIABLES
    aw_idle,        \* the idle list, the last parked worker first
    wpc,            \* each worker: what it does; "free" when there is none
    fn, running,    \* each worker: the job in its record, the one it runs
    ev, own,        \* each worker: its event is set, it is for one job only
    job, taken      \* each dispatcher: the job it starts, the worker it took

workerVars == <<aw_idle, wpc, fn, running, ev, own>>
poolVars   == <<workerVars, job, taken, pc>>

NoWorker == {}

PoolInit ==
    /\ aw_idle = <<>>
    /\ wpc = [w \in Workers |-> "free"]
    /\ fn  = [w \in Workers |-> NoJob] /\ running = [w \in Workers |-> NoJob]
    /\ ev  = [w \in Workers |-> FALSE] /\ own = [w \in Workers |-> FALSE]
    /\ job = [t \in Threads |-> NoJob] /\ taken = [t \in Threads |-> NoWorker]
    /\ NobodyCalls

(* The dispatchers and the workers that have job j. *)
Dispatching(j) == {t \in Threads : job[t] = j}
InRecord(j)    == {w \in Workers : fn[w] = j}
Running(j)     == {w \in Workers : running[w] = j}
Unstarted(j)   == Dispatching(j) = {} /\ InRecord(j) = {} /\ Running(j) = {}

WorkerGoes(w, where) == wpc' = [wpc EXCEPT ![w] = where]

----------------------------------------------------------------------------
(* spu_aw_take: a parked worker, unless the job has a thread of its own. *)
spu_async_pool_start(t, j, own_thread) ==
    /\ At(t, "idle") /\ Unstarted(j)
    /\ job' = [job EXCEPT ![t] = j]
    /\ IF own_thread \/ aw_idle = <<>>
       THEN Goto(t, IF own_thread THEN "pool_create_own" ELSE "pool_create") /\ UNCHANGED <<aw_idle, taken>>
       ELSE /\ Goto(t, "pool_hand")
            /\ taken' = [taken EXCEPT ![t] = {Head(aw_idle)}]
            /\ aw_idle' = Tail(aw_idle)
    /\ UNCHANGED <<wpc, fn, running, ev, own>>

PoolHands(t) ==
    /\ Moves(t, "pool_hand", "pool_signal")
    /\ \E w \in taken[t] : fn' = [fn EXCEPT ![w] = job[t]]
    /\ job' = [job EXCEPT ![t] = NoJob]
    /\ UNCHANGED <<aw_idle, wpc, running, ev, own, taken>>

PoolSignals(t) ==
    /\ Moves(t, "pool_signal", "idle")
    /\ \E w \in taken[t] : ev' = [ev EXCEPT ![w] = TRUE]
    /\ taken' = [taken EXCEPT ![t] = NoWorker]
    /\ UNCHANGED <<aw_idle, wpc, fn, running, own, job>>

(* A record at an address that is free again, and its thread; or 0. *)
PoolCreates(t) ==
    /\ pc[t] \in {"pool_create", "pool_create_own"}
    /\ Goto(t, "idle")
    /\ job' = [job EXCEPT ![t] = NoJob]
    /\ \/ \E w \in Workers :
              /\ wpc[w] = "free" /\ WorkerGoes(w, "begin")
              /\ fn'  = [fn EXCEPT ![w] = job[t]]
              /\ ev'  = [ev EXCEPT ![w] = FALSE]
              /\ own' = [own EXCEPT ![w] = At(t, "pool_create_own")]
       \/ UNCHANGED <<wpc, fn, ev, own>>
    /\ UNCHANGED <<aw_idle, running, taken>>

----------------------------------------------------------------------------
(* The loop of spu_async_thread. *)
WorkerRuns(w) ==
    /\ wpc[w] = "begin" /\ WorkerGoes(w, "run")
    /\ running' = [running EXCEPT ![w] = fn[w]]
    /\ fn' = [fn EXCEPT ![w] = NoJob]
    /\ UNCHANGED <<aw_idle, ev, own, job, taken, pc>>

WorkerFinishes(w) ==
    /\ wpc[w] = "run" /\ WorkerGoes(w, IF own[w] THEN "exit" ELSE "park")
    /\ running' = [running EXCEPT ![w] = NoJob]
    /\ UNCHANGED <<aw_idle, fn, ev, own, job, taken, pc>>

spu_aw_park(w) ==
    /\ wpc[w] = "park"
    /\ IF Len(aw_idle) >= MaxIdle
       THEN WorkerGoes(w, "exit") /\ UNCHANGED aw_idle
       ELSE WorkerGoes(w, "parked") /\ aw_idle' = <<w>> \o aw_idle
    /\ UNCHANGED <<fn, running, ev, own, job, taken, pc>>

(* plat_event_wait returns and resets the event. *)
WorkerWakes(w) ==
    /\ wpc[w] \in {"parked", "forever"} /\ ev[w] /\ WorkerGoes(w, "begin")
    /\ ev' = [ev EXCEPT ![w] = FALSE]
    /\ UNCHANGED <<aw_idle, fn, running, own, job, taken, pc>>

(* SPU_ASYNC_POOL_IDLE_MS are over. *)
WorkerTimesOut(w) ==
    /\ wpc[w] = "parked" /\ ~ev[w] /\ WorkerGoes(w, "late")
    /\ UNCHANGED <<aw_idle, fn, running, ev, own, job, taken, pc>>

Listed(w) == \E i \in 1..Len(aw_idle) : aw_idle[i] = w

(* The list without its k-th worker. *)
Unlinked(k) == [i \in 1..(Len(aw_idle) - 1) |-> aw_idle[IF i < k THEN i ELSE i + 1]]

Unlinks(w) == \E k \in 1..Len(aw_idle) : aw_idle[k] = w /\ aw_idle' = Unlinked(k)

(* Mutant: exits without asking whether a dispatcher took it. *)
WorkerQuits(w) ==
    /\ wpc[w] = "late" /\ WorkerGoes(w, "exit")
    /\ Unlinks(w) \/ (~Listed(w) /\ UNCHANGED aw_idle)
    /\ UNCHANGED <<fn, running, ev, own, job, taken, pc>>

(* Mutant: takes the job to be there already. *)
WorkerBeginsAtOnce(w) ==
    /\ wpc[w] = "late"
    /\ \/ Unlinks(w) /\ WorkerGoes(w, "exit")
       \/ ~Listed(w) /\ UNCHANGED aw_idle /\ WorkerGoes(w, "begin")
    /\ UNCHANGED <<fn, running, ev, own, job, taken, pc>>

(* Off the list, or a dispatcher has the worker and its job will come. *)
WorkerLeaves(w) ==
    /\ wpc[w] = "late"
    /\ \/ Unlinks(w) /\ WorkerGoes(w, "exit")
       \/ ~Listed(w) /\ UNCHANGED aw_idle /\ WorkerGoes(w, "forever")
    /\ UNCHANGED <<fn, running, ev, own, job, taken, pc>>

WorkerExits(w) ==
    /\ wpc[w] = "exit" /\ WorkerGoes(w, "free")
    /\ UNCHANGED <<aw_idle, fn, running, ev, own, job, taken, pc>>

----------------------------------------------------------------------------
PoolRun(t) == PoolHands(t) \/ PoolSignals(t) \/ PoolCreates(t)

WorkerRun(w) == WorkerRuns(w) \/ spu_aw_park(w) \/ WorkerWakes(w) \/ WorkerLeaves(w) \/ WorkerExits(w)

PoolNext ==
    \/ \E t \in Threads :
          PoolRun(t) \/ \E j \in Jobs, own_thread \in BOOLEAN : spu_async_pool_start(t, j, own_thread)
    \/ \E w \in Workers : WorkerRun(w) \/ WorkerFinishes(w) \/ WorkerTimesOut(w)

PoolSpec == PoolInit /\ [][PoolNext]_poolVars

(* Threads are scheduled; a job need not end, and no time-out need come. *)
PoolFairness ==
    /\ \A t \in Threads : WF_poolVars(PoolRun(t))
    /\ \A w \in Workers : WF_poolVars(WorkerRun(w))

----------------------------------------------------------------------------
(* What the pool promises. *)

PoolTypeOK ==
    /\ aw_idle \in Seq(Workers)
    /\ wpc \in [Workers -> {"free", "begin", "run", "park", "parked", "late", "forever", "exit"}]
    /\ fn \in [Workers -> Jobs \cup {NoJob}] /\ running \in [Workers -> Jobs \cup {NoJob}]
    /\ ev \in [Workers -> BOOLEAN] /\ own \in [Workers -> BOOLEAN]
    /\ job \in [Threads -> Jobs \cup {NoJob}] /\ taken \in [Threads -> SUBSET Workers]
    /\ pc \in [Threads -> {"idle", "pool_hand", "pool_signal", "pool_create", "pool_create_own"}]

(* A worker that waits belongs to the list or to one dispatcher, never to  *)
(* both or to two; what is on the list or taken has not exited, though its *)
(* time-out may come between the take and the signal: nobody hands a job   *)
(* to a record that is freed.                                              *)
PoolWorkersHeld ==
    /\ Len(aw_idle) <= MaxIdle
    /\ \A i, k \in 1..Len(aw_idle) : aw_idle[i] = aw_idle[k] => i = k
    /\ \A w \in Workers : Listed(w) => wpc[w] \in {"parked", "late"} /\ fn[w] = NoJob /\ ~ev[w]
    /\ \A t \in Threads, w \in Workers : w \in taken[t] =>
          /\ wpc[w] \in {"parked", "late", "forever"} /\ ~Listed(w) /\ ~ev[w]
          /\ \A u \in Threads \ {t} : w \notin taken[u]

(* A job is with one thread at a time, so it runs once, and a worker that  *)
(* begins has one (fn is never called when it is NULL).                    *)
PoolJobsOnce ==
    /\ \A j \in Jobs : Cardinality(Dispatching(j)) + Cardinality(InRecord(j)) + Cardinality(Running(j)) <= 1
    /\ \A w \in Workers : wpc[w] = "begin" => fn[w] # NoJob

(* A job that a worker was found for runs. *)
PoolJobRuns ==
    \A j \in Jobs :
        (InRecord(j) # {} \/ \E t \in Dispatching(j) : At(t, "pool_hand")) ~> Running(j) # {}
=============================================================================
