-------------------------- MODULE SpuAsyncPoolProofs --------------------------
(* Proofs about SpuAsyncPool, for any threads, workers, jobs and MaxIdle. *)
EXTENDS SpuAsyncPool, TLAPS, FiniteSetTheorems

(* The idle list is a list of distinct workers, not longer than allowed. *)
PoolList ==
    /\ Len(aw_idle) <= MaxIdle
    /\ \A i, k \in 1..Len(aw_idle) : aw_idle[i] = aw_idle[k] => i = k

(* What a dispatcher holds at each place of its call. *)
PoolDispatch ==
    \A t \in Threads :
        /\ job[t] # NoJob <=> pc[t] \in {"pool_hand", "pool_create", "pool_create_own"}
        /\ taken[t] # {} <=> pc[t] \in {"pool_hand", "pool_signal"}
        /\ \A v, w \in Workers : v \in taken[t] /\ w \in taken[t] => v = w

(* What a worker holds at each place of its loop. *)
PoolWork ==
    \A w \in Workers :
        /\ wpc[w] = "begin" => fn[w] # NoJob
        /\ wpc[w] \in {"free", "run", "park", "exit"} => fn[w] = NoJob
        /\ running[w] # NoJob <=> wpc[w] = "run"
        /\ ev[w] => wpc[w] \in {"parked", "late", "forever"} /\ fn[w] # NoJob /\ ~Listed(w)
        /\ Listed(w) => wpc[w] \in {"parked", "late"} /\ fn[w] = NoJob

(* A worker that was taken waits for its dispatcher, who hands it its job  *)
(* in one step and signals in the next.                                    *)
PoolTaken ==
    \A t \in Threads, w \in Workers : w \in taken[t] =>
        /\ wpc[w] \in {"parked", "late", "forever"} /\ ~Listed(w) /\ ~ev[w]
        /\ fn[w] # NoJob <=> pc[t] = "pool_signal"
        /\ \A u \in Threads : w \in taken[u] => u = t

(* No job is in two places. *)
PoolJobs ==
    /\ \A t, u \in Threads : job[t] = job[u] /\ job[t] # NoJob => t = u
    /\ \A v, w \in Workers : fn[v] = fn[w] /\ fn[v] # NoJob => v = w
    /\ \A v, w \in Workers : running[v] = running[w] /\ running[v] # NoJob => v = w
    /\ \A t \in Threads, w \in Workers : job[t] # NoJob => job[t] # fn[w] /\ job[t] # running[w]
    /\ \A v, w \in Workers : fn[v] # NoJob => fn[v] # running[w]

PoolInv == PoolTypeOK /\ PoolList /\ PoolDispatch /\ PoolWork /\ PoolTaken /\ PoolJobs

----------------------------------------------------------------------------
(* The list. *)

LEMMA TakeHead ==
    ASSUME PoolTypeOK, PoolList, aw_idle # <<>>, aw_idle' = Tail(aw_idle)
    PROVE  /\ Head(aw_idle) \in Workers /\ Listed(Head(aw_idle))
           /\ aw_idle' \in Seq(Workers) /\ PoolList'
           /\ \A w \in Workers : Listed(w)' <=> Listed(w) /\ w # Head(aw_idle)
  <1>1. /\ aw_idle \in Seq(Workers) /\ Len(aw_idle) \in Nat /\ Len(aw_idle) > 0
        /\ MaxIdle \in Nat
    BY PoolAssumption DEF PoolTypeOK
  <1>2. /\ Tail(aw_idle) \in Seq(Workers) /\ Len(Tail(aw_idle)) = Len(aw_idle) - 1
        /\ \A i \in 1..Len(Tail(aw_idle)) : Tail(aw_idle)[i] = aw_idle[i + 1]
        /\ Head(aw_idle) = aw_idle[1]
    BY <1>1
  <1>3. Head(aw_idle) \in Workers /\ Listed(Head(aw_idle))
    BY <1>1, <1>2 DEF Listed
  <1>4. PoolList'
    BY <1>1, <1>2 DEF PoolList
  <1>5. ASSUME NEW w \in Workers PROVE Listed(w)' <=> Listed(w) /\ w # Head(aw_idle)
    <2>1. ASSUME Listed(w)' PROVE Listed(w) /\ w # Head(aw_idle)
      BY <1>1, <1>2, <2>1 DEF Listed, PoolList
    <2>2. ASSUME Listed(w), w # Head(aw_idle) PROVE Listed(w)'
      <3>1. PICK i \in 1..Len(aw_idle) : aw_idle[i] = w
        BY <2>2 DEF Listed
      <3>2. i - 1 \in 1..Len(Tail(aw_idle)) /\ Tail(aw_idle)[i - 1] = w
        BY <1>1, <1>2, <2>2, <3>1
      <3> QED BY <3>2 DEF Listed
    <2> QED BY <2>1, <2>2
  <1> QED BY <1>2, <1>3, <1>4, <1>5

LEMMA ParkAtHead ==
    ASSUME PoolTypeOK, PoolList, NEW w \in Workers, ~Listed(w), ~(Len(aw_idle) >= MaxIdle),
           aw_idle' = <<w>> \o aw_idle
    PROVE  /\ aw_idle' \in Seq(Workers) /\ PoolList'
           /\ \A v \in Workers : Listed(v)' <=> Listed(v) \/ v = w
  <1>1. aw_idle \in Seq(Workers) /\ Len(aw_idle) \in Nat /\ MaxIdle \in Nat
    BY PoolAssumption DEF PoolTypeOK
  <1>2. /\ aw_idle' \in Seq(Workers) /\ Len(aw_idle') = Len(aw_idle) + 1
        /\ \A i \in 1..Len(aw_idle') : aw_idle'[i] = IF i = 1 THEN w ELSE aw_idle[i - 1]
    BY <1>1
  <1>3. PoolList'
    BY <1>1, <1>2 DEF PoolList, Listed
  <1>4. ASSUME NEW v \in Workers PROVE Listed(v)' <=> Listed(v) \/ v = w
    <2>1. ASSUME Listed(v)' PROVE Listed(v) \/ v = w
      BY <1>1, <1>2, <2>1 DEF Listed
    <2>2. ASSUME v = w PROVE Listed(v)'
      BY <1>1, <1>2, <2>2 DEF Listed
    <2>3. ASSUME Listed(v) PROVE Listed(v)'
      <3>1. PICK i \in 1..Len(aw_idle) : aw_idle[i] = v
        BY <2>3 DEF Listed
      <3>2. i + 1 \in 1..Len(aw_idle') /\ aw_idle'[i + 1] = v
        BY <1>1, <1>2, <3>1
      <3> QED BY <3>2 DEF Listed
    <2> QED BY <2>1, <2>2, <2>3
  <1> QED BY <1>2, <1>3, <1>4

LEMMA UnlinkOne ==
    ASSUME PoolTypeOK, PoolList, NEW w \in Workers, Unlinks(w)
    PROVE  /\ aw_idle' \in Seq(Workers) /\ PoolList' /\ Listed(w)
           /\ \A v \in Workers : Listed(v)' <=> Listed(v) /\ v # w
  <1>1. aw_idle \in Seq(Workers) /\ Len(aw_idle) \in Nat /\ MaxIdle \in Nat
    BY PoolAssumption DEF PoolTypeOK
  <1>2. PICK k \in 1..Len(aw_idle) : aw_idle[k] = w /\ aw_idle' = Unlinked(k)
    BY DEF Unlinks
  <1>3. /\ aw_idle' \in Seq(Workers) /\ Len(aw_idle') = Len(aw_idle) - 1
        /\ \A i \in 1..Len(aw_idle') : aw_idle'[i] = aw_idle[IF i < k THEN i ELSE i + 1]
    <2> DEFINE n == Len(aw_idle) - 1
               e(i) == aw_idle[IF i < k THEN i ELSE i + 1]
    <2>1. n \in Nat /\ \A i \in 1..n : e(i) \in Workers
      BY <1>1, <1>2
    <2> HIDE DEF n, e
    <2>2. [i \in 1..n |-> e(i)] \in Seq(Workers) /\ Len([i \in 1..n |-> e(i)]) = n
      BY <2>1
    <2>3. aw_idle' = [i \in 1..n |-> e(i)]
      BY <1>2 DEF Unlinked, n, e
    <2>4. Len(aw_idle') = n /\ \A i \in 1..n : aw_idle'[i] = e(i)
      BY <2>2, <2>3
    <2> QED BY <2>2, <2>3, <2>4 DEF n, e
  <1>4. PoolList'
    BY <1>1, <1>3 DEF PoolList
  <1>5. Listed(w)
    BY <1>2 DEF Listed
  <1>6. ASSUME NEW v \in Workers PROVE Listed(v)' <=> Listed(v) /\ v # w
    <2>1. ASSUME Listed(v)' PROVE Listed(v) /\ v # w
      <3>1. PICK i \in 1..Len(aw_idle') : aw_idle'[i] = v
        BY <2>1 DEF Listed
      <3> DEFINE m == IF i < k THEN i ELSE i + 1
      <3>2. m \in 1..Len(aw_idle) /\ m # k /\ aw_idle[m] = v
        BY <1>1, <1>3, <3>1
      <3> QED BY <1>2, <3>2 DEF Listed, PoolList
    <2>2. ASSUME Listed(v), v # w PROVE Listed(v)'
      <3>1. PICK i \in 1..Len(aw_idle) : aw_idle[i] = v
        BY <2>2 DEF Listed
      <3>2. CASE i < k
        BY <1>1, <1>3, <3>1, <3>2 DEF Listed
      <3>3. CASE i > k
        <4>1. i - 1 \in 1..Len(aw_idle') /\ aw_idle'[i - 1] = v
          BY <1>1, <1>3, <3>1, <3>3
        <4> QED BY <4>1 DEF Listed
      <3> QED BY <1>2, <2>2, <3>1, <3>2, <3>3
    <2> QED BY <2>1, <2>2
  <1> QED BY <1>3, <1>4, <1>5, <1>6

LEMMA SameList ==
    ASSUME PoolList, aw_idle' = aw_idle
    PROVE  PoolList' /\ \A w \in Workers : Listed(w)' <=> Listed(w)
  BY DEF PoolList, Listed

----------------------------------------------------------------------------
LEMMA PoolInitial == PoolInit => PoolInv
  <1> SUFFICES ASSUME PoolInit PROVE PoolInv
    OBVIOUS
  <1> USE PoolAssumption DEF PoolInit, NobodyCalls, NoWorker
  <1>1. aw_idle \in Seq(Workers) /\ Len(aw_idle) = 0
    OBVIOUS
  <1>2. \A w \in Workers : ~Listed(w)
    BY <1>1 DEF Listed
  <1>3. PoolTypeOK /\ PoolList
    BY <1>1 DEF PoolTypeOK, PoolList
  <1>4. PoolDispatch /\ PoolWork /\ PoolTaken /\ PoolJobs
    BY <1>2 DEF PoolDispatch, PoolWork, PoolTaken, PoolJobs
  <1> QED BY <1>3, <1>4 DEF PoolInv

LEMMA StartKeeps ==
    ASSUME PoolInv, NEW t \in Threads, NEW j \in Jobs, NEW own_thread \in BOOLEAN,
           spu_async_pool_start(t, j, own_thread)
    PROVE  PoolInv'
  <1> USE PoolAssumption DEF PoolInv
  <1> USE DEF At, Goto
  <1>1. /\ pc[t] = "idle" /\ job' = [job EXCEPT ![t] = j] /\ Unstarted(j)
        /\ UNCHANGED <<wpc, fn, running, ev, own>>
    BY DEF spu_async_pool_start
  <1>2. PoolJobs'
    BY <1>1 DEF PoolJobs, PoolTypeOK, Unstarted, Dispatching, InRecord, Running
  <1>3. CASE aw_idle # <<>> /\ ~own_thread
    <2> DEFINE h == Head(aw_idle)
    <2>1. /\ pc' = [pc EXCEPT ![t] = "pool_hand"] /\ taken' = [taken EXCEPT ![t] = {h}]
          /\ aw_idle' = Tail(aw_idle)
      BY <1>3 DEF spu_async_pool_start
    <2>2. /\ h \in Workers /\ Listed(h)
          /\ aw_idle' \in Seq(Workers) /\ PoolList'
          /\ \A w \in Workers : Listed(w)' <=> Listed(w) /\ w # h
      BY <1>3, <2>1, TakeHead
    <2> HIDE DEF h
    <2>3. PoolTypeOK'
      BY <1>1, <2>1, <2>2 DEF PoolTypeOK
    <2>4. PoolDispatch'
      BY <1>1, <2>1, <2>2 DEF PoolDispatch, PoolTypeOK
    <2>5. PoolWork'
      BY <1>1, <2>2 DEF PoolWork
    <2>6. PoolTaken'
      BY <1>1, <2>1, <2>2 DEF PoolTaken, PoolWork, PoolTypeOK
    <2> QED BY <1>2, <2>2, <2>3, <2>4, <2>5, <2>6
  <1>4. CASE aw_idle = <<>> \/ own_thread
    <2>1. /\ \E p \in {"pool_create", "pool_create_own"} : pc' = [pc EXCEPT ![t] = p]
          /\ UNCHANGED <<aw_idle, taken>>
      BY <1>4 DEF spu_async_pool_start
    <2>2. PoolList' /\ \A w \in Workers : Listed(w)' <=> Listed(w)
      BY <2>1, SameList
    <2>3. PoolTypeOK'
      BY <1>1, <2>1 DEF PoolTypeOK
    <2>4. PoolDispatch'
      BY <1>1, <2>1 DEF PoolDispatch, PoolTypeOK
    <2>5. PoolWork'
      BY <1>1, <2>2 DEF PoolWork
    <2>6. PoolTaken'
      BY <1>1, <2>1, <2>2 DEF PoolTaken, PoolDispatch, PoolTypeOK
    <2> QED BY <1>2, <2>2, <2>3, <2>4, <2>5, <2>6
  <1> QED BY <1>3, <1>4

LEMMA HandsKeeps ==
    ASSUME PoolInv, NEW t \in Threads, PoolHands(t)
    PROVE  PoolInv'
  <1> USE PoolAssumption DEF PoolInv
  <1>1. PICK h \in taken[t] : fn' = [fn EXCEPT ![h] = job[t]]
    BY DEF PoolHands
  <1>2. /\ pc[t] = "pool_hand" /\ pc' = [pc EXCEPT ![t] = "pool_signal"]
        /\ job' = [job EXCEPT ![t] = NoJob]
        /\ UNCHANGED <<aw_idle, wpc, running, ev, own, taken>>
    BY DEF PoolHands, Moves, At, Goto
  <1>3. /\ h \in Workers /\ job[t] # NoJob /\ job[t] \in Jobs
        /\ wpc[h] \in {"parked", "late", "forever"} /\ ~Listed(h) /\ ~ev[h] /\ fn[h] = NoJob
    BY <1>1, <1>2 DEF PoolTypeOK, PoolDispatch, PoolTaken
  <1>4. PoolList' /\ \A w \in Workers : Listed(w)' <=> Listed(w)
    BY <1>2, SameList
  <1>5. PoolTypeOK'
    BY <1>1, <1>2, <1>3 DEF PoolTypeOK
  <1>6. PoolDispatch'
    BY <1>2 DEF PoolDispatch, PoolTypeOK
  <1>7. PoolWork'
    BY <1>1, <1>2, <1>3, <1>4 DEF PoolWork, PoolTypeOK
  <1>8. PoolTaken'
    BY <1>1, <1>2, <1>3, <1>4 DEF PoolTaken, PoolDispatch, PoolTypeOK
  <1>9. PoolJobs'
    BY <1>1, <1>2, <1>3 DEF PoolJobs, PoolTypeOK
  <1> QED BY <1>4, <1>5, <1>6, <1>7, <1>8, <1>9

LEMMA SignalsKeeps ==
    ASSUME PoolInv, NEW t \in Threads, PoolSignals(t)
    PROVE  PoolInv'
  <1> USE PoolAssumption DEF PoolInv
  <1>1. PICK h \in taken[t] : ev' = [ev EXCEPT ![h] = TRUE]
    BY DEF PoolSignals
  <1>2. /\ pc[t] = "pool_signal" /\ pc' = [pc EXCEPT ![t] = "idle"]
        /\ taken' = [taken EXCEPT ![t] = {}]
        /\ UNCHANGED <<aw_idle, wpc, fn, running, own, job>>
    BY DEF PoolSignals, Moves, At, Goto, NoWorker
  <1>3. /\ h \in Workers /\ wpc[h] \in {"parked", "late", "forever"} /\ ~Listed(h) /\ fn[h] # NoJob
        /\ \A u \in Threads : h \in taken[u] => u = t
    BY <1>1, <1>2 DEF PoolTypeOK, PoolTaken
  <1>4. PoolList' /\ \A w \in Workers : Listed(w)' <=> Listed(w)
    BY <1>2, SameList
  <1>5. PoolTypeOK'
    BY <1>1, <1>2 DEF PoolTypeOK
  <1>6. PoolDispatch'
    BY <1>2 DEF PoolDispatch, PoolTypeOK
  <1>7. PoolWork'
    BY <1>1, <1>2, <1>3, <1>4 DEF PoolWork, PoolTypeOK
  <1>8. PoolTaken'
    BY <1>1, <1>2, <1>3, <1>4 DEF PoolTaken, PoolTypeOK
  <1>9. PoolJobs'
    BY <1>2 DEF PoolJobs
  <1> QED BY <1>4, <1>5, <1>6, <1>7, <1>8, <1>9

LEMMA CreatesKeeps ==
    ASSUME PoolInv, NEW t \in Threads, PoolCreates(t)
    PROVE  PoolInv'
  <1> USE PoolAssumption DEF PoolInv
  <1>1. /\ pc[t] \in {"pool_create", "pool_create_own"} /\ pc' = [pc EXCEPT ![t] = "idle"]
        /\ job' = [job EXCEPT ![t] = NoJob] /\ UNCHANGED <<aw_idle, running, taken>>
    BY DEF PoolCreates, Goto
  <1>2. PoolList' /\ \A w \in Workers : Listed(w)' <=> Listed(w)
    BY <1>1, SameList
  <1>3. job[t] \in Jobs /\ taken[t] = {}
    BY <1>1 DEF PoolDispatch, PoolTypeOK
  <1>4. PoolDispatch'
    BY <1>1 DEF PoolDispatch, PoolTypeOK
  <1>5. CASE UNCHANGED <<wpc, fn, ev, own>>
    <2>1. PoolTypeOK'
      BY <1>1, <1>5 DEF PoolTypeOK
    <2>2. PoolWork' /\ PoolJobs'
      BY <1>1, <1>2, <1>5 DEF PoolWork, PoolJobs, PoolTypeOK
    <2>3. PoolTaken'
      BY <1>1, <1>2, <1>3, <1>5 DEF PoolTaken, PoolTypeOK
    <2> QED BY <1>2, <1>4, <2>1, <2>2, <2>3
  <1>6. ASSUME NEW h \in Workers, wpc[h] = "free", WorkerGoes(h, "begin"),
               fn' = [fn EXCEPT ![h] = job[t]], ev' = [ev EXCEPT ![h] = FALSE],
               own' = [own EXCEPT ![h] = At(t, "pool_create_own")]
        PROVE  PoolInv'
    <2>1. wpc' = [wpc EXCEPT ![h] = "begin"] /\ fn[h] = NoJob /\ ~Listed(h)
      BY <1>6 DEF WorkerGoes, PoolWork
    <2>2. PoolTypeOK'
      BY <1>1, <1>3, <1>6, <2>1 DEF PoolTypeOK, At
    <2>3. PoolWork'
      BY <1>1, <1>2, <1>3, <1>6, <2>1 DEF PoolWork, PoolTypeOK
    <2>4. PoolTaken'
      BY <1>1, <1>2, <1>3, <1>6, <2>1 DEF PoolTaken, PoolTypeOK
    <2>5. PoolJobs'
      BY <1>1, <1>3, <1>6, <2>1 DEF PoolJobs, PoolTypeOK
    <2> QED BY <1>2, <1>4, <2>2, <2>3, <2>4, <2>5
  <1> QED BY <1>5, <1>6 DEF PoolCreates

(* The steps of a worker leave the dispatchers alone. *)
LEMMA WorkerKeeps ==
    ASSUME PoolInv, NEW w \in Workers, WorkerRun(w) \/ WorkerFinishes(w) \/ WorkerTimesOut(w)
    PROVE  PoolInv'
  <1> USE PoolAssumption DEF PoolInv, WorkerGoes
  <1>0. UNCHANGED <<job, taken, pc>>
    BY DEF WorkerRun, WorkerRuns, spu_aw_park, WorkerWakes, WorkerLeaves, WorkerExits,
           WorkerFinishes, WorkerTimesOut
  <1>dispatch. PoolDispatch'
    BY <1>0 DEF PoolDispatch
  <1>1. CASE WorkerRuns(w)
    <2>1. PoolList' /\ \A v \in Workers : Listed(v)' <=> Listed(v)
      BY <1>1, SameList DEF WorkerRuns
    <2>2. PoolTypeOK'
      BY <1>0, <1>1 DEF WorkerRuns, PoolTypeOK
    <2>3. PoolWork'
      BY <1>1, <2>1 DEF WorkerRuns, PoolWork, PoolTypeOK
    <2>4. PoolTaken'
      BY <1>0, <1>1, <2>1 DEF WorkerRuns, PoolTaken, PoolTypeOK
    <2>5. PoolJobs'
      BY <1>0, <1>1 DEF WorkerRuns, PoolJobs, PoolWork, PoolTypeOK
    <2> QED BY <1>dispatch, <2>1, <2>2, <2>3, <2>4, <2>5
  <1>2. CASE WorkerFinishes(w)
    <2>1. PoolList' /\ \A v \in Workers : Listed(v)' <=> Listed(v)
      BY <1>2, SameList DEF WorkerFinishes
    <2>2. PoolTypeOK'
      BY <1>0, <1>2 DEF WorkerFinishes, PoolTypeOK
    <2>3. PoolWork'
      BY <1>2, <2>1 DEF WorkerFinishes, PoolWork, PoolTypeOK
    <2>4. PoolTaken'
      BY <1>0, <1>2, <2>1 DEF WorkerFinishes, PoolTaken, PoolTypeOK
    <2>5. PoolJobs'
      BY <1>0, <1>2 DEF WorkerFinishes, PoolJobs, PoolTypeOK
    <2> QED BY <1>dispatch, <2>1, <2>2, <2>3, <2>4, <2>5
  <1>3. CASE spu_aw_park(w)
    <2>1. wpc[w] = "park" /\ fn[w] = NoJob /\ ~Listed(w) /\ ~ev[w] /\ UNCHANGED <<fn, running, ev, own>>
      BY <1>3 DEF spu_aw_park, PoolWork
    <2>2. PoolJobs'
      BY <1>0, <2>1 DEF PoolJobs
    <2>3. CASE Len(aw_idle) >= MaxIdle
      <3>1. wpc' = [wpc EXCEPT ![w] = "exit"] /\ aw_idle' = aw_idle
        BY <1>3, <2>3 DEF spu_aw_park
      <3>2. PoolList' /\ \A v \in Workers : Listed(v)' <=> Listed(v)
        BY <3>1, SameList
      <3>3. PoolTypeOK'
        BY <1>0, <2>1, <3>1 DEF PoolTypeOK
      <3>4. PoolWork'
        BY <2>1, <3>1, <3>2 DEF PoolWork, PoolTypeOK
      <3>5. PoolTaken'
        BY <1>0, <2>1, <3>1, <3>2 DEF PoolTaken, PoolTypeOK
      <3> QED BY <1>dispatch, <2>2, <3>2, <3>3, <3>4, <3>5
    <2>4. CASE ~(Len(aw_idle) >= MaxIdle)
      <3>1. wpc' = [wpc EXCEPT ![w] = "parked"] /\ aw_idle' = <<w>> \o aw_idle
        BY <1>3, <2>4 DEF spu_aw_park
      <3>2. /\ aw_idle' \in Seq(Workers) /\ PoolList'
            /\ \A v \in Workers : Listed(v)' <=> Listed(v) \/ v = w
        BY <2>1, <2>4, <3>1, ParkAtHead
      <3>3. PoolTypeOK'
        BY <1>0, <2>1, <3>1, <3>2 DEF PoolTypeOK
      <3>4. PoolWork'
        BY <2>1, <3>1, <3>2 DEF PoolWork, PoolTypeOK
      <3>5. PoolTaken'
        BY <1>0, <2>1, <3>1, <3>2 DEF PoolTaken, PoolTypeOK
      <3> QED BY <1>dispatch, <2>2, <3>2, <3>3, <3>4, <3>5
    <2> QED BY <2>3, <2>4
  <1>4. CASE WorkerWakes(w)
    <2>1. PoolList' /\ \A v \in Workers : Listed(v)' <=> Listed(v)
      BY <1>4, SameList DEF WorkerWakes
    <2>2. PoolTypeOK'
      BY <1>0, <1>4 DEF WorkerWakes, PoolTypeOK
    <2>3. PoolWork'
      BY <1>4, <2>1 DEF WorkerWakes, PoolWork, PoolTypeOK
    <2>4. PoolTaken'
      BY <1>0, <1>4, <2>1 DEF WorkerWakes, PoolTaken, PoolTypeOK
    <2>5. PoolJobs'
      BY <1>0, <1>4 DEF WorkerWakes, PoolJobs
    <2> QED BY <1>dispatch, <2>1, <2>2, <2>3, <2>4, <2>5
  <1>5. CASE WorkerTimesOut(w) \/ WorkerExits(w)
    <2>1. PoolList' /\ \A v \in Workers : Listed(v)' <=> Listed(v)
      BY <1>5, SameList DEF WorkerTimesOut, WorkerExits
    <2>2. PoolTypeOK'
      BY <1>0, <1>5 DEF WorkerTimesOut, WorkerExits, PoolTypeOK
    <2>3. PoolWork'
      BY <1>5, <2>1 DEF WorkerTimesOut, WorkerExits, PoolWork, PoolTypeOK
    <2>4. PoolTaken'
      BY <1>0, <1>5, <2>1 DEF WorkerTimesOut, WorkerExits, PoolTaken, PoolTypeOK
    <2>5. PoolJobs'
      BY <1>0, <1>5 DEF WorkerTimesOut, WorkerExits, PoolJobs
    <2> QED BY <1>dispatch, <2>1, <2>2, <2>3, <2>4, <2>5
  <1>6. CASE WorkerLeaves(w)
    <2>1. wpc[w] = "late" /\ UNCHANGED <<fn, running, ev, own>>
      BY <1>6 DEF WorkerLeaves
    <2>2. PoolJobs'
      BY <1>0, <2>1 DEF PoolJobs
    <2>3. CASE Unlinks(w) /\ wpc' = [wpc EXCEPT ![w] = "exit"]
      <3>1. /\ aw_idle' \in Seq(Workers) /\ PoolList' /\ Listed(w)
            /\ \A v \in Workers : Listed(v)' <=> Listed(v) /\ v # w
        BY <2>3, UnlinkOne
      <3>2. PoolTypeOK'
        BY <1>0, <2>1, <2>3, <3>1 DEF PoolTypeOK
      <3>3. PoolWork'
        BY <2>1, <2>3, <3>1 DEF PoolWork, PoolTypeOK
      <3>4. PoolTaken'
        BY <1>0, <2>1, <2>3, <3>1 DEF PoolTaken, PoolTypeOK
      <3> QED BY <1>dispatch, <2>2, <3>1, <3>2, <3>3, <3>4
    <2>4. CASE ~Listed(w) /\ aw_idle' = aw_idle /\ wpc' = [wpc EXCEPT ![w] = "forever"]
      <3>1. PoolList' /\ \A v \in Workers : Listed(v)' <=> Listed(v)
        BY <2>4, SameList
      <3>2. PoolTypeOK'
        BY <1>0, <2>1, <2>4 DEF PoolTypeOK
      <3>3. PoolWork'
        BY <2>1, <2>4, <3>1 DEF PoolWork, PoolTypeOK
      <3>4. PoolTaken'
        BY <1>0, <2>1, <2>4, <3>1 DEF PoolTaken, PoolTypeOK
      <3> QED BY <1>dispatch, <2>2, <3>1, <3>2, <3>3, <3>4
    <2> QED BY <1>6, <2>3, <2>4 DEF WorkerLeaves
  <1> QED BY <1>1, <1>2, <1>3, <1>4, <1>5, <1>6 DEF WorkerRun

LEMMA PoolStutters ==
    ASSUME PoolInv, UNCHANGED poolVars
    PROVE  PoolInv'
  <1>1. UNCHANGED <<aw_idle, wpc, fn, running, ev, own, job, taken, pc>>
    BY DEF poolVars, workerVars
  <1>2. PoolList' /\ \A w \in Workers : Listed(w)' <=> Listed(w)
    BY <1>1, SameList DEF PoolInv
  <1> QED BY <1>1, <1>2 DEF PoolInv, PoolTypeOK, PoolDispatch, PoolWork, PoolTaken, PoolJobs

----------------------------------------------------------------------------
(* Who has which worker and which job, at every step of the dispatchers    *)
(* and of the workers' time-outs: the invariant the others follow from.    *)
THEOREM PoolInvariant == PoolSpec => []PoolInv
  <1>1. PoolInv /\ [PoolNext]_poolVars => PoolInv'
    BY StartKeeps, HandsKeeps, SignalsKeeps, CreatesKeeps, WorkerKeeps, PoolStutters
       DEF PoolNext, PoolRun
  <1> QED BY PoolInitial, <1>1, PTL DEF PoolSpec

LEMMA HeldFromInv == PoolInv => PoolWorkersHeld
  BY DEF PoolInv, PoolList, PoolWork, PoolTaken, PoolWorkersHeld

(* No worker on the idle list or in a dispatcher's hands has exited, and   *)
(* none is in two hands, however long the list and whatever times out.     *)
THEOREM PoolHoldsWorkers == PoolSpec => []PoolWorkersHeld
  BY PoolInvariant, HeldFromInv, PTL

LEMMA AtMostOne ==
    ASSUME NEW S, \A x, y \in S : x = y
    PROVE  Cardinality(S) = IF S = {} THEN 0 ELSE 1
  <1>1. CASE S = {}
    BY <1>1, FS_EmptySet
  <1>2. CASE S # {}
    <2>1. PICK x : S = {x}
      BY <1>2
    <2> QED BY <2>1, FS_Singleton
  <1> QED BY <1>1, <1>2

LEMMA OnceFromInv == PoolInv => PoolJobsOnce
  <1> SUFFICES ASSUME PoolInv PROVE PoolJobsOnce
    OBVIOUS
  <1>1. ASSUME NEW j \in Jobs
        PROVE  Cardinality(Dispatching(j)) + Cardinality(InRecord(j)) + Cardinality(Running(j)) <= 1
    <2> USE PoolAssumption DEF PoolInv, PoolJobs, Dispatching, InRecord, Running
    <2>1. /\ Cardinality(Dispatching(j)) = IF Dispatching(j) = {} THEN 0 ELSE 1
          /\ Cardinality(InRecord(j)) = IF InRecord(j) = {} THEN 0 ELSE 1
          /\ Cardinality(Running(j)) = IF Running(j) = {} THEN 0 ELSE 1
      <3>1. \A x, y \in Dispatching(j) : x = y
        OBVIOUS
      <3>2. \A x, y \in InRecord(j) : x = y
        OBVIOUS
      <3>3. \A x, y \in Running(j) : x = y
        OBVIOUS
      <3> HIDE DEF Dispatching, InRecord, Running
      <3> QED BY <3>1, <3>2, <3>3, AtMostOne
    <2>2. /\ Dispatching(j) = {} \/ InRecord(j) = {}
          /\ Dispatching(j) = {} \/ Running(j) = {}
          /\ InRecord(j) = {} \/ Running(j) = {}
      OBVIOUS
    <2> HIDE DEF Dispatching, InRecord, Running
    <2> QED BY <2>1, <2>2
  <1> QED BY <1>1 DEF PoolJobsOnce, PoolInv, PoolWork

(* A job is never in two hands, so no job runs twice, and no worker begins *)
(* without one.                                                            *)
THEOREM PoolRunsOnce == PoolSpec => []PoolJobsOnce
  BY PoolInvariant, OnceFromInv, PTL
=============================================================================
