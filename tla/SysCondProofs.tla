--------------------------- MODULE SysCondProofs ---------------------------
(***************************************************************************)
(* Proofs about SysCond (mutexes and conds composed): IInv is inductive,   *)
(* one lemma per conjunct with one step per action, and the properties     *)
(* follow from it.  They hold for any number of threads, mutexes, conds    *)
(* and levels of recursion.                                                *)
(***************************************************************************)
EXTENDS SysCond, SequenceTheorems, FiniteSetTheorems, TLAPS

(* The inductive invariant. *)

Targeting(t)  == pc[t] \in {"lock", "timedlock", "trylock", "d_owner", "d_conds",
                            "c_slot", "unbind", "wait", "timedwait", "relock"}
Signalling(t) == pc[t] \in {"signal", "signal_all", "signal_end"}
Away(t)       == Waiting(t) \/ pc[t] = "relock"
Probed(m)     == mtx_table # NoThread /\ tgt[mtx_table] = m

(* The call's mutex and cond are real ones. *)
TargetInv ==
    /\ \A t \in Threads : Targeting(t) => tgt[t] \in Mutexes
    /\ \A t \in Threads : Waiting(t) \/ Signalling(t) => cnd[t] \in Conds
    /\ \A c \in Conds : c_active[c] => c_mutex[c] \in Mutexes

(* The host lock is its guest owner's, or else the destroying thread's. *)
HostLock(m) ==
    /\ lock_count[m] >= 0
    /\ owner_tid[m] = NoThread <=> lock_count[m] = 0
    /\ csDepth[m] = lock_count[m] + (IF Probed(m) THEN 1 ELSE 0)
    /\ lock_count[m] > 0 => csOwner[m] = owner_tid[m]
    /\ Probed(m) => csOwner[m] = mtx_table
    /\ lock_count[m] = 0 /\ ~Probed(m) => csOwner[m] = NoThread
    /\ \A t \in Threads : holds[t][m] = IF owner_tid[m] = t THEN lock_count[m] ELSE 0

HostInv ==
    /\ \A t \in Threads : Probing(t) <=> mtx_table = t
    /\ \A m \in Mutexes : HostLock(m)

(* A thread that waits or relocks left the mutex and has levels to take. *)
AwayInv ==
    \A t \in Threads :
        depth[t] >= 0 /\ (Away(t) => depth[t] > 0 /\ owner_tid[tgt[t]] # t)

(* Whatever is in use is live. *)
LiveInv ==
    /\ \A m \in Mutexes : lock_count[m] > 0 => active[m]
    /\ \A t \in Threads : Away(t) \/ Probing(t) \/ pc[t] \in {"c_slot", "unbind"}
                             => active[tgt[t]]
    /\ \A c \in Conds : c_active[c] => active[c_mutex[c]]

(* A cond's list holds its unsignalled waiters, once each. *)
Parked(t) == Waiting(t) /\ ~signalled[t]

QueueInv ==
    /\ \A c \in Conds : \A i, j \in DOMAIN waiters[c] :
          waiters[c][i] = waiters[c][j] => i = j
    /\ \A c \in Conds : \A i \in DOMAIN waiters[c] :
          Parked(waiters[c][i]) /\ cnd[waiters[c][i]] = c
    /\ \A t \in Threads : Parked(t) =>
          /\ \E i \in DOMAIN waiters[cnd[t]] : waiters[cnd[t]][i] = t
          /\ c_active[cnd[t]] /\ c_mutex[cnd[t]] = tgt[t]

(* A cond's lock is held by the thread that is signalling it. *)
SignalInv ==
    /\ \A t \in Threads : Signalling(t) => cond_lock[cnd[t]] = t /\ c_active[cnd[t]]
    /\ \A t \in Threads : Waiting(t) => result[t] = "OK"
    /\ \A t \in Threads : pc[t] = "relock" => (signalled[t] <=> result[t] = "OK")

CondCountInv ==
    \A m \in Mutexes : cond_count[m] = Cardinality(Bound(m)) + Cardinality(Binding(m))

RelockCountInv ==
    \A m \in Mutexes : relock_pending[m] = Cardinality(Relockers(m))

(* A destroy past its first check: a wakeup since then means a cond is     *)
(* bound, because unbinding needs the table lock.                          *)
ProbeInv ==
    \A t \in Threads : pc[t] = "d_conds" =>
        /\ lock_count[tgt[t]] = 0
        /\ relock_pending[tgt[t]] = 0 \/ cond_count[tgt[t]] > 0

(* Everything above at once, inductive. *)
IInv ==
    /\ TypesOver(Int) /\ TargetInv /\ HostInv /\ AwayInv
    /\ LiveInv /\ QueueInv /\ SignalInv /\ CondCountInv
    /\ RelockCountInv /\ ProbeInv

----------------------------------------------------------------------------
(* The actions of one thread, with the other file's variables unchanged. *)
Step(t) ==
    \/ \E m \in Mutexes, rec \in BOOLEAN : sys_mutex_create(t, m, rec) /\ UNCHANGED condVars
    \/ \E m \in Mutexes, timed \in BOOLEAN : sys_mutex_lock(t, m, timed) /\ UNCHANGED condVars
    \/ LockAcquired(t) /\ UNCHANGED condVars
    \/ LockGone(t) /\ UNCHANGED condVars
    \/ LockTimedOut(t) /\ UNCHANGED condVars
    \/ \E m \in Mutexes : TrylockAgain(t, m) /\ UNCHANGED condVars
    \/ \E m \in Mutexes : sys_mutex_trylock(t, m) /\ UNCHANGED condVars
    \/ TrylockAcquired(t) /\ UNCHANGED condVars
    \/ TrylockRefused(t) /\ UNCHANGED condVars
    \/ \E m \in Mutexes : sys_mutex_unlock(t, m) /\ UNCHANGED condVars
    \/ \E m \in Mutexes : sys_mutex_destroy(t, m) /\ UNCHANGED condVars
    \/ DestroyBusy(t) /\ UNCHANGED condVars
    \/ DestroyUnowned(t) /\ UNCHANGED condVars
    \/ DestroyBound(t) /\ UNCHANGED condVars
    \/ DestroyFreed(t) /\ UNCHANGED condVars
    \/ \E m \in Mutexes : sys_cond_create(t, m)
    \/ \E c \in Conds : CondSlot(t, c)
    \/ CondTableFull(t)
    \/ \E c \in Conds : sys_cond_destroy(t, c)
    \/ Unbind(t)
    \/ \E c \in Conds, timed \in BOOLEAN : sys_cond_wait(t, c, timed)
    \/ WaitSignalled(t)
    \/ \E r \in {"ETIMEDOUT", "EFAULT"} : WaitEnded(t, r)
    \/ Relock(t)
    \/ \E c \in Conds, all \in BOOLEAN : signal_cond(t, c, all)
    \/ SignalWaiter(t)
    \/ SignalEnd(t)

(* A step of the system is a step of one thread.                           *)
LEMMA NextIsStep == Next => \E t \in Threads : Step(t)
BY DEF Next, MutexNext, CondNext, Step

(* r is s without its i-th element. *)
TakenOut(r, s, i) ==
  /\ \A j \in DOMAIN r : \E l \in DOMAIN s : l # i /\ r[j] = s[l]
  /\ \A l \in DOMAIN s : l # i => \E j \in DOMAIN r : r[j] = s[l]
  /\ (\A j, l \in DOMAIN s : s[j] = s[l] => j = l)
       => (\A j, l \in DOMAIN r : r[j] = r[l] => j = l)

(* What taking an element out of a sequence means, from how the elements   *)
(* after it move up.                                                       *)
LEMMA ShiftedTakesOut ==
  ASSUME NEW S, NEW s \in Seq(S), NEW i \in 1 .. Len(s), NEW r \in Seq(S),
         Len(r) = Len(s) - 1,
         \A j \in 1 .. Len(s) - 1 : r[j] = IF j < i THEN s[j] ELSE s[j + 1]
  PROVE  TakenOut(r, s, i)
<1>1. Len(s) \in Nat /\ DOMAIN s = 1 .. Len(s) /\ DOMAIN r = 1 .. Len(s) - 1
  OBVIOUS
<1>2. \A j \in DOMAIN r : \E l \in DOMAIN s : l # i /\ r[j] = s[l]
  BY <1>1, SMTT(20)
<1>3. ASSUME NEW l \in DOMAIN s, l # i
      PROVE  \E j \in DOMAIN r : r[j] = s[l]
  <2>1. CASE l < i
    BY <1>1, <2>1
  <2>2. CASE l > i
    <3>1. l - 1 \in DOMAIN r /\ ~(l - 1 < i) /\ (l - 1) + 1 = l
      BY <1>1, <2>2
    <3> QED BY <1>1, <3>1
  <2> QED BY <1>1, <1>3, <2>1, <2>2
<1>4. ASSUME \A j, l \in DOMAIN s : s[j] = s[l] => j = l,
             NEW j \in DOMAIN r, NEW l \in DOMAIN r, r[j] = r[l]
      PROVE  j = l
  <2> DEFINE At(n) == IF n < i THEN n ELSE n + 1
  <2>1. At(j) \in DOMAIN s /\ At(l) \in DOMAIN s /\ s[At(j)] = s[At(l)]
    BY <1>1, <1>4
  <2>2. At(j) = At(l)
    BY <1>4, <2>1
  <2> QED BY <1>1, <2>2
<1> QED BY <1>2, <1>3, <1>4 DEF TakenOut

(* RemoveAt, with which a timed-out waiter leaves its cond                 *)
(* (sys_cond_wait), takes out exactly one element.                         *)
LEMMA RemoveAtTakesOut ==
  ASSUME NEW S, NEW s \in Seq(S), NEW i \in DOMAIN s
  PROVE  RemoveAt(s, i) \in Seq(S) /\ TakenOut(RemoveAt(s, i), s, i)
<1> DEFINE a == SubSeq(s, 1, i - 1)
           b == SubSeq(s, i + 1, Len(s))
<1>1. Len(s) \in Nat /\ DOMAIN s = 1 .. Len(s) /\ i \in 1 .. Len(s)
  OBVIOUS
<1>2. /\ a \in Seq(S) /\ Len(a) = i - 1
      /\ \A j \in 1 .. i - 1 : a[j] = s[j]
  BY <1>1, SubSeqProperties
<1>3. /\ b \in Seq(S) /\ Len(b) = Len(s) - i
      /\ \A j \in 1 .. Len(s) - i : b[j] = s[i + j]
  BY <1>1, SubSeqProperties, SMTT(20)
<1>4. RemoveAt(s, i) = a \o b
  BY DEF RemoveAt
<1> HIDE DEF a, b
<1>5. /\ a \o b \in Seq(S) /\ Len(a \o b) = Len(s) - 1
      /\ \A j \in 1 .. Len(s) - 1 :
            (a \o b)[j] = IF j <= Len(a) THEN a[j] ELSE b[j - Len(a)]
  <2>1. /\ a \o b \in Seq(S) /\ Len(a \o b) = Len(a) + Len(b)
        /\ \A j \in 1 .. Len(a) + Len(b) :
              (a \o b)[j] = IF j <= Len(a) THEN a[j] ELSE b[j - Len(a)]
    BY <1>2, <1>3, ConcatProperties
  <2>2. Len(a) + Len(b) = Len(s) - 1
    BY <1>1, <1>2, <1>3
  <2> QED BY <2>1, <2>2
<1>6. ASSUME NEW j \in 1 .. Len(s) - 1
      PROVE  (a \o b)[j] = IF j < i THEN s[j] ELSE s[j + 1]
  <2>1. CASE j < i
    BY <1>1, <1>2, <1>5, <2>1
  <2>2. CASE ~(j < i)
    <3>1. j - Len(a) \in 1 .. Len(s) - i /\ ~(j <= Len(a)) /\ i + (j - Len(a)) = j + 1
      BY <1>1, <1>2, <2>2
    <3> QED BY <1>3, <1>5, <2>2, <3>1
  <2> QED BY <2>1, <2>2
<1> QED BY <1>1, <1>4, <1>5, <1>6, ShiftedTakesOut

(* Tail, with which a signal takes the oldest record (signal_cond), takes  *)
(* out exactly the first element.                                          *)
LEMMA TailTakesOut ==
  ASSUME NEW S, NEW s \in Seq(S), s # <<>>
  PROVE  /\ Head(s) \in S /\ 1 \in DOMAIN s /\ s[1] = Head(s)
         /\ Tail(s) \in Seq(S) /\ TakenOut(Tail(s), s, 1)
<1>1. /\ Tail(s) \in Seq(S) /\ Len(Tail(s)) = Len(s) - 1 /\ Head(s) \in S
      /\ \A j \in 1 .. Len(Tail(s)) : Tail(s)[j] = s[j + 1]
  BY HeadTailProperties
<1>2. Len(s) \in Nat /\ 1 \in 1 .. Len(s) /\ s[1] = Head(s) /\ DOMAIN s = 1 .. Len(s)
  BY EmptySeq
<1>3. \A j \in 1 .. Len(s) - 1 : Tail(s)[j] = IF j < 1 THEN s[j] ELSE s[j + 1]
  BY <1>1, <1>2
<1> QED BY <1>1, <1>2, <1>3, ShiftedTakesOut

(* The sets that cond_count and relock_pending count are finite.           *)
LEMMA CountSetsFinite ==
  ASSUME NEW m \in Mutexes
  PROVE  /\ IsFiniteSet(Bound(m)) /\ IsFiniteSet(Binding(m)) /\ IsFiniteSet(Relockers(m))
         /\ Cardinality(Bound(m)) \in Nat /\ Cardinality(Binding(m)) \in Nat
         /\ Cardinality(Relockers(m)) \in Nat
<1>1. IsFiniteSet(Conds)
  BY CondAssumption, FS_Interval DEF Conds
<1>2. IsFiniteSet(Bound(m)) /\ IsFiniteSet(Binding(m)) /\ IsFiniteSet(Relockers(m))
  BY <1>1, ThreadsAssumption, FS_Subset DEF Bound, Binding, Relockers
<1> QED BY <1>2, FS_CardinalityType

(* A mutex with a cond on it, or one being made or given back, has a       *)
(* positive cond_count.                                                    *)
LEMMA CondCountPositive ==
  ASSUME CondCountInv, NEW m \in Mutexes, Bound(m) # {} \/ Binding(m) # {}
  PROVE  cond_count[m] > 0
<1>1. Cardinality(Bound(m)) # 0 \/ Cardinality(Binding(m)) # 0
  BY CountSetsFinite, FS_EmptySet
<1> QED BY <1>1, CountSetsFinite DEF CondCountInv

(* When sys_mutex_destroy frees the slot nobody uses the mutex: the        *)
(* counters it read at two moments are zero together.                      *)
LEMMA FreedUnused ==
  ASSUME IInv, NEW t \in Threads, DestroyFreed(t)
  PROVE  /\ tgt[t] \in Mutexes /\ lock_count[tgt[t]] = 0
         /\ ~InUse(tgt[t]) /\ Binding(tgt[t]) = {}
<1> USE DEF IInv
<1>1. PICK m \in Mutexes : m = tgt[t]
  BY DEF DestroyFreed, TargetInv, Targeting
<1>2. lock_count[m] = 0 /\ cond_count[m] = 0 /\ relock_pending[m] = 0
  BY <1>1 DEF DestroyFreed, ProbeInv
<1>3. Bound(m) = {} /\ Binding(m) = {}
  BY <1>2, CondCountPositive
<1>4. Relockers(m) = {}
  BY <1>2, CountSetsFinite, FS_EmptySet DEF RelockCountInv
<1>5. \A u \in Threads : holds[u][m] = 0
  BY <1>2 DEF HostInv, HostLock
<1>6. \A u \in Threads : Away(u) => tgt[u] # m
  BY <1>3, <1>4 DEF Away, Waiting, Relockers, Relocking, Bound, QueueInv, Parked,
       TargetInv
<1> QED BY <1>1, <1>2, <1>3, <1>5, <1>6 DEF InUse, Bound, Away

(* Every action keeps the types (counters as integers; that they stay      *)
(* natural follows from the other conjuncts).                              *)
LEMMA TypeStep ==
  ASSUME IInv, NEW t \in Threads, Step(t)
  PROVE  TypesOver(Int)'
<1> TypesOver(Int) /\ TargetInv /\ SignalInv /\ QueueInv
  BY DEF IInv
<1>1. ASSUME NEW m \in Mutexes, NEW rec \in BOOLEAN,
              sys_mutex_create(t, m, rec), UNCHANGED condVars
      PROVE  TypesOver(Int)'
  BY <1>1 DEF sys_mutex_create, TypesOver, PcValues, TargetInv, Targeting,
          Signalling, Waiting, mutexVars, slotVars, condVars
<1>2. ASSUME NEW m \in Mutexes, NEW timed \in BOOLEAN,
              sys_mutex_lock(t, m, timed), UNCHANGED condVars
      PROVE  TypesOver(Int)'
  BY <1>2 DEF sys_mutex_lock, GoOn, Go, TypesOver, PcValues, TargetInv,
          Targeting, Signalling, Waiting, mutexVars, slotVars, condVars
<1>3. ASSUME LockAcquired(t), UNCHANGED condVars
      PROVE  TypesOver(Int)'
  BY <1>3 DEF LockAcquired, Locking, Enter, Given, Go, TypesOver, PcValues,
          TargetInv, Targeting, Signalling, Waiting, mutexVars, slotVars,
          condVars
<1>4. ASSUME LockGone(t), UNCHANGED condVars
      PROVE  TypesOver(Int)'
  BY <1>4 DEF LockGone, Locking, Go, TypesOver, PcValues, TargetInv, Targeting,
          Signalling, Waiting, mutexVars, slotVars, condVars
<1>5. ASSUME LockTimedOut(t), UNCHANGED condVars
      PROVE  TypesOver(Int)'
  BY <1>5 DEF LockTimedOut, Go, TypesOver, PcValues, TargetInv, Targeting,
          Signalling, Waiting, mutexVars, slotVars, condVars
<1>6. ASSUME NEW m \in Mutexes, TrylockAgain(t, m), UNCHANGED condVars
      PROVE  TypesOver(Int)'
  BY <1>6 DEF TrylockAgain, Enter, Given, TypesOver, PcValues, TargetInv,
          Targeting, Signalling, Waiting, mutexVars, slotVars, condVars
<1>7. ASSUME NEW m \in Mutexes, sys_mutex_trylock(t, m), UNCHANGED condVars
      PROVE  TypesOver(Int)'
  BY <1>7 DEF sys_mutex_trylock, GoOn, Go, TypesOver, PcValues, TargetInv,
          Targeting, Signalling, Waiting, mutexVars, slotVars, condVars
<1>8. ASSUME TrylockAcquired(t), UNCHANGED condVars
      PROVE  TypesOver(Int)'
  BY <1>8 DEF TrylockAcquired, Enter, Given, Go, TypesOver, PcValues, TargetInv,
          Targeting, Signalling, Waiting, mutexVars, slotVars, condVars
<1>9. ASSUME TrylockRefused(t), UNCHANGED condVars
      PROVE  TypesOver(Int)'
  BY <1>9 DEF TrylockRefused, Go, TypesOver, PcValues, TargetInv, Targeting,
          Signalling, Waiting, mutexVars, slotVars, condVars
<1>10. ASSUME NEW m \in Mutexes, sys_mutex_unlock(t, m), UNCHANGED condVars
      PROVE  TypesOver(Int)'
  BY <1>10, SMTT(20) DEF sys_mutex_unlock, Leave, TypesOver, PcValues, TargetInv,
          Targeting, Signalling, Waiting, mutexVars, slotVars, condVars
<1>11. ASSUME NEW m \in Mutexes, sys_mutex_destroy(t, m), UNCHANGED condVars
      PROVE  TypesOver(Int)'
  BY <1>11 DEF sys_mutex_destroy, Enter, GoOn, Go, TypesOver, PcValues,
          TargetInv, Targeting, Signalling, Waiting, mutexVars, slotVars,
          condVars
<1>12. ASSUME DestroyBusy(t), UNCHANGED condVars
      PROVE  TypesOver(Int)'
  BY <1>12 DEF DestroyBusy, DestroyDone, Leave, Go, TypesOver, PcValues,
          TargetInv, Targeting, Signalling, Waiting, mutexVars, slotVars,
          condVars
<1>13. ASSUME DestroyUnowned(t), UNCHANGED condVars
      PROVE  TypesOver(Int)'
  BY <1>13 DEF DestroyUnowned, Go, TypesOver, PcValues, TargetInv, Targeting,
          Signalling, Waiting, mutexVars, slotVars, condVars
<1>14. ASSUME DestroyBound(t), UNCHANGED condVars
      PROVE  TypesOver(Int)'
  BY <1>14 DEF DestroyBound, DestroyDone, Leave, Go, TypesOver, PcValues,
          TargetInv, Targeting, Signalling, Waiting, mutexVars, slotVars,
          condVars
<1>15. ASSUME DestroyFreed(t), UNCHANGED condVars
      PROVE  TypesOver(Int)'
  BY <1>15 DEF DestroyFreed, DestroyDone, Leave, Go, TypesOver, PcValues,
          TargetInv, Targeting, Signalling, Waiting, mutexVars, slotVars,
          condVars
<1>16. ASSUME NEW m \in Mutexes, sys_cond_create(t, m)
      PROVE  TypesOver(Int)'
  BY <1>16 DEF sys_cond_create, sys_mutex_bind_cond, GoOn, Go, TypesOver,
          PcValues, TargetInv, Targeting, Signalling, Waiting, mutexVars,
          slotVars, condVars
<1>17. ASSUME NEW c \in Conds, CondSlot(t, c)
      PROVE  TypesOver(Int)'
  BY <1>17 DEF CondSlot, Go, TypesOver, PcValues, TargetInv, Targeting,
          Signalling, Waiting, mutexVars, slotVars, condVars
<1>18. ASSUME CondTableFull(t)
      PROVE  TypesOver(Int)'
  BY <1>18 DEF CondTableFull, Go, TypesOver, PcValues, TargetInv, Targeting,
          Signalling, Waiting, mutexVars, slotVars, condVars
<1>19. ASSUME NEW c \in Conds, sys_cond_destroy(t, c)
      PROVE  TypesOver(Int)'
  BY <1>19 DEF sys_cond_destroy, Acquirable, GoOn, Go, TypesOver, PcValues,
          TargetInv, Targeting, Signalling, Waiting, mutexVars, slotVars,
          condVars
<1>20. ASSUME Unbind(t)
      PROVE  TypesOver(Int)'
  BY <1>20 DEF Unbind, sys_mutex_unbind_cond, Go, TypesOver, PcValues,
          TargetInv, Targeting, Signalling, Waiting, mutexVars, slotVars,
          condVars
<1>21. ASSUME NEW c \in Conds, NEW timed \in BOOLEAN, sys_cond_wait(t, c, timed)
      PROVE  TypesOver(Int)'
  <2>1. PICK m \in Mutexes : m = c_mutex[c]
    BY <1>21 DEF sys_cond_wait, Acquirable, TargetInv
  <2>2. Append(waiters[c], t) \in Seq(Threads)
    BY AppendProperties DEF TypesOver
  <2>3. /\ waiters' \in [Conds -> Seq(Threads)] /\ signalled' \in [Threads -> BOOLEAN]
        /\ result' \in [Threads -> {"OK", "ETIMEDOUT", "EFAULT"}]
        /\ cnd' \in [Threads -> Conds \cup {0}] /\ depth' \in [Threads -> Int]
    BY <1>21, <2>1, <2>2 DEF sys_cond_wait, TypesOver
  <2>4. /\ owner_tid' \in [Mutexes -> Threads \cup {NoThread}]
        /\ lock_count' \in [Mutexes -> Int]
        /\ csOwner' \in [Mutexes -> Threads \cup {NoThread}]
        /\ csDepth' \in [Mutexes -> Int]
    BY <1>21, <2>1 DEF sys_cond_wait, Leave, TypesOver
  <2>5. holds' \in [Threads -> [Mutexes -> Int]]
    BY <1>21, <2>1 DEF sys_cond_wait, TypesOver
  <2>6. pc' \in [Threads -> PcValues] /\ tgt' \in [Threads -> Mutexes \cup {0}]
    BY <1>21, <2>1 DEF sys_cond_wait, GoOn, Go, TypesOver, PcValues
  <2> QED
    BY <1>21, <2>3, <2>4, <2>5, <2>6 DEF sys_cond_wait, TypesOver
<1>22. ASSUME WaitSignalled(t)
      PROVE  TypesOver(Int)'
  BY <1>22 DEF WaitSignalled, Waiting, Go, TypesOver, PcValues, TargetInv,
          Targeting, Signalling, mutexVars, slotVars, condVars
<1>23. ASSUME NEW r \in {"ETIMEDOUT", "EFAULT"}, WaitEnded(t, r)
      PROVE  TypesOver(Int)'
  <2>1. PICK i \in DOMAIN waiters[cnd[t]] :
          waiters' = [waiters EXCEPT ![cnd[t]] = RemoveAt(@, i)]
    BY <1>23 DEF WaitEnded
  <2>2. cnd[t] \in Conds /\ tgt[t] \in Mutexes
    BY <1>23 DEF WaitEnded, Waiting, TargetInv, Targeting
  <2>3. RemoveAt(waiters[cnd[t]], i) \in Seq(Threads)
    BY <2>1, <2>2, RemoveAtTakesOut DEF TypesOver
  <2>4. waiters' \in [Conds -> Seq(Threads)]
    BY <2>1, <2>2, <2>3 DEF TypesOver
  <2>5. /\ relock_pending' \in [Mutexes -> Int] /\ pc' \in [Threads -> PcValues]
        /\ result' \in [Threads -> {"OK", "ETIMEDOUT", "EFAULT"}]
    BY <1>23, <2>2 DEF WaitEnded, Go, TypesOver, PcValues
  <2> QED
    BY <1>23, <2>4, <2>5 DEF WaitEnded, TypesOver
<1>24. ASSUME Relock(t)
      PROVE  TypesOver(Int)'
  BY <1>24 DEF Relock, Enter, Go, TypesOver, PcValues, TargetInv, Targeting,
          Signalling, Waiting, mutexVars, slotVars, condVars
<1>25. ASSUME NEW c \in Conds, NEW all \in BOOLEAN, signal_cond(t, c, all)
      PROVE  TypesOver(Int)'
  BY <1>25 DEF signal_cond, Acquirable, Go, TypesOver, PcValues, TargetInv,
          Targeting, Signalling, Waiting, mutexVars, slotVars, condVars
<1>26. ASSUME SignalWaiter(t)
      PROVE  TypesOver(Int)'
  <2>1. cnd[t] \in Conds /\ c_mutex[cnd[t]] \in Mutexes
    BY <1>26 DEF SignalWaiter, TargetInv, SignalInv, Signalling
  <2>2. /\ Head(waiters[cnd[t]]) \in Threads
        /\ Tail(waiters[cnd[t]]) \in Seq(Threads)
    BY <1>26, <2>1, HeadTailProperties DEF SignalWaiter, TypesOver
  <2>3. PICK c \in Conds, m \in Mutexes, w \in Threads, where \in PcValues :
          /\ waiters' = [waiters EXCEPT ![c] = Tail(waiters[c])]
          /\ Tail(waiters[c]) \in Seq(Threads)
          /\ signalled' = [signalled EXCEPT ![w] = TRUE]
          /\ relock_pending' = [relock_pending EXCEPT ![m] = relock_pending[m] + 1]
          /\ pc' = [pc EXCEPT ![t] = where]
    BY <1>26, <2>1, <2>2 DEF SignalWaiter, Go, PcValues
  <2>4. /\ waiters'   \in [Conds -> Seq(Threads)]
        /\ signalled' \in [Threads -> BOOLEAN]
        /\ relock_pending' \in [Mutexes -> Int]
        /\ pc' \in [Threads -> PcValues]
    BY <2>3 DEF TypesOver
  <2> QED
    BY <1>26, <2>4 DEF SignalWaiter, TypesOver
<1>27. ASSUME SignalEnd(t)
      PROVE  TypesOver(Int)'
  BY <1>27 DEF SignalEnd, Go, TypesOver, PcValues, TargetInv, Targeting,
          Signalling, Waiting, mutexVars, slotVars, condVars
<1> QED
  BY <1>1, <1>2, <1>3, <1>4, <1>5, <1>6, <1>7, <1>8, <1>9, <1>10, <1>11, <1>12,
     <1>13, <1>14, <1>15, <1>16, <1>17, <1>18, <1>19, <1>20, <1>21, <1>22,
     <1>23, <1>24, <1>25, <1>26, <1>27 DEF Step

(* Every action keeps the mutex and the cond of a call real.               *)
LEMMA TargetStep ==
  ASSUME IInv, NEW t \in Threads, Step(t)
  PROVE  TargetInv'
<1> TypesOver(Int) /\ TargetInv
  BY DEF IInv
<1>1. ASSUME NEW m \in Mutexes, NEW rec \in BOOLEAN,
              sys_mutex_create(t, m, rec), UNCHANGED condVars
      PROVE  TargetInv'
  BY <1>1 DEF sys_mutex_create, TypesOver, TargetInv, Targeting, Signalling,
          Waiting, Idle, mutexVars, slotVars, condVars
<1>2. ASSUME NEW m \in Mutexes, NEW timed \in BOOLEAN,
              sys_mutex_lock(t, m, timed), UNCHANGED condVars
      PROVE  TargetInv'
  BY <1>2 DEF sys_mutex_lock, GoOn, Go, TypesOver, TargetInv, Targeting,
          Signalling, Waiting, Idle, mutexVars, slotVars, condVars
<1>3. ASSUME LockAcquired(t), UNCHANGED condVars
      PROVE  TargetInv'
  BY <1>3 DEF LockAcquired, Locking, Enter, Given, Go, TypesOver, TargetInv,
          Targeting, Signalling, Waiting, Idle, mutexVars, slotVars, condVars
<1>4. ASSUME LockGone(t), UNCHANGED condVars
      PROVE  TargetInv'
  BY <1>4 DEF LockGone, Locking, Go, TypesOver, TargetInv, Targeting,
          Signalling, Waiting, Idle, mutexVars, slotVars, condVars
<1>5. ASSUME LockTimedOut(t), UNCHANGED condVars
      PROVE  TargetInv'
  BY <1>5 DEF LockTimedOut, Go, TypesOver, TargetInv, Targeting, Signalling,
          Waiting, Idle, mutexVars, slotVars, condVars
<1>6. ASSUME NEW m \in Mutexes, TrylockAgain(t, m), UNCHANGED condVars
      PROVE  TargetInv'
  BY <1>6 DEF TrylockAgain, Enter, Given, TypesOver, TargetInv, Targeting,
          Signalling, Waiting, Idle, mutexVars, slotVars, condVars
<1>7. ASSUME NEW m \in Mutexes, sys_mutex_trylock(t, m), UNCHANGED condVars
      PROVE  TargetInv'
  BY <1>7 DEF sys_mutex_trylock, GoOn, Go, TypesOver, TargetInv, Targeting,
          Signalling, Waiting, Idle, mutexVars, slotVars, condVars
<1>8. ASSUME TrylockAcquired(t), UNCHANGED condVars
      PROVE  TargetInv'
  BY <1>8 DEF TrylockAcquired, Enter, Given, Go, TypesOver, TargetInv,
          Targeting, Signalling, Waiting, Idle, mutexVars, slotVars, condVars
<1>9. ASSUME TrylockRefused(t), UNCHANGED condVars
      PROVE  TargetInv'
  BY <1>9 DEF TrylockRefused, Go, TypesOver, TargetInv, Targeting, Signalling,
          Waiting, Idle, mutexVars, slotVars, condVars
<1>10. ASSUME NEW m \in Mutexes, sys_mutex_unlock(t, m), UNCHANGED condVars
      PROVE  TargetInv'
  BY <1>10 DEF sys_mutex_unlock, Leave, TypesOver, TargetInv, Targeting,
          Signalling, Waiting, Idle, mutexVars, slotVars, condVars
<1>11. ASSUME NEW m \in Mutexes, sys_mutex_destroy(t, m), UNCHANGED condVars
      PROVE  TargetInv'
  BY <1>11 DEF sys_mutex_destroy, Enter, GoOn, Go, TypesOver, TargetInv,
          Targeting, Signalling, Waiting, Idle, mutexVars, slotVars, condVars
<1>12. ASSUME DestroyBusy(t), UNCHANGED condVars
      PROVE  TargetInv'
  BY <1>12 DEF DestroyBusy, DestroyDone, Leave, Go, TypesOver, TargetInv,
          Targeting, Signalling, Waiting, Idle, mutexVars, slotVars, condVars
<1>13. ASSUME DestroyUnowned(t), UNCHANGED condVars
      PROVE  TargetInv'
  BY <1>13 DEF DestroyUnowned, Go, TypesOver, TargetInv, Targeting, Signalling,
          Waiting, Idle, mutexVars, slotVars, condVars
<1>14. ASSUME DestroyBound(t), UNCHANGED condVars
      PROVE  TargetInv'
  BY <1>14 DEF DestroyBound, DestroyDone, Leave, Go, TypesOver, TargetInv,
          Targeting, Signalling, Waiting, Idle, mutexVars, slotVars, condVars
<1>15. ASSUME DestroyFreed(t), UNCHANGED condVars
      PROVE  TargetInv'
  BY <1>15 DEF DestroyFreed, DestroyDone, Leave, Go, TypesOver, TargetInv,
          Targeting, Signalling, Waiting, Idle, mutexVars, slotVars, condVars
<1>16. ASSUME NEW m \in Mutexes, sys_cond_create(t, m)
      PROVE  TargetInv'
  BY <1>16 DEF sys_cond_create, sys_mutex_bind_cond, GoOn, Go, TypesOver,
          TargetInv, Targeting, Signalling, Waiting, Idle, mutexVars, slotVars,
          condVars
<1>17. ASSUME NEW c \in Conds, CondSlot(t, c)
      PROVE  TargetInv'
  BY <1>17 DEF CondSlot, Go, TypesOver, TargetInv, Targeting, Signalling,
          Waiting, Idle, mutexVars, slotVars, condVars
<1>18. ASSUME CondTableFull(t)
      PROVE  TargetInv'
  BY <1>18 DEF CondTableFull, Go, TypesOver, TargetInv, Targeting, Signalling,
          Waiting, Idle, mutexVars, slotVars, condVars
<1>19. ASSUME NEW c \in Conds, sys_cond_destroy(t, c)
      PROVE  TargetInv'
  BY <1>19 DEF sys_cond_destroy, Acquirable, GoOn, Go, TypesOver, TargetInv,
          Targeting, Signalling, Waiting, Idle, mutexVars, slotVars, condVars
<1>20. ASSUME Unbind(t)
      PROVE  TargetInv'
  BY <1>20 DEF Unbind, sys_mutex_unbind_cond, Go, TypesOver, TargetInv,
          Targeting, Signalling, Waiting, Idle, mutexVars, slotVars, condVars
<1>21. ASSUME NEW c \in Conds, NEW timed \in BOOLEAN, sys_cond_wait(t, c, timed)
      PROVE  TargetInv'
  BY <1>21 DEF sys_cond_wait, Acquirable, Owns, Leave, GoOn, Go, TypesOver,
          TargetInv, Targeting, Signalling, Waiting, Idle, mutexVars, slotVars,
          condVars
<1>22. ASSUME WaitSignalled(t)
      PROVE  TargetInv'
  BY <1>22 DEF WaitSignalled, Waiting, Go, TypesOver, TargetInv, Targeting,
          Signalling, Idle, mutexVars, slotVars, condVars
<1>23. ASSUME NEW r \in {"ETIMEDOUT", "EFAULT"}, WaitEnded(t, r)
      PROVE  TargetInv'
  BY <1>23 DEF WaitEnded, Waiting, Go, TypesOver, TargetInv, Targeting,
          Signalling, Idle, mutexVars, slotVars, condVars
<1>24. ASSUME Relock(t)
      PROVE  TargetInv'
  BY <1>24 DEF Relock, Enter, Go, TypesOver, TargetInv, Targeting, Signalling,
          Waiting, Idle, mutexVars, slotVars, condVars
<1>25. ASSUME NEW c \in Conds, NEW all \in BOOLEAN, signal_cond(t, c, all)
      PROVE  TargetInv'
  BY <1>25 DEF signal_cond, Acquirable, Go, TypesOver, TargetInv, Targeting,
          Signalling, Waiting, Idle, mutexVars, slotVars, condVars
<1>26. ASSUME SignalWaiter(t)
      PROVE  TargetInv'
  BY <1>26 DEF SignalWaiter, Go, TypesOver, TargetInv, Targeting, Signalling,
          Waiting, Idle, mutexVars, slotVars, condVars
<1>27. ASSUME SignalEnd(t)
      PROVE  TargetInv'
  BY <1>27 DEF SignalEnd, Go, TypesOver, TargetInv, Targeting, Signalling,
          Waiting, Idle, mutexVars, slotVars, condVars
<1> QED
  BY <1>1, <1>2, <1>3, <1>4, <1>5, <1>6, <1>7, <1>8, <1>9, <1>10, <1>11, <1>12,
     <1>13, <1>14, <1>15, <1>16, <1>17, <1>18, <1>19, <1>20, <1>21, <1>22,
     <1>23, <1>24, <1>25, <1>26, <1>27 DEF Step

(* Every action keeps the host lock with its guest owner, or with the      *)
(* destroying thread: Enter and Leave are paired.                          *)
LEMMA HostStep ==
  ASSUME IInv, NEW t \in Threads, Step(t)
  PROVE  HostInv'
<1> TypesOver(Int) /\ TargetInv /\ HostInv /\ AwayInv /\ LiveInv
  BY DEF IInv
<1> USE ThreadsAssumption
<1>1. ASSUME NEW m \in Mutexes, NEW rec \in BOOLEAN,
              sys_mutex_create(t, m, rec), UNCHANGED condVars
      PROVE  HostInv'
  <2>1. lock_count[m] = 0 /\ owner_tid[m] = NoThread
    BY <1>1 DEF sys_mutex_create, LiveInv, TypesOver, HostInv, HostLock
  <2>2. UNCHANGED <<lock_count, owner_tid, csOwner, csDepth, mtx_table, pc, tgt, holds>>
    BY <1>1, <2>1 DEF sys_mutex_create, TypesOver
  <2> QED
    BY <2>2 DEF Probing, Probed, HostInv, HostLock
<1>2. ASSUME NEW m \in Mutexes, NEW timed \in BOOLEAN,
              sys_mutex_lock(t, m, timed), UNCHANGED condVars
      PROVE  HostInv'
  <2>1. \A k \in Mutexes : Probed(k)' <=> Probed(k)
    BY <1>2 DEF sys_mutex_lock, Idle, Go, GoOn, Probed, Probing, HostInv, TypesOver
  <2>2. \A u \in Threads : (Probing(u) <=> mtx_table = u)'
    BY <1>2 DEF sys_mutex_lock, Idle, Go, GoOn, Probing, HostInv, TypesOver
  <2>3. \A k \in Mutexes : HostLock(k)'
    BY <1>2, <2>1 DEF sys_mutex_lock, HostInv, HostLock, slotVars
  <2> QED BY <2>2, <2>3 DEF HostInv
<1>3. ASSUME LockAcquired(t), UNCHANGED condVars
      PROVE  HostInv'
  <2>0. PICK m \in Mutexes : m = tgt[t]
    BY <1>3 DEF LockAcquired, Locking, TargetInv, Targeting
  <2>6. ~Probed(m) /\ csOwner[m] \in {t, NoThread}
    BY <1>3, <2>0 DEF LockAcquired, Locking, CanEnter, Probed, Probing, Away,
         HostInv, HostLock, AwayInv
  <2>1. ~Probed(m) /\ owner_tid[m] \in {t, NoThread} /\ m = tgt[t]
    BY <2>0, <2>6 DEF HostInv, HostLock, TypesOver
  <2>2. \A k \in Mutexes : Probed(k)' <=> Probed(k)
    BY <1>3 DEF LockAcquired, Idle, Go, GoOn, Probed, Probing, HostInv, TypesOver
  <2>3. \A u \in Threads : (Probing(u) <=> mtx_table = u)'
    BY <1>3, <2>1 DEF LockAcquired, Enter, Given, Locking, Go, GoOn, Idle, Probing,
         HostInv, TypesOver
  <2>4. HostLock(m)'
    BY <1>3, <2>1, <2>2 DEF LockAcquired, Enter, Given, HostInv, HostLock, TypesOver
  <2>5. ASSUME NEW k \in Mutexes, k # m
        PROVE  HostLock(k)'
    <3>1. /\ owner_tid'[k] = owner_tid[k] /\ lock_count'[k] = lock_count[k]
          /\ csOwner'[k] = csOwner[k] /\ csDepth'[k] = csDepth[k]
          /\ mtx_table' = mtx_table /\ \A u \in Threads : holds'[u][k] = holds[u][k]
      BY <1>3, <2>1, <2>5 DEF LockAcquired, Enter, Given, TypesOver
    <3> QED BY <2>2, <3>1 DEF HostInv, HostLock
  <2> QED
    BY <2>3, <2>4, <2>5 DEF HostInv
<1>4. ASSUME LockGone(t), UNCHANGED condVars
      PROVE  HostInv'
  BY <1>4 DEF LockGone, Locking, Go, Idle, Owns, CanEnter, TypesOver, TargetInv,
          HostInv, HostLock, Targeting, Probing, Probed, Owned, mutexVars,
          slotVars, condVars
<1>5. ASSUME LockTimedOut(t), UNCHANGED condVars
      PROVE  HostInv'
  BY <1>5 DEF LockTimedOut, Go, Idle, Owns, CanEnter, TypesOver, TargetInv,
          HostInv, HostLock, Targeting, Probing, Probed, Owned, mutexVars,
          slotVars, condVars
<1>6. ASSUME NEW m \in Mutexes, TrylockAgain(t, m), UNCHANGED condVars
      PROVE  HostInv'
  BY <1>6 DEF TrylockAgain, Enter, Given, Idle, Owns, CanEnter, TypesOver,
          TargetInv, HostInv, HostLock, Targeting, Probing, Probed, Owned,
          mutexVars, slotVars, condVars
<1>7. ASSUME NEW m \in Mutexes, sys_mutex_trylock(t, m), UNCHANGED condVars
      PROVE  HostInv'
  <2>1. \A k \in Mutexes : Probed(k)' <=> Probed(k)
    BY <1>7 DEF sys_mutex_trylock, Idle, Go, GoOn, Probed, Probing, HostInv, TypesOver
  <2>2. \A u \in Threads : (Probing(u) <=> mtx_table = u)'
    BY <1>7 DEF sys_mutex_trylock, Idle, Go, GoOn, Probing, HostInv, TypesOver
  <2>3. \A k \in Mutexes : HostLock(k)'
    BY <1>7, <2>1 DEF sys_mutex_trylock, HostInv, HostLock, slotVars
  <2> QED BY <2>2, <2>3 DEF HostInv
<1>8. ASSUME TrylockAcquired(t), UNCHANGED condVars
      PROVE  HostInv'
  <2>0. PICK m \in Mutexes : m = tgt[t]
    BY <1>8 DEF TrylockAcquired, Locking, TargetInv, Targeting
  <2>6. ~Probed(m) /\ csOwner[m] \in {t, NoThread}
    BY <1>8, <2>0 DEF TrylockAcquired, Locking, CanEnter, Probed, Probing, Away,
         HostInv, HostLock, AwayInv
  <2>1. ~Probed(m) /\ owner_tid[m] \in {t, NoThread} /\ m = tgt[t]
    BY <2>0, <2>6 DEF HostInv, HostLock, TypesOver
  <2>2. \A k \in Mutexes : Probed(k)' <=> Probed(k)
    BY <1>8 DEF TrylockAcquired, Idle, Go, GoOn, Probed, Probing, HostInv, TypesOver
  <2>3. \A u \in Threads : (Probing(u) <=> mtx_table = u)'
    BY <1>8, <2>1 DEF TrylockAcquired, Enter, Given, Locking, Go, GoOn, Idle,
         Probing, HostInv, TypesOver
  <2>4. HostLock(m)'
    BY <1>8, <2>1, <2>2 DEF TrylockAcquired, Enter, Given, HostInv, HostLock, TypesOver
  <2>5. ASSUME NEW k \in Mutexes, k # m
        PROVE  HostLock(k)'
    <3>1. /\ owner_tid'[k] = owner_tid[k] /\ lock_count'[k] = lock_count[k]
          /\ csOwner'[k] = csOwner[k] /\ csDepth'[k] = csDepth[k]
          /\ mtx_table' = mtx_table /\ \A u \in Threads : holds'[u][k] = holds[u][k]
      BY <1>8, <2>1, <2>5 DEF TrylockAcquired, Enter, Given, TypesOver
    <3> QED BY <2>2, <3>1 DEF HostInv, HostLock
  <2> QED
    BY <2>3, <2>4, <2>5 DEF HostInv
<1>9. ASSUME TrylockRefused(t), UNCHANGED condVars
      PROVE  HostInv'
  BY <1>9 DEF TrylockRefused, Go, Idle, Owns, CanEnter, TypesOver, TargetInv,
          HostInv, HostLock, Targeting, Probing, Probed, Owned, mutexVars,
          slotVars, condVars
<1>10. ASSUME NEW m \in Mutexes, sys_mutex_unlock(t, m), UNCHANGED condVars
      PROVE  HostInv'
  <2>0. lock_count[m] > 0 /\ csOwner[m] = t
    BY <1>10 DEF sys_mutex_unlock, TypesOver, HostInv, HostLock
  <2>1. ~Probed(m) /\ lock_count[m] > 0 /\ csOwner[m] = t
    BY <1>10, <2>0 DEF sys_mutex_unlock, Idle, Probed, Probing, HostInv, HostLock
  <2>2. \A k \in Mutexes : Probed(k)' <=> Probed(k)
    BY <1>10 DEF sys_mutex_unlock, Idle, Go, GoOn, Probed, Probing, HostInv, TypesOver
  <2>3. \A u \in Threads : (Probing(u) <=> mtx_table = u)'
    BY <1>10, <2>1 DEF sys_mutex_unlock, Leave, Locking, Go, GoOn, Idle, Probing,
         HostInv, TypesOver
  <2>4. HostLock(m)'
    <3>1. csDepth[m] = lock_count[m] /\ lock_count[m] \in Int /\ owner_tid[m] = t
      BY <1>10, <2>1 DEF sys_mutex_unlock, HostInv, HostLock, TypesOver
    <3>2. CASE lock_count[m] = 1
      BY <1>10, <2>1, <2>2, <3>1, <3>2 DEF sys_mutex_unlock, Leave, HostInv,
           HostLock, TypesOver
    <3>3. CASE lock_count[m] > 1
      BY <1>10, <2>1, <2>2, <3>1, <3>3 DEF sys_mutex_unlock, Leave, HostInv,
           HostLock, TypesOver
    <3> QED BY <2>1, <3>1, <3>2, <3>3
  <2>5. ASSUME NEW k \in Mutexes, k # m
        PROVE  HostLock(k)'
    BY <1>10, <2>1, <2>2, <2>5 DEF sys_mutex_unlock, Leave, HostInv, HostLock, TypesOver
  <2> QED
    BY <2>3, <2>4, <2>5 DEF HostInv
<1>11. ASSUME NEW m \in Mutexes, sys_mutex_destroy(t, m), UNCHANGED condVars
      PROVE  HostInv'
  BY <1>11 DEF sys_mutex_destroy, Enter, GoOn, Go, Idle, Owns, CanEnter,
          TypesOver, TargetInv, HostInv, HostLock, Targeting, Probing, Probed,
          Owned, mutexVars, slotVars, condVars
<1>12. ASSUME DestroyBusy(t), UNCHANGED condVars
      PROVE  HostInv'
  BY <1>12, SMTT(20) DEF DestroyBusy, DestroyDone, Leave, Go, Idle, Owns, CanEnter,
          TypesOver, TargetInv, HostInv, HostLock, Targeting, Probing, Probed,
          Owned, mutexVars, slotVars, condVars
<1>13. ASSUME DestroyUnowned(t), UNCHANGED condVars
      PROVE  HostInv'
  BY <1>13 DEF DestroyUnowned, Go, Idle, Owns, CanEnter, TypesOver, TargetInv,
          HostInv, HostLock, Targeting, Probing, Probed, Owned, mutexVars,
          slotVars, condVars
<1>14. ASSUME DestroyBound(t), UNCHANGED condVars
      PROVE  HostInv'
  BY <1>14, SMTT(20) DEF DestroyBound, DestroyDone, Leave, Go, Idle, Owns, CanEnter,
          TypesOver, TargetInv, HostInv, HostLock, Targeting, Probing, Probed,
          Owned, mutexVars, slotVars, condVars
<1>15. ASSUME DestroyFreed(t), UNCHANGED condVars
      PROVE  HostInv'
  BY <1>15, SMTT(20) DEF DestroyFreed, DestroyDone, Leave, Go, Idle, Owns, CanEnter,
          TypesOver, TargetInv, HostInv, HostLock, Targeting, Probing, Probed,
          Owned, mutexVars, slotVars, condVars
<1>16. ASSUME NEW m \in Mutexes, sys_cond_create(t, m)
      PROVE  HostInv'
  BY <1>16 DEF sys_cond_create, sys_mutex_bind_cond, GoOn, Go, Idle, Owns,
          CanEnter, TypesOver, TargetInv, HostInv, HostLock, Targeting, Probing,
          Probed, Owned, mutexVars, slotVars, condVars
<1>17. ASSUME NEW c \in Conds, CondSlot(t, c)
      PROVE  HostInv'
  BY <1>17 DEF CondSlot, Go, Idle, Owns, CanEnter, TypesOver, TargetInv,
          HostInv, HostLock, Targeting, Probing, Probed, Owned, mutexVars,
          slotVars, condVars
<1>18. ASSUME CondTableFull(t)
      PROVE  HostInv'
  BY <1>18 DEF CondTableFull, Go, Idle, Owns, CanEnter, TypesOver, TargetInv,
          HostInv, HostLock, Targeting, Probing, Probed, Owned, mutexVars,
          slotVars, condVars
<1>19. ASSUME NEW c \in Conds, sys_cond_destroy(t, c)
      PROVE  HostInv'
  BY <1>19 DEF sys_cond_destroy, Acquirable, GoOn, Go, Idle, Owns, CanEnter,
          TypesOver, TargetInv, HostInv, HostLock, Targeting, Probing, Probed,
          Owned, mutexVars, slotVars, condVars
<1>20. ASSUME Unbind(t)
      PROVE  HostInv'
  BY <1>20 DEF Unbind, sys_mutex_unbind_cond, Go, Idle, Owns, CanEnter,
          TypesOver, TargetInv, HostInv, HostLock, Targeting, Probing, Probed,
          Owned, mutexVars, slotVars, condVars
<1>21. ASSUME NEW c \in Conds, NEW timed \in BOOLEAN, sys_cond_wait(t, c, timed)
      PROVE  HostInv'
  <2>0. PICK m \in Mutexes : m = c_mutex[c]
    BY <1>21 DEF sys_cond_wait, Acquirable, TargetInv
  <2>1. m = c_mutex[c] /\ ~Probed(m) /\ lock_count[m] > 0 /\ csOwner[m] = t
    BY <1>21, <2>0 DEF sys_cond_wait, Acquirable, Owns, Idle, Probed, Probing,
         TypesOver, TargetInv, HostInv, HostLock
  <2>2. \A k \in Mutexes : Probed(k)' <=> Probed(k)
    BY <1>21 DEF sys_cond_wait, Idle, Go, GoOn, Probed, Probing, HostInv, TypesOver
  <2>3. \A u \in Threads : (Probing(u) <=> mtx_table = u)'
    BY <1>21, <2>1 DEF sys_cond_wait, Leave, Locking, Go, GoOn, Idle, Probing,
         HostInv, TypesOver
  <2>4. HostLock(m)'
    BY <1>21, <2>1, <2>2 DEF sys_cond_wait, Leave, HostInv, HostLock, TypesOver
  <2>5. ASSUME NEW k \in Mutexes, k # m
        PROVE  HostLock(k)'
    BY <1>21, <2>1, <2>2, <2>5 DEF sys_cond_wait, Leave, HostInv, HostLock, TypesOver
  <2> QED
    BY <2>3, <2>4, <2>5 DEF HostInv
<1>22. ASSUME WaitSignalled(t)
      PROVE  HostInv'
  BY <1>22 DEF WaitSignalled, Waiting, Go, Idle, Owns, CanEnter, TypesOver,
          TargetInv, HostInv, HostLock, Targeting, Probing, Probed, Owned,
          mutexVars, slotVars, condVars
<1>23. ASSUME NEW r \in {"ETIMEDOUT", "EFAULT"}, WaitEnded(t, r)
      PROVE  HostInv'
  BY <1>23 DEF WaitEnded, Waiting, Go, Idle, Owns, CanEnter, TypesOver,
          TargetInv, HostInv, HostLock, Targeting, Probing, Probed, Owned,
          mutexVars, slotVars, condVars
<1>24. ASSUME Relock(t)
      PROVE  HostInv'
  <2>0. PICK m \in Mutexes : m = tgt[t]
    BY <1>24 DEF Relock, Locking, TargetInv, Targeting
  <2>6. ~Probed(m) /\ csOwner[m] \in {t, NoThread} /\ depth[t] > 0 /\ owner_tid[m] # t
    BY <1>24, <2>0 DEF Relock, Locking, CanEnter, Probed, Probing, Away, HostInv,
         HostLock, AwayInv
  <2>1. ~Probed(m) /\ owner_tid[m] \in {t, NoThread} /\ m = tgt[t] /\ depth[t] > 0 /\ owner_tid[m] # t
    BY <2>0, <2>6 DEF HostInv, HostLock, TypesOver
  <2>7. lock_count[m] = 0
    BY <1>24, <2>1 DEF HostInv, HostLock
  <2>2. \A k \in Mutexes : Probed(k)' <=> Probed(k)
    BY <1>24 DEF Relock, Idle, Go, GoOn, Probed, Probing, HostInv, TypesOver
  <2>3. \A u \in Threads : (Probing(u) <=> mtx_table = u)'
    BY <1>24, <2>1 DEF Relock, Enter, Locking, Go, GoOn, Idle, Probing, HostInv,
         TypesOver
  <2>4. HostLock(m)'
    BY <1>24, <2>1, <2>2 DEF Relock, Enter, HostInv, HostLock, TypesOver
  <2>5. ASSUME NEW k \in Mutexes, k # m
        PROVE  HostLock(k)'
    BY <1>24, <2>1, <2>2, <2>5 DEF Relock, Enter, HostInv, HostLock, TypesOver
  <2> QED
    BY <2>3, <2>4, <2>5 DEF HostInv
<1>25. ASSUME NEW c \in Conds, NEW all \in BOOLEAN, signal_cond(t, c, all)
      PROVE  HostInv'
  BY <1>25 DEF signal_cond, Acquirable, Go, Idle, Owns, CanEnter, TypesOver,
          TargetInv, HostInv, HostLock, Targeting, Probing, Probed, Owned,
          mutexVars, slotVars, condVars
<1>26. ASSUME SignalWaiter(t)
      PROVE  HostInv'
  BY <1>26 DEF SignalWaiter, Go, Idle, Owns, CanEnter, TypesOver, TargetInv,
          HostInv, HostLock, Targeting, Probing, Probed, Owned, mutexVars,
          slotVars, condVars
<1>27. ASSUME SignalEnd(t)
      PROVE  HostInv'
  BY <1>27 DEF SignalEnd, Go, Idle, Owns, CanEnter, TypesOver, TargetInv,
          HostInv, HostLock, Targeting, Probing, Probed, Owned, mutexVars,
          slotVars, condVars
<1> QED
  BY <1>1, <1>2, <1>3, <1>4, <1>5, <1>6, <1>7, <1>8, <1>9, <1>10, <1>11, <1>12,
     <1>13, <1>14, <1>15, <1>16, <1>17, <1>18, <1>19, <1>20, <1>21, <1>22,
     <1>23, <1>24, <1>25, <1>26, <1>27 DEF Step

(* Every action keeps a thread that waits or relocks off the mutex, with   *)
(* levels to take again.                                                   *)
LEMMA AwayStep ==
  ASSUME IInv, NEW t \in Threads, Step(t)
  PROVE  AwayInv'
<1> TypesOver(Int) /\ TargetInv /\ AwayInv /\ HostInv
  BY DEF IInv
<1> USE ThreadsAssumption
<1>1. ASSUME NEW m \in Mutexes, NEW rec \in BOOLEAN,
              sys_mutex_create(t, m, rec), UNCHANGED condVars
      PROVE  AwayInv'
  BY <1>1 DEF sys_mutex_create, Idle, TypesOver, AwayInv, TargetInv, Targeting,
          Away, Waiting, mutexVars, slotVars, condVars
<1>2. ASSUME NEW m \in Mutexes, NEW timed \in BOOLEAN,
              sys_mutex_lock(t, m, timed), UNCHANGED condVars
      PROVE  AwayInv'
  BY <1>2 DEF sys_mutex_lock, GoOn, Go, Idle, TypesOver, AwayInv, TargetInv,
          Targeting, Away, Waiting, mutexVars, slotVars, condVars
<1>3. ASSUME LockAcquired(t), UNCHANGED condVars
      PROVE  AwayInv'
  BY <1>3 DEF LockAcquired, Locking, Enter, Given, Go, Idle, TypesOver, AwayInv,
          TargetInv, Targeting, Away, Waiting, mutexVars, slotVars, condVars
<1>4. ASSUME LockGone(t), UNCHANGED condVars
      PROVE  AwayInv'
  BY <1>4 DEF LockGone, Locking, Go, Idle, TypesOver, AwayInv, TargetInv,
          Targeting, Away, Waiting, mutexVars, slotVars, condVars
<1>5. ASSUME LockTimedOut(t), UNCHANGED condVars
      PROVE  AwayInv'
  BY <1>5 DEF LockTimedOut, Go, Idle, TypesOver, AwayInv, TargetInv, Targeting,
          Away, Waiting, mutexVars, slotVars, condVars
<1>6. ASSUME NEW m \in Mutexes, TrylockAgain(t, m), UNCHANGED condVars
      PROVE  AwayInv'
  BY <1>6 DEF TrylockAgain, Enter, Given, Idle, TypesOver, AwayInv, TargetInv,
          Targeting, Away, Waiting, mutexVars, slotVars, condVars
<1>7. ASSUME NEW m \in Mutexes, sys_mutex_trylock(t, m), UNCHANGED condVars
      PROVE  AwayInv'
  BY <1>7 DEF sys_mutex_trylock, GoOn, Go, Idle, TypesOver, AwayInv, TargetInv,
          Targeting, Away, Waiting, mutexVars, slotVars, condVars
<1>8. ASSUME TrylockAcquired(t), UNCHANGED condVars
      PROVE  AwayInv'
  BY <1>8 DEF TrylockAcquired, Enter, Given, Go, Idle, TypesOver, AwayInv,
          TargetInv, Targeting, Away, Waiting, mutexVars, slotVars, condVars
<1>9. ASSUME TrylockRefused(t), UNCHANGED condVars
      PROVE  AwayInv'
  BY <1>9 DEF TrylockRefused, Go, Idle, TypesOver, AwayInv, TargetInv,
          Targeting, Away, Waiting, mutexVars, slotVars, condVars
<1>10. ASSUME NEW m \in Mutexes, sys_mutex_unlock(t, m), UNCHANGED condVars
      PROVE  AwayInv'
  BY <1>10 DEF sys_mutex_unlock, Leave, Idle, TypesOver, AwayInv, TargetInv,
          Targeting, Away, Waiting, mutexVars, slotVars, condVars
<1>11. ASSUME NEW m \in Mutexes, sys_mutex_destroy(t, m), UNCHANGED condVars
      PROVE  AwayInv'
  BY <1>11 DEF sys_mutex_destroy, Enter, GoOn, Go, Idle, TypesOver, AwayInv,
          TargetInv, Targeting, Away, Waiting, mutexVars, slotVars, condVars
<1>12. ASSUME DestroyBusy(t), UNCHANGED condVars
      PROVE  AwayInv'
  BY <1>12 DEF DestroyBusy, DestroyDone, Leave, Go, Idle, TypesOver, AwayInv,
          TargetInv, Targeting, Away, Waiting, mutexVars, slotVars, condVars
<1>13. ASSUME DestroyUnowned(t), UNCHANGED condVars
      PROVE  AwayInv'
  BY <1>13 DEF DestroyUnowned, Go, Idle, TypesOver, AwayInv, TargetInv,
          Targeting, Away, Waiting, mutexVars, slotVars, condVars
<1>14. ASSUME DestroyBound(t), UNCHANGED condVars
      PROVE  AwayInv'
  BY <1>14 DEF DestroyBound, DestroyDone, Leave, Go, Idle, TypesOver, AwayInv,
          TargetInv, Targeting, Away, Waiting, mutexVars, slotVars, condVars
<1>15. ASSUME DestroyFreed(t), UNCHANGED condVars
      PROVE  AwayInv'
  BY <1>15 DEF DestroyFreed, DestroyDone, Leave, Go, Idle, TypesOver, AwayInv,
          TargetInv, Targeting, Away, Waiting, mutexVars, slotVars, condVars
<1>16. ASSUME NEW m \in Mutexes, sys_cond_create(t, m)
      PROVE  AwayInv'
  BY <1>16 DEF sys_cond_create, sys_mutex_bind_cond, GoOn, Go, Idle, TypesOver,
          AwayInv, TargetInv, Targeting, Away, Waiting, mutexVars, slotVars,
          condVars
<1>17. ASSUME NEW c \in Conds, CondSlot(t, c)
      PROVE  AwayInv'
  BY <1>17 DEF CondSlot, Go, Idle, TypesOver, AwayInv, TargetInv, Targeting,
          Away, Waiting, mutexVars, slotVars, condVars
<1>18. ASSUME CondTableFull(t)
      PROVE  AwayInv'
  BY <1>18 DEF CondTableFull, Go, Idle, TypesOver, AwayInv, TargetInv,
          Targeting, Away, Waiting, mutexVars, slotVars, condVars
<1>19. ASSUME NEW c \in Conds, sys_cond_destroy(t, c)
      PROVE  AwayInv'
  BY <1>19 DEF sys_cond_destroy, Acquirable, GoOn, Go, Idle, TypesOver, AwayInv,
          TargetInv, Targeting, Away, Waiting, mutexVars, slotVars, condVars
<1>20. ASSUME Unbind(t)
      PROVE  AwayInv'
  BY <1>20 DEF Unbind, sys_mutex_unbind_cond, Go, Idle, TypesOver, AwayInv,
          TargetInv, Targeting, Away, Waiting, mutexVars, slotVars, condVars
<1>21. ASSUME NEW c \in Conds, NEW timed \in BOOLEAN, sys_cond_wait(t, c, timed)
      PROVE  AwayInv'
  <2>1. PICK m \in Mutexes : m = c_mutex[c]
    BY <1>21 DEF sys_cond_wait, Acquirable, TargetInv
  <2>2. /\ tgt' = [tgt EXCEPT ![t] = m] /\ depth' = [depth EXCEPT ![t] = lock_count[m]]
        /\ owner_tid' = [owner_tid EXCEPT ![m] = NoThread]
        /\ lock_count[m] > 0 /\ lock_count[m] \in Int
        /\ \A u \in Threads : u # t => pc'[u] = pc[u]
    BY <1>21, <2>1 DEF sys_cond_wait, Owns, GoOn, Go, TypesOver
  <2>3. ASSUME NEW u \in Threads, u # t
        PROVE  (depth[u] >= 0 /\ (Away(u) => depth[u] > 0 /\ owner_tid[tgt[u]] # u))'
    <3>1. depth'[u] = depth[u] /\ tgt'[u] = tgt[u] /\ (Away(u)' <=> Away(u))
      BY <2>2, <2>3 DEF Away, Waiting, TypesOver
    <3>2. Away(u) => tgt[u] \in Mutexes
      BY DEF Away, Waiting, TargetInv, Targeting
    <3>3. Away(u) => owner_tid'[tgt[u]] # u
      BY <2>2, <3>2, ThreadsAssumption DEF AwayInv, TypesOver
    <3> QED BY <3>1, <3>3 DEF AwayInv
  <2>4. (depth[t] >= 0 /\ (Away(t) => depth[t] > 0 /\ owner_tid[tgt[t]] # t))'
    BY <2>2 DEF TypesOver
  <2> QED BY <2>3, <2>4 DEF AwayInv
<1>22. ASSUME WaitSignalled(t)
      PROVE  AwayInv'
  BY <1>22 DEF WaitSignalled, Waiting, Go, Idle, TypesOver, AwayInv, TargetInv,
          Targeting, Away, mutexVars, slotVars, condVars
<1>23. ASSUME NEW r \in {"ETIMEDOUT", "EFAULT"}, WaitEnded(t, r)
      PROVE  AwayInv'
  BY <1>23 DEF WaitEnded, Waiting, Go, Idle, TypesOver, AwayInv, TargetInv,
          Targeting, Away, mutexVars, slotVars, condVars
<1>24. ASSUME Relock(t)
      PROVE  AwayInv'
  BY <1>24 DEF Relock, Enter, Go, Idle, TypesOver, AwayInv, TargetInv,
          Targeting, Away, Waiting, mutexVars, slotVars, condVars
<1>25. ASSUME NEW c \in Conds, NEW all \in BOOLEAN, signal_cond(t, c, all)
      PROVE  AwayInv'
  BY <1>25 DEF signal_cond, Acquirable, Go, Idle, TypesOver, AwayInv, TargetInv,
          Targeting, Away, Waiting, mutexVars, slotVars, condVars
<1>26. ASSUME SignalWaiter(t)
      PROVE  AwayInv'
  BY <1>26 DEF SignalWaiter, Go, Idle, TypesOver, AwayInv, TargetInv, Targeting,
          Away, Waiting, mutexVars, slotVars, condVars
<1>27. ASSUME SignalEnd(t)
      PROVE  AwayInv'
  BY <1>27 DEF SignalEnd, Go, Idle, TypesOver, AwayInv, TargetInv, Targeting,
          Away, Waiting, mutexVars, slotVars, condVars
<1> QED
  BY <1>1, <1>2, <1>3, <1>4, <1>5, <1>6, <1>7, <1>8, <1>9, <1>10, <1>11, <1>12,
     <1>13, <1>14, <1>15, <1>16, <1>17, <1>18, <1>19, <1>20, <1>21, <1>22,
     <1>23, <1>24, <1>25, <1>26, <1>27 DEF Step

(* Every action keeps whatever is in use live.                             *)
LEMMA LiveStep ==
  ASSUME IInv, NEW t \in Threads, Step(t)
  PROVE  LiveInv'
<1> TypesOver(Int) /\ TargetInv /\ LiveInv
  BY DEF IInv
<1> USE ThreadsAssumption
<1>1. ASSUME NEW m \in Mutexes, NEW rec \in BOOLEAN,
              sys_mutex_create(t, m, rec), UNCHANGED condVars
      PROVE  LiveInv'
  BY <1>1 DEF sys_mutex_create, Idle, TypesOver, LiveInv, TargetInv, Targeting,
          Away, Waiting, Probing, mutexVars, slotVars, condVars
<1>2. ASSUME NEW m \in Mutexes, NEW timed \in BOOLEAN,
              sys_mutex_lock(t, m, timed), UNCHANGED condVars
      PROVE  LiveInv'
  BY <1>2 DEF sys_mutex_lock, GoOn, Go, Idle, TypesOver, LiveInv, TargetInv,
          Targeting, Away, Waiting, Probing, mutexVars, slotVars, condVars
<1>3. ASSUME LockAcquired(t), UNCHANGED condVars
      PROVE  LiveInv'
  BY <1>3 DEF LockAcquired, Locking, Enter, Given, Go, Idle, TypesOver, LiveInv,
          TargetInv, Targeting, Away, Waiting, Probing, mutexVars, slotVars,
          condVars
<1>4. ASSUME LockGone(t), UNCHANGED condVars
      PROVE  LiveInv'
  BY <1>4 DEF LockGone, Locking, Go, Idle, TypesOver, LiveInv, TargetInv,
          Targeting, Away, Waiting, Probing, mutexVars, slotVars, condVars
<1>5. ASSUME LockTimedOut(t), UNCHANGED condVars
      PROVE  LiveInv'
  BY <1>5 DEF LockTimedOut, Go, Idle, TypesOver, LiveInv, TargetInv, Targeting,
          Away, Waiting, Probing, mutexVars, slotVars, condVars
<1>6. ASSUME NEW m \in Mutexes, TrylockAgain(t, m), UNCHANGED condVars
      PROVE  LiveInv'
  BY <1>6 DEF TrylockAgain, Enter, Given, Idle, TypesOver, LiveInv, TargetInv,
          Targeting, Away, Waiting, Probing, mutexVars, slotVars, condVars
<1>7. ASSUME NEW m \in Mutexes, sys_mutex_trylock(t, m), UNCHANGED condVars
      PROVE  LiveInv'
  BY <1>7 DEF sys_mutex_trylock, GoOn, Go, Idle, TypesOver, LiveInv, TargetInv,
          Targeting, Away, Waiting, Probing, mutexVars, slotVars, condVars
<1>8. ASSUME TrylockAcquired(t), UNCHANGED condVars
      PROVE  LiveInv'
  BY <1>8 DEF TrylockAcquired, Enter, Given, Go, Idle, TypesOver, LiveInv,
          TargetInv, Targeting, Away, Waiting, Probing, mutexVars, slotVars,
          condVars
<1>9. ASSUME TrylockRefused(t), UNCHANGED condVars
      PROVE  LiveInv'
  BY <1>9 DEF TrylockRefused, Go, Idle, TypesOver, LiveInv, TargetInv,
          Targeting, Away, Waiting, Probing, mutexVars, slotVars, condVars
<1>10. ASSUME NEW m \in Mutexes, sys_mutex_unlock(t, m), UNCHANGED condVars
      PROVE  LiveInv'
  BY <1>10 DEF sys_mutex_unlock, Leave, Idle, TypesOver, LiveInv, TargetInv,
          Targeting, Away, Waiting, Probing, mutexVars, slotVars, condVars
<1>11. ASSUME NEW m \in Mutexes, sys_mutex_destroy(t, m), UNCHANGED condVars
      PROVE  LiveInv'
  BY <1>11 DEF sys_mutex_destroy, Enter, GoOn, Go, Idle, TypesOver, LiveInv,
          TargetInv, Targeting, Away, Waiting, Probing, mutexVars, slotVars,
          condVars
<1>12. ASSUME DestroyBusy(t), UNCHANGED condVars
      PROVE  LiveInv'
  BY <1>12 DEF DestroyBusy, DestroyDone, Leave, Go, Idle, TypesOver, LiveInv,
          TargetInv, Targeting, Away, Waiting, Probing, mutexVars, slotVars,
          condVars
<1>13. ASSUME DestroyUnowned(t), UNCHANGED condVars
      PROVE  LiveInv'
  BY <1>13 DEF DestroyUnowned, Go, Idle, TypesOver, LiveInv, TargetInv,
          Targeting, Away, Waiting, Probing, mutexVars, slotVars, condVars
<1>14. ASSUME DestroyBound(t), UNCHANGED condVars
      PROVE  LiveInv'
  BY <1>14 DEF DestroyBound, DestroyDone, Leave, Go, Idle, TypesOver, LiveInv,
          TargetInv, Targeting, Away, Waiting, Probing, mutexVars, slotVars,
          condVars
<1>15. ASSUME DestroyFreed(t), UNCHANGED condVars
      PROVE  LiveInv'
  <2>1. PICK m \in Mutexes : m = tgt[t]
    BY <1>15 DEF DestroyFreed, TargetInv, Targeting
  <2>2. lock_count[m] = 0 /\ ~InUse(m) /\ Binding(m) = {}
    BY <1>15, <2>1, FreedUnused
  <2>3. \A u \in Threads : Probing(u) => u = t
    BY <1>15 DEF DestroyFreed, Probing, HostInv, IInv
  <2>4. /\ active' = [active EXCEPT ![m] = FALSE] /\ lock_count' = lock_count
        /\ pc' = [pc EXCEPT ![t] = "idle"] /\ tgt' = tgt
        /\ c_active' = c_active /\ c_mutex' = c_mutex
    BY <1>15, <2>1 DEF DestroyFreed, DestroyDone, Go, condVars
  <2>5. (\A k \in Mutexes : lock_count[k] > 0 => active[k])'
    BY <2>2, <2>4 DEF LiveInv, TypesOver
  <2>6. (\A c \in Conds : c_active[c] => active[c_mutex[c]])'
    BY <2>2, <2>4 DEF LiveInv, TypesOver, TargetInv, InUse
  <2>7. ASSUME NEW u \in Threads,
               (Away(u) \/ Probing(u) \/ pc[u] \in {"c_slot", "unbind"})'
        PROVE  active[tgt[u]]'
    <3>1. u # t /\ (Away(u) \/ pc[u] \in {"c_slot", "unbind"})
      BY <2>3, <2>4, <2>7 DEF Away, Waiting, Probing, TypesOver
    <3>2. tgt[u] # m
      BY <2>2, <3>1 DEF InUse, Away, Binding
    <3> QED BY <2>4, <3>1, <3>2 DEF LiveInv, TypesOver, TargetInv, Targeting, Away, Waiting
  <2> QED BY <2>5, <2>6, <2>7 DEF LiveInv
<1>16. ASSUME NEW m \in Mutexes, sys_cond_create(t, m)
      PROVE  LiveInv'
  BY <1>16 DEF sys_cond_create, sys_mutex_bind_cond, GoOn, Go, Idle, TypesOver,
          LiveInv, TargetInv, Targeting, Away, Waiting, Probing, mutexVars,
          slotVars, condVars
<1>17. ASSUME NEW c \in Conds, CondSlot(t, c)
      PROVE  LiveInv'
  BY <1>17 DEF CondSlot, Go, Idle, TypesOver, LiveInv, TargetInv, Targeting,
          Away, Waiting, Probing, mutexVars, slotVars, condVars
<1>18. ASSUME CondTableFull(t)
      PROVE  LiveInv'
  BY <1>18 DEF CondTableFull, Go, Idle, TypesOver, LiveInv, TargetInv,
          Targeting, Away, Waiting, Probing, mutexVars, slotVars, condVars
<1>19. ASSUME NEW c \in Conds, sys_cond_destroy(t, c)
      PROVE  LiveInv'
  BY <1>19 DEF sys_cond_destroy, Acquirable, GoOn, Go, Idle, TypesOver, LiveInv,
          TargetInv, Targeting, Away, Waiting, Probing, mutexVars, slotVars,
          condVars
<1>20. ASSUME Unbind(t)
      PROVE  LiveInv'
  BY <1>20 DEF Unbind, sys_mutex_unbind_cond, Go, Idle, TypesOver, LiveInv,
          TargetInv, Targeting, Away, Waiting, Probing, mutexVars, slotVars,
          condVars
<1>21. ASSUME NEW c \in Conds, NEW timed \in BOOLEAN, sys_cond_wait(t, c, timed)
      PROVE  LiveInv'
  BY <1>21 DEF sys_cond_wait, Acquirable, Owns, Leave, GoOn, Go, Idle,
          TypesOver, LiveInv, TargetInv, Targeting, Away, Waiting, Probing,
          mutexVars, slotVars, condVars
<1>22. ASSUME WaitSignalled(t)
      PROVE  LiveInv'
  BY <1>22 DEF WaitSignalled, Waiting, Go, Idle, TypesOver, LiveInv, TargetInv,
          Targeting, Away, Probing, mutexVars, slotVars, condVars
<1>23. ASSUME NEW r \in {"ETIMEDOUT", "EFAULT"}, WaitEnded(t, r)
      PROVE  LiveInv'
  BY <1>23 DEF WaitEnded, Waiting, Go, Idle, TypesOver, LiveInv, TargetInv,
          Targeting, Away, Probing, mutexVars, slotVars, condVars
<1>24. ASSUME Relock(t)
      PROVE  LiveInv'
  BY <1>24 DEF Relock, Enter, Go, Idle, TypesOver, LiveInv, TargetInv,
          Targeting, Away, Waiting, Probing, mutexVars, slotVars, condVars
<1>25. ASSUME NEW c \in Conds, NEW all \in BOOLEAN, signal_cond(t, c, all)
      PROVE  LiveInv'
  BY <1>25 DEF signal_cond, Acquirable, Go, Idle, TypesOver, LiveInv, TargetInv,
          Targeting, Away, Waiting, Probing, mutexVars, slotVars, condVars
<1>26. ASSUME SignalWaiter(t)
      PROVE  LiveInv'
  BY <1>26 DEF SignalWaiter, Go, Idle, TypesOver, LiveInv, TargetInv, Targeting,
          Away, Waiting, Probing, mutexVars, slotVars, condVars
<1>27. ASSUME SignalEnd(t)
      PROVE  LiveInv'
  BY <1>27 DEF SignalEnd, Go, Idle, TypesOver, LiveInv, TargetInv, Targeting,
          Away, Waiting, Probing, mutexVars, slotVars, condVars
<1> QED
  BY <1>1, <1>2, <1>3, <1>4, <1>5, <1>6, <1>7, <1>8, <1>9, <1>10, <1>11, <1>12,
     <1>13, <1>14, <1>15, <1>16, <1>17, <1>18, <1>19, <1>20, <1>21, <1>22,
     <1>23, <1>24, <1>25, <1>26, <1>27 DEF Step

(* The cond lists and what they depend on are as they were. *)
QueueSame ==
  /\ UNCHANGED <<waiters, c_active, c_mutex>>
  /\ \A u \in Threads : /\ Parked(u)' <=> Parked(u)
                        /\ Parked(u) => cnd'[u] = cnd[u] /\ tgt'[u] = tgt[u]

(* A thread that is not parked before or after the step leaves the cond's  *)
(* lists as they are.                                                      *)
LEMMA QuietStep ==
  ASSUME TypesOver(Int), NEW t \in Threads, ~Waiting(t), ~Waiting(t)',
         \A u \in Threads : u # t => pc'[u] = pc[u] /\ tgt'[u] = tgt[u] /\ cnd'[u] = cnd[u],
         UNCHANGED <<waiters, c_active, c_mutex, signalled>>
  PROVE  QueueSame
<1>1. ASSUME NEW u \in Threads
      PROVE  /\ Parked(u)' <=> Parked(u)
             /\ Parked(u) => cnd'[u] = cnd[u] /\ tgt'[u] = tgt[u]
  <2>1. CASE u = t
    BY <2>1 DEF Parked
  <2>2. CASE u # t
    BY <2>2 DEF Parked, Waiting
  <2> QED BY <2>1, <2>2
<1> QED BY <1>1 DEF QueueSame, Parked, Waiting

(* One record leaves a cond's list because its thread stops being parked. *)
LEMMA QueueTakesOut ==
  ASSUME TypesOver(Int), TargetInv, QueueInv,
         NEW c \in Conds, NEW i \in DOMAIN waiters[c], NEW r \in Seq(Threads),
         TakenOut(r, waiters[c], i), waiters' = [waiters EXCEPT ![c] = r],
         NEW w \in Threads, w = waiters[c][i], ~Parked(w)',
         \A u \in Threads : u # w => (Parked(u)' <=> Parked(u)),
         UNCHANGED <<c_active, c_mutex, cnd, tgt>>
  PROVE  QueueInv'
<1>1. /\ waiters'[c] = r /\ \A k \in Conds : k # c => waiters'[k] = waiters[k]
      /\ \A k \in Conds : \A j \in DOMAIN waiters[k] : waiters[k][j] \in Threads
      /\ cnd[w] = c
  BY DEF TypesOver, QueueInv
<1>2. ASSUME NEW k \in Conds, NEW j \in DOMAIN waiters'[k]
      PROVE  \E l \in DOMAIN waiters[k] : waiters'[k][j] = waiters[k][l] /\ waiters[k][l] # w
  <2>1. CASE k = c
    BY <1>1, <2>1 DEF QueueInv, TakenOut
  <2>2. CASE k # c
    BY <1>1, <2>2 DEF QueueInv
  <2> QED BY <2>1, <2>2
<1>3. (\A k \in Conds : \A j, l \in DOMAIN waiters[k] :
         waiters[k][j] = waiters[k][l] => j = l)'
  <2>1. ASSUME NEW k \in Conds, NEW j \in DOMAIN waiters'[k], NEW l \in DOMAIN waiters'[k],
               waiters'[k][j] = waiters'[k][l]
        PROVE  j = l
    <3>1. CASE k = c
      BY <1>1, <2>1, <3>1 DEF QueueInv, TakenOut
    <3>2. CASE k # c
      BY <1>1, <2>1, <3>2 DEF QueueInv
    <3> QED BY <3>1, <3>2
  <2> QED BY <2>1
<1>4. (\A k \in Conds : \A j \in DOMAIN waiters[k] :
         Parked(waiters[k][j]) /\ cnd[waiters[k][j]] = k)'
  <2>1. ASSUME NEW k \in Conds, NEW j \in DOMAIN waiters'[k]
        PROVE  Parked(waiters[k][j])' /\ cnd'[waiters'[k][j]] = k
    <3>1. PICK l \in DOMAIN waiters[k] : waiters'[k][j] = waiters[k][l] /\ waiters[k][l] # w
      BY <1>2
    <3>2. PICK u \in Threads : u = waiters[k][l] /\ u # w /\ u = waiters'[k][j]
      BY <1>1, <3>1
    <3>3. Parked(u) /\ cnd[u] = k
      BY <3>1, <3>2 DEF QueueInv
    <3>4. Parked(u)'
      BY <3>2, <3>3
    <3> QED BY <3>2, <3>3, <3>4 DEF Parked, Waiting
  <2> QED BY <2>1 DEF Parked, Waiting
<1>5. ASSUME NEW u \in Threads, Parked(u)'
      PROVE  (/\ \E j \in DOMAIN waiters[cnd[u]] : waiters[cnd[u]][j] = u
              /\ c_active[cnd[u]] /\ c_mutex[cnd[u]] = tgt[u])'
  <2>1. u # w /\ Parked(u) /\ cnd[u] \in Conds
    BY <1>5 DEF TargetInv, Parked
  <2>2. PICK j \in DOMAIN waiters[cnd[u]] : waiters[cnd[u]][j] = u
    BY <2>1 DEF QueueInv
  <2>3. \E l \in DOMAIN waiters'[cnd[u]] : waiters'[cnd[u]][l] = u
    <3>1. CASE cnd[u] = c
      BY <1>1, <2>1, <2>2, <3>1 DEF TakenOut
    <3>2. CASE cnd[u] # c
      BY <1>1, <2>1, <2>2, <3>2
    <3> QED BY <3>1, <3>2
  <2> QED BY <2>1, <2>3 DEF QueueInv
<1> QED BY <1>3, <1>4, <1>5 DEF QueueInv

(* Every action keeps a cond's list the list of its unsignalled waiters.   *)
LEMMA QueueStep ==
  ASSUME IInv, NEW t \in Threads, Step(t)
  PROVE  QueueInv'
<1> TypesOver(Int) /\ TargetInv /\ QueueInv
  BY DEF IInv
<1>1. ASSUME NEW m \in Mutexes, NEW rec \in BOOLEAN,
              sys_mutex_create(t, m, rec), UNCHANGED condVars
      PROVE  QueueSame
  BY <1>1 DEF sys_mutex_create, Idle, TypesOver, TargetInv, QueueSame, Parked,
          Waiting, mutexVars, slotVars, condVars
<1>2. ASSUME NEW m \in Mutexes, NEW timed \in BOOLEAN,
              sys_mutex_lock(t, m, timed), UNCHANGED condVars
      PROVE  QueueSame
  <2>1. ~Waiting(t) /\ ~Waiting(t)'
    BY <1>2 DEF sys_mutex_lock, Idle, Go, GoOn, Waiting, TypesOver
  <2>2. /\ \A u \in Threads : u # t => pc'[u] = pc[u] /\ tgt'[u] = tgt[u] /\ cnd'[u] = cnd[u]
        /\ UNCHANGED <<waiters, c_active, c_mutex, signalled>>
    BY <1>2 DEF sys_mutex_lock, Go, GoOn, TypesOver, condVars
  <2> QED BY <2>1, <2>2, QuietStep
<1>3. ASSUME LockAcquired(t), UNCHANGED condVars
      PROVE  QueueSame
  BY <1>3 DEF LockAcquired, Locking, Enter, Given, Go, Idle, TypesOver,
          TargetInv, QueueSame, Parked, Waiting, mutexVars, slotVars, condVars
<1>4. ASSUME LockGone(t), UNCHANGED condVars
      PROVE  QueueSame
  BY <1>4 DEF LockGone, Locking, Go, Idle, TypesOver, TargetInv, QueueSame,
          Parked, Waiting, mutexVars, slotVars, condVars
<1>5. ASSUME LockTimedOut(t), UNCHANGED condVars
      PROVE  QueueSame
  BY <1>5 DEF LockTimedOut, Go, Idle, TypesOver, TargetInv, QueueSame, Parked,
          Waiting, mutexVars, slotVars, condVars
<1>6. ASSUME NEW m \in Mutexes, TrylockAgain(t, m), UNCHANGED condVars
      PROVE  QueueSame
  BY <1>6 DEF TrylockAgain, Enter, Given, Idle, TypesOver, TargetInv, QueueSame,
          Parked, Waiting, mutexVars, slotVars, condVars
<1>7. ASSUME NEW m \in Mutexes, sys_mutex_trylock(t, m), UNCHANGED condVars
      PROVE  QueueSame
  <2>1. ~Waiting(t) /\ ~Waiting(t)'
    BY <1>7 DEF sys_mutex_trylock, Idle, Go, GoOn, Waiting, TypesOver
  <2>2. /\ \A u \in Threads : u # t => pc'[u] = pc[u] /\ tgt'[u] = tgt[u] /\ cnd'[u] = cnd[u]
        /\ UNCHANGED <<waiters, c_active, c_mutex, signalled>>
    BY <1>7 DEF sys_mutex_trylock, Go, GoOn, TypesOver, condVars
  <2> QED BY <2>1, <2>2, QuietStep
<1>8. ASSUME TrylockAcquired(t), UNCHANGED condVars
      PROVE  QueueSame
  BY <1>8 DEF TrylockAcquired, Enter, Given, Go, Idle, TypesOver, TargetInv,
          QueueSame, Parked, Waiting, mutexVars, slotVars, condVars
<1>9. ASSUME TrylockRefused(t), UNCHANGED condVars
      PROVE  QueueSame
  BY <1>9 DEF TrylockRefused, Go, Idle, TypesOver, TargetInv, QueueSame, Parked,
          Waiting, mutexVars, slotVars, condVars
<1>10. ASSUME NEW m \in Mutexes, sys_mutex_unlock(t, m), UNCHANGED condVars
      PROVE  QueueSame
  BY <1>10 DEF sys_mutex_unlock, Leave, Idle, TypesOver, TargetInv, QueueSame,
          Parked, Waiting, mutexVars, slotVars, condVars
<1>11. ASSUME NEW m \in Mutexes, sys_mutex_destroy(t, m), UNCHANGED condVars
      PROVE  QueueSame
  <2>1. ~Waiting(t) /\ ~Waiting(t)'
    BY <1>11 DEF sys_mutex_destroy, Idle, Go, GoOn, Waiting, TypesOver
  <2>2. /\ \A u \in Threads : u # t => pc'[u] = pc[u] /\ tgt'[u] = tgt[u] /\ cnd'[u] = cnd[u]
        /\ UNCHANGED <<waiters, c_active, c_mutex, signalled>>
    BY <1>11 DEF sys_mutex_destroy, Go, GoOn, TypesOver, condVars
  <2> QED BY <2>1, <2>2, QuietStep
<1>12. ASSUME DestroyBusy(t), UNCHANGED condVars
      PROVE  QueueSame
  BY <1>12 DEF DestroyBusy, DestroyDone, Leave, Go, Idle, TypesOver, TargetInv,
          QueueSame, Parked, Waiting, mutexVars, slotVars, condVars
<1>13. ASSUME DestroyUnowned(t), UNCHANGED condVars
      PROVE  QueueSame
  BY <1>13 DEF DestroyUnowned, Go, Idle, TypesOver, TargetInv, QueueSame,
          Parked, Waiting, mutexVars, slotVars, condVars
<1>14. ASSUME DestroyBound(t), UNCHANGED condVars
      PROVE  QueueSame
  BY <1>14 DEF DestroyBound, DestroyDone, Leave, Go, Idle, TypesOver, TargetInv,
          QueueSame, Parked, Waiting, mutexVars, slotVars, condVars
<1>15. ASSUME DestroyFreed(t), UNCHANGED condVars
      PROVE  QueueSame
  BY <1>15 DEF DestroyFreed, DestroyDone, Leave, Go, Idle, TypesOver, TargetInv,
          QueueSame, Parked, Waiting, mutexVars, slotVars, condVars
<1>16. ASSUME NEW m \in Mutexes, sys_cond_create(t, m)
      PROVE  QueueSame
  <2>1. ~Waiting(t) /\ ~Waiting(t)'
    BY <1>16 DEF sys_cond_create, Idle, Go, GoOn, Waiting, TypesOver
  <2>2. /\ \A u \in Threads : u # t => pc'[u] = pc[u] /\ tgt'[u] = tgt[u] /\ cnd'[u] = cnd[u]
        /\ UNCHANGED <<waiters, c_active, c_mutex, signalled>>
    BY <1>16 DEF sys_cond_create, Go, GoOn, TypesOver, condVars
  <2> QED BY <2>1, <2>2, QuietStep
<1>17. ASSUME NEW c \in Conds, CondSlot(t, c)
      PROVE  QueueInv'
  <2>1. UNCHANGED <<cnd, tgt, signalled>> /\ \A u \in Threads : Parked(u)' <=> Parked(u)
    BY <1>17 DEF CondSlot, Go, Parked, Waiting, TypesOver
  <2>2. \A u \in Threads : Parked(u) => cnd[u] \in Conds /\ cnd[u] # c
    BY <1>17 DEF CondSlot, QueueInv, Parked, TargetInv
  <2>3. \A k \in Conds : k # c => /\ waiters'[k] = waiters[k]
                                 /\ c_active'[k] = c_active[k] /\ c_mutex'[k] = c_mutex[k]
    BY <1>17 DEF CondSlot, TypesOver
  <2>4. waiters'[c] = <<>>
    BY <1>17 DEF CondSlot, TypesOver
  <2>5. ASSUME NEW k \in Conds, NEW i \in DOMAIN waiters'[k]
        PROVE  /\ k # c /\ waiters'[k] = waiters[k] /\ waiters[k][i] \in Threads
               /\ Parked(waiters[k][i])' /\ cnd'[waiters[k][i]] = k
    <3>1. k # c /\ waiters'[k] = waiters[k] /\ waiters[k][i] \in Threads
      BY <2>3, <2>4 DEF TypesOver
    <3>2. PICK u \in Threads : u = waiters[k][i]
      BY <3>1
    <3>3. Parked(u) /\ cnd[u] = k
      BY <3>1, <3>2 DEF QueueInv
    <3> QED BY <2>1, <3>1, <3>2, <3>3 DEF Parked, Waiting
  <2>6. (\A k \in Conds : \A i, j \in DOMAIN waiters[k] :
           waiters[k][i] = waiters[k][j] => i = j)'
    BY <2>5 DEF QueueInv
  <2>7. (\A k \in Conds : \A i \in DOMAIN waiters[k] :
           Parked(waiters[k][i]) /\ cnd[waiters[k][i]] = k)'
    BY <2>5 DEF Parked, Waiting
  <2>8. (\A u \in Threads : Parked(u) =>
           /\ \E i \in DOMAIN waiters[cnd[u]] : waiters[cnd[u]][i] = u
           /\ c_active[cnd[u]] /\ c_mutex[cnd[u]] = tgt[u])'
    BY <2>1, <2>2, <2>3 DEF QueueInv
  <2> QED BY <2>6, <2>7, <2>8 DEF QueueInv
<1>18. ASSUME CondTableFull(t)
      PROVE  QueueSame
  BY <1>18 DEF CondTableFull, Go, Idle, TypesOver, TargetInv, QueueSame, Parked,
          Waiting, mutexVars, slotVars, condVars
<1>19. ASSUME NEW c \in Conds, sys_cond_destroy(t, c)
      PROVE  QueueInv'
  <2>1. ~Waiting(t) /\ ~Waiting(t)'
    BY <1>19 DEF sys_cond_destroy, Idle, Go, GoOn, Waiting, TypesOver
  <2>2. /\ UNCHANGED <<waiters, c_mutex, cnd, signalled>>
        /\ \A u \in Threads : u # t => pc'[u] = pc[u] /\ tgt'[u] = tgt[u]
        /\ \A k \in Conds : k # c => c_active'[k] = c_active[k]
    BY <1>19 DEF sys_cond_destroy, Go, GoOn, TypesOver
  <2>3. ASSUME NEW u \in Threads
        PROVE  /\ Parked(u)' <=> Parked(u)
               /\ Parked(u) => tgt'[u] = tgt[u] /\ cnd[u] \in Conds /\ cnd[u] # c
    <3>1. CASE u = t
      BY <2>1, <3>1 DEF Parked
    <3>2. CASE u # t
      BY <1>19, <2>2, <3>2 DEF sys_cond_destroy, Parked, Waiting, QueueInv, TargetInv
    <3> QED BY <3>1, <3>2
  <2> QED BY <2>2, <2>3 DEF QueueInv, TypesOver
<1>20. ASSUME Unbind(t)
      PROVE  QueueSame
  BY <1>20 DEF Unbind, sys_mutex_unbind_cond, Go, Idle, TypesOver, TargetInv,
          QueueSame, Parked, Waiting, mutexVars, slotVars, condVars
<1>21. ASSUME NEW c \in Conds, NEW timed \in BOOLEAN, sys_cond_wait(t, c, timed)
      PROVE  QueueInv'
  <2>1. /\ ~Parked(t) /\ Parked(t)' /\ cnd'[t] = c /\ tgt'[t] = c_mutex[c]
        /\ c_active[c] /\ UNCHANGED <<c_active, c_mutex>>
        /\ waiters' = [waiters EXCEPT ![c] = Append(@, t)]
    BY <1>21 DEF sys_cond_wait, Acquirable, Idle, Go, GoOn, Parked, Waiting, TypesOver
  <2>2. \A u \in Threads : u # t => /\ Parked(u)' <=> Parked(u)
                                   /\ cnd'[u] = cnd[u] /\ tgt'[u] = tgt[u]
    BY <1>21 DEF sys_cond_wait, Go, GoOn, Parked, Waiting, TypesOver
  <2>3. /\ DOMAIN waiters'[c] = 1 .. Len(waiters[c]) + 1
        /\ waiters'[c][Len(waiters[c]) + 1] = t
        /\ DOMAIN waiters[c] = 1 .. Len(waiters[c]) /\ Len(waiters[c]) \in Nat
        /\ \A i \in DOMAIN waiters[c] : waiters'[c][i] = waiters[c][i]
        /\ \A k \in Conds : k # c => waiters'[k] = waiters[k]
        /\ \A k \in Conds : \A i \in DOMAIN waiters[k] : waiters[k][i] \in Threads
    BY <2>1, AppendProperties DEF TypesOver
  <2>4. \A k \in Conds : \A i \in DOMAIN waiters[k] :
          waiters[k][i] # t /\ Parked(waiters[k][i]) /\ cnd[waiters[k][i]] = k
    BY <2>1 DEF QueueInv
  <2>5. (\A k \in Conds : \A i, j \in DOMAIN waiters[k] :
           waiters[k][i] = waiters[k][j] => i = j)'
    BY <2>3, <2>4, SMTT(20) DEF QueueInv
  <2>6. (\A k \in Conds : \A i \in DOMAIN waiters[k] :
           Parked(waiters[k][i]) /\ cnd[waiters[k][i]] = k)'
    BY <2>1, <2>2, <2>3, <2>4
  <2>7. ASSUME NEW u \in Threads, Parked(u)'
        PROVE  (/\ \E i \in DOMAIN waiters[cnd[u]] : waiters[cnd[u]][i] = u
                /\ c_active[cnd[u]] /\ c_mutex[cnd[u]] = tgt[u])'
    <3>1. CASE u = t
      BY <2>1, <2>3, <3>1
    <3>2. CASE u # t
      <4>1. /\ Parked(u) /\ cnd[u] \in Conds /\ cnd'[u] = cnd[u] /\ tgt'[u] = tgt[u]
            /\ c_active[cnd[u]] /\ c_mutex[cnd[u]] = tgt[u]
        BY <2>2, <2>7, <3>2 DEF QueueInv, TargetInv, Parked
      <4>2. PICK i \in DOMAIN waiters[cnd[u]] : waiters[cnd[u]][i] = u
        BY <4>1 DEF QueueInv
      <4>3. i \in DOMAIN waiters'[cnd[u]] /\ waiters'[cnd[u]][i] = u
        BY <2>3, <4>1, <4>2
      <4> QED BY <2>1, <4>1, <4>3
    <3> QED BY <3>1, <3>2
  <2> QED BY <2>5, <2>6, <2>7 DEF QueueInv
<1>22. ASSUME WaitSignalled(t)
      PROVE  QueueSame
  BY <1>22 DEF WaitSignalled, Waiting, Go, Idle, TypesOver, TargetInv,
          QueueSame, Parked, mutexVars, slotVars, condVars
<1>23. ASSUME NEW r \in {"ETIMEDOUT", "EFAULT"}, WaitEnded(t, r)
      PROVE  QueueInv'
  <2>1. PICK c \in Conds : c = cnd[t]
    BY <1>23 DEF WaitEnded, TargetInv
  <2>2. PICK i \in DOMAIN waiters[c] :
          waiters[c][i] = t /\ waiters' = [waiters EXCEPT ![c] = RemoveAt(@, i)]
    BY <1>23, <2>1 DEF WaitEnded
  <2>3. RemoveAt(waiters[c], i) \in Seq(Threads) /\ TakenOut(RemoveAt(waiters[c], i), waiters[c], i)
    BY RemoveAtTakesOut DEF TypesOver
  <2>4. /\ ~Parked(t)' /\ UNCHANGED <<c_active, c_mutex, cnd, tgt>>
        /\ \A u \in Threads : u # t => (Parked(u)' <=> Parked(u))
    BY <1>23 DEF WaitEnded, Go, Parked, Waiting, TypesOver
  <2> QED BY <2>2, <2>3, <2>4, QueueTakesOut
<1>24. ASSUME Relock(t)
      PROVE  QueueSame
  BY <1>24 DEF Relock, Enter, Go, Idle, TypesOver, TargetInv, QueueSame, Parked,
          Waiting, mutexVars, slotVars, condVars
<1>25. ASSUME NEW c \in Conds, NEW all \in BOOLEAN, signal_cond(t, c, all)
      PROVE  QueueSame
  <2>1. ~Waiting(t) /\ ~Waiting(t)'
    BY <1>25 DEF signal_cond, Idle, Go, GoOn, Waiting, TypesOver
  <2>2. /\ \A u \in Threads : u # t => pc'[u] = pc[u] /\ tgt'[u] = tgt[u] /\ cnd'[u] = cnd[u]
        /\ UNCHANGED <<waiters, c_active, c_mutex, signalled>>
    BY <1>25 DEF signal_cond, Go, GoOn, TypesOver, condVars
  <2> QED BY <2>1, <2>2, QuietStep
<1>26. ASSUME SignalWaiter(t)
      PROVE  QueueInv'
  <2>1. PICK c \in Conds : c = cnd[t] /\ waiters[c] # <<>>
    BY <1>26 DEF SignalWaiter, TargetInv, Signalling
  <2>2. /\ 1 \in DOMAIN waiters[c] /\ waiters[c][1] = Head(waiters[c])
        /\ Head(waiters[c]) \in Threads
        /\ Tail(waiters[c]) \in Seq(Threads) /\ TakenOut(Tail(waiters[c]), waiters[c], 1)
    BY <2>1, TailTakesOut DEF TypesOver
  <2>3. PICK w \in Threads : w = waiters[c][1]
    BY <2>2
  <2>4. /\ signalled' = [signalled EXCEPT ![w] = TRUE]
        /\ waiters' = [waiters EXCEPT ![c] = Tail(@)]
        /\ UNCHANGED <<c_active, c_mutex, cnd, tgt>>
        /\ \A u \in Threads : Waiting(u)' <=> Waiting(u)
    BY <1>26, <2>1, <2>2, <2>3 DEF SignalWaiter, Go, Waiting, TypesOver
  <2>5. ~Parked(w)' /\ \A u \in Threads : u # w => (Parked(u)' <=> Parked(u))
    BY <2>4 DEF Parked, TypesOver
  <2> QED BY <2>2, <2>3, <2>4, <2>5, QueueTakesOut
<1>27. ASSUME SignalEnd(t)
      PROVE  QueueSame
  BY <1>27 DEF SignalEnd, Go, Idle, TypesOver, TargetInv, QueueSame, Parked,
          Waiting, mutexVars, slotVars, condVars
<1>28. ASSUME QueueSame
       PROVE  QueueInv'
  <2>1. \A k \in Conds : \A i \in DOMAIN waiters[k] : waiters[k][i] \in Threads
    BY DEF TypesOver
  <2>2. (\A k \in Conds : \A i, j \in DOMAIN waiters[k] :
           waiters[k][i] = waiters[k][j] => i = j)'
    BY <1>28 DEF QueueSame, QueueInv
  <2>3. ASSUME NEW k \in Conds, NEW i \in DOMAIN waiters[k]
        PROVE  (Parked(waiters[k][i]) /\ cnd[waiters[k][i]] = k)'
    <3>1. PICK u \in Threads : u = waiters[k][i]
      BY <2>1
    <3>2. Parked(u) /\ cnd[u] = k
      BY <3>1 DEF QueueInv
    <3>3. Parked(u)' /\ cnd'[u] = k /\ waiters' = waiters
      BY <1>28, <3>2 DEF QueueSame, Parked, Waiting
    <3> QED BY <3>1, <3>3 DEF Parked, Waiting
  <2>4. (\A k \in Conds : \A i \in DOMAIN waiters[k] :
           Parked(waiters[k][i]) /\ cnd[waiters[k][i]] = k)'
    BY <1>28, <2>3 DEF QueueSame, Parked, Waiting
  <2>5. ASSUME NEW u \in Threads, Parked(u)'
        PROVE  (/\ \E i \in DOMAIN waiters[cnd[u]] : waiters[cnd[u]][i] = u
                /\ c_active[cnd[u]] /\ c_mutex[cnd[u]] = tgt[u])'
    <3>1. Parked(u) /\ cnd'[u] = cnd[u] /\ tgt'[u] = tgt[u]
      BY <1>28, <2>5 DEF QueueSame, Parked, Waiting
    <3> QED BY <1>28, <3>1 DEF QueueSame, QueueInv
  <2> QED BY <2>2, <2>4, <2>5, Zenon DEF QueueInv
<1> QED
  BY <1>1, <1>2, <1>3, <1>4, <1>5, <1>6, <1>7, <1>8, <1>9, <1>10, <1>11, <1>12,
     <1>13, <1>14, <1>15, <1>16, <1>17, <1>18, <1>19, <1>20, <1>21, <1>22,
     <1>23, <1>24, <1>25, <1>26, <1>27, <1>28 DEF Step

(* Every action keeps a cond's lock with the thread that signals it, and   *)
(* the result of a wait in step with its signal.                           *)
LEMMA SignalStep ==
  ASSUME IInv, NEW t \in Threads, Step(t)
  PROVE  SignalInv'
<1> TypesOver(Int) /\ TargetInv /\ SignalInv /\ QueueInv
  BY DEF IInv
<1> USE ThreadsAssumption
<1>1. ASSUME NEW m \in Mutexes, NEW rec \in BOOLEAN,
              sys_mutex_create(t, m, rec), UNCHANGED condVars
      PROVE  SignalInv'
  BY <1>1 DEF sys_mutex_create, Idle, TypesOver, SignalInv, TargetInv,
          Signalling, Waiting, mutexVars, slotVars, condVars
<1>2. ASSUME NEW m \in Mutexes, NEW timed \in BOOLEAN,
              sys_mutex_lock(t, m, timed), UNCHANGED condVars
      PROVE  SignalInv'
  BY <1>2 DEF sys_mutex_lock, GoOn, Go, Idle, TypesOver, SignalInv, TargetInv,
          Signalling, Waiting, mutexVars, slotVars, condVars
<1>3. ASSUME LockAcquired(t), UNCHANGED condVars
      PROVE  SignalInv'
  BY <1>3 DEF LockAcquired, Locking, Enter, Given, Go, Idle, TypesOver,
          SignalInv, TargetInv, Signalling, Waiting, mutexVars, slotVars,
          condVars
<1>4. ASSUME LockGone(t), UNCHANGED condVars
      PROVE  SignalInv'
  BY <1>4 DEF LockGone, Locking, Go, Idle, TypesOver, SignalInv, TargetInv,
          Signalling, Waiting, mutexVars, slotVars, condVars
<1>5. ASSUME LockTimedOut(t), UNCHANGED condVars
      PROVE  SignalInv'
  BY <1>5 DEF LockTimedOut, Go, Idle, TypesOver, SignalInv, TargetInv,
          Signalling, Waiting, mutexVars, slotVars, condVars
<1>6. ASSUME NEW m \in Mutexes, TrylockAgain(t, m), UNCHANGED condVars
      PROVE  SignalInv'
  BY <1>6 DEF TrylockAgain, Enter, Given, Idle, TypesOver, SignalInv, TargetInv,
          Signalling, Waiting, mutexVars, slotVars, condVars
<1>7. ASSUME NEW m \in Mutexes, sys_mutex_trylock(t, m), UNCHANGED condVars
      PROVE  SignalInv'
  BY <1>7 DEF sys_mutex_trylock, GoOn, Go, Idle, TypesOver, SignalInv,
          TargetInv, Signalling, Waiting, mutexVars, slotVars, condVars
<1>8. ASSUME TrylockAcquired(t), UNCHANGED condVars
      PROVE  SignalInv'
  BY <1>8 DEF TrylockAcquired, Enter, Given, Go, Idle, TypesOver, SignalInv,
          TargetInv, Signalling, Waiting, mutexVars, slotVars, condVars
<1>9. ASSUME TrylockRefused(t), UNCHANGED condVars
      PROVE  SignalInv'
  BY <1>9 DEF TrylockRefused, Go, Idle, TypesOver, SignalInv, TargetInv,
          Signalling, Waiting, mutexVars, slotVars, condVars
<1>10. ASSUME NEW m \in Mutexes, sys_mutex_unlock(t, m), UNCHANGED condVars
      PROVE  SignalInv'
  BY <1>10 DEF sys_mutex_unlock, Leave, Idle, TypesOver, SignalInv, TargetInv,
          Signalling, Waiting, mutexVars, slotVars, condVars
<1>11. ASSUME NEW m \in Mutexes, sys_mutex_destroy(t, m), UNCHANGED condVars
      PROVE  SignalInv'
  BY <1>11 DEF sys_mutex_destroy, Enter, GoOn, Go, Idle, TypesOver, SignalInv,
          TargetInv, Signalling, Waiting, mutexVars, slotVars, condVars
<1>12. ASSUME DestroyBusy(t), UNCHANGED condVars
      PROVE  SignalInv'
  BY <1>12 DEF DestroyBusy, DestroyDone, Leave, Go, Idle, TypesOver, SignalInv,
          TargetInv, Signalling, Waiting, mutexVars, slotVars, condVars
<1>13. ASSUME DestroyUnowned(t), UNCHANGED condVars
      PROVE  SignalInv'
  BY <1>13 DEF DestroyUnowned, Go, Idle, TypesOver, SignalInv, TargetInv,
          Signalling, Waiting, mutexVars, slotVars, condVars
<1>14. ASSUME DestroyBound(t), UNCHANGED condVars
      PROVE  SignalInv'
  BY <1>14 DEF DestroyBound, DestroyDone, Leave, Go, Idle, TypesOver, SignalInv,
          TargetInv, Signalling, Waiting, mutexVars, slotVars, condVars
<1>15. ASSUME DestroyFreed(t), UNCHANGED condVars
      PROVE  SignalInv'
  BY <1>15 DEF DestroyFreed, DestroyDone, Leave, Go, Idle, TypesOver, SignalInv,
          TargetInv, Signalling, Waiting, mutexVars, slotVars, condVars
<1>16. ASSUME NEW m \in Mutexes, sys_cond_create(t, m)
      PROVE  SignalInv'
  BY <1>16 DEF sys_cond_create, sys_mutex_bind_cond, GoOn, Go, Idle, TypesOver,
          SignalInv, TargetInv, Signalling, Waiting, mutexVars, slotVars,
          condVars
<1>17. ASSUME NEW c \in Conds, CondSlot(t, c)
      PROVE  SignalInv'
  BY <1>17 DEF CondSlot, Go, Idle, TypesOver, SignalInv, TargetInv, Signalling,
          Waiting, mutexVars, slotVars, condVars
<1>18. ASSUME CondTableFull(t)
      PROVE  SignalInv'
  BY <1>18 DEF CondTableFull, Go, Idle, TypesOver, SignalInv, TargetInv,
          Signalling, Waiting, mutexVars, slotVars, condVars
<1>19. ASSUME NEW c \in Conds, sys_cond_destroy(t, c)
      PROVE  SignalInv'
  BY <1>19 DEF sys_cond_destroy, Acquirable, GoOn, Go, Idle, TypesOver,
          SignalInv, TargetInv, Signalling, Waiting, mutexVars, slotVars,
          condVars
<1>20. ASSUME Unbind(t)
      PROVE  SignalInv'
  BY <1>20 DEF Unbind, sys_mutex_unbind_cond, Go, Idle, TypesOver, SignalInv,
          TargetInv, Signalling, Waiting, mutexVars, slotVars, condVars
<1>21. ASSUME NEW c \in Conds, NEW timed \in BOOLEAN, sys_cond_wait(t, c, timed)
      PROVE  SignalInv'
  BY <1>21 DEF sys_cond_wait, Acquirable, Owns, Leave, GoOn, Go, Idle,
          TypesOver, SignalInv, TargetInv, Signalling, Waiting, mutexVars,
          slotVars, condVars
<1>22. ASSUME WaitSignalled(t)
      PROVE  SignalInv'
  BY <1>22 DEF WaitSignalled, Waiting, Go, Idle, TypesOver, SignalInv,
          TargetInv, Signalling, mutexVars, slotVars, condVars
<1>23. ASSUME NEW r \in {"ETIMEDOUT", "EFAULT"}, WaitEnded(t, r)
      PROVE  SignalInv'
  BY <1>23 DEF WaitEnded, Waiting, Go, Idle, TypesOver, SignalInv, TargetInv,
          Signalling, mutexVars, slotVars, condVars
<1>24. ASSUME Relock(t)
      PROVE  SignalInv'
  BY <1>24 DEF Relock, Enter, Go, Idle, TypesOver, SignalInv, TargetInv,
          Signalling, Waiting, mutexVars, slotVars, condVars
<1>25. ASSUME NEW c \in Conds, NEW all \in BOOLEAN, signal_cond(t, c, all)
      PROVE  SignalInv'
  BY <1>25 DEF signal_cond, Acquirable, Go, Idle, TypesOver, SignalInv,
          TargetInv, Signalling, Waiting, mutexVars, slotVars, condVars
<1>26. ASSUME SignalWaiter(t)
      PROVE  SignalInv'
  <2>1. PICK c \in Conds : c = cnd[t] /\ waiters[c] # <<>>
    BY <1>26 DEF SignalWaiter, TargetInv, Signalling
  <2>2. PICK w \in Threads : w = Head(waiters[c]) /\ Waiting(w)
    <3>1. 1 \in DOMAIN waiters[c] /\ Head(waiters[c]) = waiters[c][1] /\ waiters[c][1] \in Threads
      BY <2>1 DEF TypesOver
    <3> QED BY <3>1 DEF QueueInv, Parked
  <2>3. /\ signalled' = [signalled EXCEPT ![w] = TRUE]
        /\ pc' = [pc EXCEPT ![t] = pc'[t]] /\ pc'[t] \in {"signal_end", "signal_all"}
        /\ UNCHANGED <<cond_lock, c_active, cnd, result>>
    BY <1>26, <2>1, <2>2 DEF SignalWaiter, Go, TypesOver
  <2>4. \A u \in Threads : pc'[u] = "relock" => pc[u] = "relock" /\ signalled'[u] = signalled[u]
    BY <1>26, <2>2, <2>3 DEF SignalWaiter, Waiting, TypesOver
  <2>5. \A u \in Threads :
          (Signalling(u)' => Signalling(u)) /\ (Waiting(u)' => Waiting(u))
    BY <1>26, <2>3 DEF SignalWaiter, Signalling, Waiting, TypesOver
  <2>6. (\A u \in Threads : Signalling(u) => cond_lock[cnd[u]] = u /\ c_active[cnd[u]])'
    BY <2>3, <2>5 DEF SignalInv, Signalling
  <2>7. (\A u \in Threads : Waiting(u) => result[u] = "OK")'
    BY <2>3, <2>5 DEF SignalInv, Waiting
  <2>8. (\A u \in Threads : pc[u] = "relock" => (signalled[u] <=> result[u] = "OK"))'
    BY <2>3, <2>4 DEF SignalInv, TypesOver
  <2> QED BY <2>6, <2>7, <2>8, Zenon DEF SignalInv
<1>27. ASSUME SignalEnd(t)
      PROVE  SignalInv'
  BY <1>27 DEF SignalEnd, Go, Idle, TypesOver, SignalInv, TargetInv, Signalling,
          Waiting, mutexVars, slotVars, condVars
<1> QED
  BY <1>1, <1>2, <1>3, <1>4, <1>5, <1>6, <1>7, <1>8, <1>9, <1>10, <1>11, <1>12,
     <1>13, <1>14, <1>15, <1>16, <1>17, <1>18, <1>19, <1>20, <1>21, <1>22,
     <1>23, <1>24, <1>25, <1>26, <1>27 DEF Step

(* Every action keeps what sys_mutex_destroy learnt at its first look true *)
(* until the second, or a cond bound.                                      *)
LEMMA ProbeStep ==
  ASSUME IInv, NEW t \in Threads, Step(t)
  PROVE  ProbeInv'
<1> TypesOver(Int) /\ TargetInv /\ ProbeInv /\ HostInv
      /\ CondCountInv /\ RelockCountInv /\ SignalInv /\ QueueInv
  BY DEF IInv
<1> USE ThreadsAssumption
<1>0. \A u \in Threads : pc[u] = "d_conds" =>
        /\ mtx_table = u /\ tgt[u] \in Mutexes
        /\ csOwner[tgt[u]] = u /\ owner_tid[tgt[u]] = NoThread
  BY DEF HostInv, HostLock, Probing, Probed, TargetInv, Targeting, ProbeInv
<1>1. ASSUME NEW m \in Mutexes, NEW rec \in BOOLEAN,
              sys_mutex_create(t, m, rec), UNCHANGED condVars
      PROVE  ProbeInv'
  BY <1>1 DEF sys_mutex_create, Idle, TypesOver, ProbeInv, TargetInv, HostInv,
          Targeting, Owned, mutexVars, slotVars, condVars
<1>2. ASSUME NEW m \in Mutexes, NEW timed \in BOOLEAN,
              sys_mutex_lock(t, m, timed), UNCHANGED condVars
      PROVE  ProbeInv'
  BY <1>2 DEF sys_mutex_lock, GoOn, Go, Idle, TypesOver, ProbeInv, TargetInv,
          HostInv, Targeting, Owned, mutexVars, slotVars, condVars
<1>3. ASSUME LockAcquired(t), UNCHANGED condVars
      PROVE  ProbeInv'
  BY <1>3, <1>0 DEF LockAcquired, Locking, CanEnter, Enter, Given, Go, TypesOver,
       TargetInv, Targeting, ProbeInv
<1>4. ASSUME LockGone(t), UNCHANGED condVars
      PROVE  ProbeInv'
  BY <1>4 DEF LockGone, Locking, Go, Idle, TypesOver, ProbeInv, TargetInv,
          HostInv, Targeting, Owned, mutexVars, slotVars, condVars
<1>5. ASSUME LockTimedOut(t), UNCHANGED condVars
      PROVE  ProbeInv'
  BY <1>5 DEF LockTimedOut, Go, Idle, TypesOver, ProbeInv, TargetInv, HostInv,
          Targeting, Owned, mutexVars, slotVars, condVars
<1>6. ASSUME NEW m \in Mutexes, TrylockAgain(t, m), UNCHANGED condVars
      PROVE  ProbeInv'
  BY <1>6, <1>0 DEF TrylockAgain, Owns, Enter, Given, Leave, TypesOver, ProbeInv
<1>7. ASSUME NEW m \in Mutexes, sys_mutex_trylock(t, m), UNCHANGED condVars
      PROVE  ProbeInv'
  BY <1>7 DEF sys_mutex_trylock, GoOn, Go, Idle, TypesOver, ProbeInv, TargetInv,
          HostInv, Targeting, Owned, mutexVars, slotVars, condVars
<1>8. ASSUME TrylockAcquired(t), UNCHANGED condVars
      PROVE  ProbeInv'
  BY <1>8, <1>0 DEF TrylockAcquired, CanEnter, Enter, Given, Go, TypesOver,
       TargetInv, Targeting, ProbeInv
<1>9. ASSUME TrylockRefused(t), UNCHANGED condVars
      PROVE  ProbeInv'
  BY <1>9 DEF TrylockRefused, Go, Idle, TypesOver, ProbeInv, TargetInv, HostInv,
          Targeting, Owned, mutexVars, slotVars, condVars
<1>10. ASSUME NEW m \in Mutexes, sys_mutex_unlock(t, m), UNCHANGED condVars
      PROVE  ProbeInv'
  BY <1>10, <1>0 DEF sys_mutex_unlock, Owns, Enter, Given, Leave, TypesOver, ProbeInv
<1>11. ASSUME NEW m \in Mutexes, sys_mutex_destroy(t, m), UNCHANGED condVars
      PROVE  ProbeInv'
  BY <1>11 DEF sys_mutex_destroy, Enter, GoOn, Go, Idle, TypesOver, ProbeInv,
          TargetInv, HostInv, Targeting, Owned, mutexVars, slotVars, condVars
<1>12. ASSUME DestroyBusy(t), UNCHANGED condVars
      PROVE  ProbeInv'
  BY <1>12 DEF DestroyBusy, DestroyDone, Leave, Go, Idle, TypesOver, ProbeInv,
          TargetInv, HostInv, Targeting, Owned, mutexVars, slotVars, condVars
<1>13. ASSUME DestroyUnowned(t), UNCHANGED condVars
      PROVE  ProbeInv'
  <2>1. tgt[t] \in Mutexes /\ relock_pending[tgt[t]] >= 0 /\ lock_count[tgt[t]] >= 0
    BY <1>13, CountSetsFinite DEF DestroyUnowned, TargetInv, Targeting, HostInv,
         HostLock, RelockCountInv
  <2> QED
    BY <1>13, <2>1 DEF DestroyUnowned, Owned, Go, TypesOver, ProbeInv, slotVars
<1>14. ASSUME DestroyBound(t), UNCHANGED condVars
      PROVE  ProbeInv'
  BY <1>14 DEF DestroyBound, DestroyDone, Leave, Go, Idle, TypesOver, ProbeInv,
          TargetInv, HostInv, Targeting, Owned, mutexVars, slotVars, condVars
<1>15. ASSUME DestroyFreed(t), UNCHANGED condVars
      PROVE  ProbeInv'
  BY <1>15 DEF DestroyFreed, DestroyDone, Leave, Go, Idle, TypesOver, ProbeInv,
          TargetInv, HostInv, Targeting, Owned, mutexVars, slotVars, condVars
<1>16. ASSUME NEW m \in Mutexes, sys_cond_create(t, m)
      PROVE  ProbeInv'
  BY <1>16 DEF sys_cond_create, sys_mutex_bind_cond, GoOn, Go, Idle, TypesOver,
          ProbeInv, TargetInv, HostInv, Targeting, Owned, mutexVars, slotVars,
          condVars
<1>17. ASSUME NEW c \in Conds, CondSlot(t, c)
      PROVE  ProbeInv'
  BY <1>17 DEF CondSlot, Go, Idle, TypesOver, ProbeInv, TargetInv, HostInv,
          Targeting, Owned, mutexVars, slotVars, condVars
<1>18. ASSUME CondTableFull(t)
      PROVE  ProbeInv'
  BY <1>18 DEF CondTableFull, Go, Idle, TypesOver, ProbeInv, TargetInv, HostInv,
          Targeting, Owned, mutexVars, slotVars, condVars
<1>19. ASSUME NEW c \in Conds, sys_cond_destroy(t, c)
      PROVE  ProbeInv'
  BY <1>19 DEF sys_cond_destroy, Acquirable, GoOn, Go, Idle, TypesOver,
          ProbeInv, TargetInv, HostInv, Targeting, Owned, mutexVars, slotVars,
          condVars
<1>20. ASSUME Unbind(t)
      PROVE  ProbeInv'
  <2>1. \A u \in Threads : pc'[u] # "d_conds"
    BY <1>20, <1>0 DEF Unbind, sys_mutex_unbind_cond, Go, TypesOver
  <2> QED BY <2>1 DEF ProbeInv
<1>21. ASSUME NEW c \in Conds, NEW timed \in BOOLEAN, sys_cond_wait(t, c, timed)
      PROVE  ProbeInv'
  BY <1>21 DEF sys_cond_wait, Acquirable, Owns, Leave, GoOn, Go, Idle,
          TypesOver, ProbeInv, TargetInv, HostInv, Targeting, Owned, mutexVars,
          slotVars, condVars
<1>22. ASSUME WaitSignalled(t)
      PROVE  ProbeInv'
  BY <1>22 DEF WaitSignalled, Waiting, Go, Idle, TypesOver, ProbeInv, TargetInv,
          HostInv, Targeting, Owned, mutexVars, slotVars, condVars
<1>23. ASSUME NEW r \in {"ETIMEDOUT", "EFAULT"}, WaitEnded(t, r)
      PROVE  ProbeInv'
  <2>1. PICK c \in Conds : c = cnd[t] /\ c_active[c] /\ c_mutex[c] \in Mutexes
    BY <1>23 DEF WaitEnded, Waiting, TargetInv, SignalInv, Signalling, QueueInv, Parked
  <2>2. PICK m \in Mutexes : m = c_mutex[c] /\ cond_count[m] > 0
    BY <2>1, CondCountPositive DEF Bound
  <2>0. m = tgt[t]
    BY <1>23, <2>1, <2>2 DEF WaitEnded, QueueInv, Parked
  <2>3. /\ relock_pending' = [relock_pending EXCEPT ![m] = @ + 1]
        /\ \A u \in Threads : pc'[u] = "d_conds" => pc[u] = "d_conds"
        /\ UNCHANGED <<lock_count, cond_count, tgt>>
    BY <1>23, <2>0 DEF WaitEnded, Go, TypesOver
  <2> QED
    BY <2>2, <2>3 DEF TypesOver, ProbeInv
<1>24. ASSUME Relock(t)
      PROVE  ProbeInv'
  BY <1>24, <1>0 DEF Relock, CanEnter, Enter, Given, Go, TypesOver, TargetInv,
       Targeting, ProbeInv
<1>25. ASSUME NEW c \in Conds, NEW all \in BOOLEAN, signal_cond(t, c, all)
      PROVE  ProbeInv'
  BY <1>25 DEF signal_cond, Acquirable, Go, Idle, TypesOver, ProbeInv,
          TargetInv, HostInv, Targeting, Owned, mutexVars, slotVars, condVars
<1>26. ASSUME SignalWaiter(t)
      PROVE  ProbeInv'
  <2>1. PICK c \in Conds : c = cnd[t] /\ c_active[c] /\ c_mutex[c] \in Mutexes
    BY <1>26 DEF SignalWaiter, Waiting, TargetInv, SignalInv, Signalling, QueueInv,
         Parked
  <2>2. PICK m \in Mutexes : m = c_mutex[c] /\ cond_count[m] > 0
    BY <2>1, CondCountPositive DEF Bound
  <2>3. /\ relock_pending' = [relock_pending EXCEPT ![m] = @ + 1]
        /\ \A u \in Threads : pc'[u] = "d_conds" => pc[u] = "d_conds"
        /\ UNCHANGED <<lock_count, cond_count, tgt>>
    BY <1>26, <2>1, <2>2 DEF SignalWaiter, Go, TypesOver, QueueInv, Parked
  <2> QED
    BY <2>2, <2>3 DEF TypesOver, ProbeInv
<1>27. ASSUME SignalEnd(t)
      PROVE  ProbeInv'
  BY <1>27 DEF SignalEnd, Go, Idle, TypesOver, ProbeInv, TargetInv, HostInv,
          Targeting, Owned, mutexVars, slotVars, condVars
<1> QED
  BY <1>1, <1>2, <1>3, <1>4, <1>5, <1>6, <1>7, <1>8, <1>9, <1>10, <1>11, <1>12,
     <1>13, <1>14, <1>15, <1>16, <1>17, <1>18, <1>19, <1>20, <1>21, <1>22,
     <1>23, <1>24, <1>25, <1>26, <1>27 DEF Step

(* cond_count and what it counts are as they were. *)
CondCountSame ==
  /\ UNCHANGED cond_count
  /\ \A k \in Mutexes : Bound(k)' = Bound(k) /\ Binding(k)' = Binding(k)

(* Every action keeps cond_count exact.                                    *)
LEMMA CondCountStep ==
  ASSUME IInv, NEW t \in Threads, Step(t)
  PROVE  CondCountInv'
<1> TypesOver(Int) /\ TargetInv /\ LiveInv /\ CondCountInv
  BY DEF IInv
<1>1. ASSUME NEW m \in Mutexes, NEW rec \in BOOLEAN,
              sys_mutex_create(t, m, rec), UNCHANGED condVars
      PROVE  CondCountInv'
  <2>1. Bound(m) = {} /\ Binding(m) = {}
    BY <1>1 DEF sys_mutex_create, LiveInv, Bound, Binding
  <2>2. \A k \in Mutexes : Bound(k)' = Bound(k) /\ Binding(k)' = Binding(k)
    BY <1>1 DEF sys_mutex_create, Bound, Binding, condVars
  <2>3. Cardinality(Bound(m)) = 0 /\ Cardinality(Binding(m)) = 0
    BY <2>1, FS_EmptySet
  <2> QED
    BY <1>1, <2>2, <2>3 DEF sys_mutex_create, TypesOver, CondCountInv
<1>2. ASSUME NEW m \in Mutexes, NEW timed \in BOOLEAN,
              sys_mutex_lock(t, m, timed), UNCHANGED condVars
      PROVE  CondCountSame
  BY <1>2 DEF sys_mutex_lock, GoOn, Go, Idle, TypesOver, Waiting, CondCountSame,
          Bound, Binding, mutexVars, slotVars, condVars
<1>3. ASSUME LockAcquired(t), UNCHANGED condVars
      PROVE  CondCountSame
  BY <1>3 DEF LockAcquired, Locking, Enter, Given, Go, Idle, TypesOver, Waiting,
          CondCountSame, Bound, Binding, mutexVars, slotVars, condVars
<1>4. ASSUME LockGone(t), UNCHANGED condVars
      PROVE  CondCountSame
  BY <1>4 DEF LockGone, Locking, Go, Idle, TypesOver, Waiting, CondCountSame,
          Bound, Binding, mutexVars, slotVars, condVars
<1>5. ASSUME LockTimedOut(t), UNCHANGED condVars
      PROVE  CondCountSame
  BY <1>5 DEF LockTimedOut, Go, Idle, TypesOver, Waiting, CondCountSame, Bound,
          Binding, mutexVars, slotVars, condVars
<1>6. ASSUME NEW m \in Mutexes, TrylockAgain(t, m), UNCHANGED condVars
      PROVE  CondCountSame
  BY <1>6 DEF TrylockAgain, Enter, Given, Idle, TypesOver, Waiting,
          CondCountSame, Bound, Binding, mutexVars, slotVars, condVars
<1>7. ASSUME NEW m \in Mutexes, sys_mutex_trylock(t, m), UNCHANGED condVars
      PROVE  CondCountSame
  BY <1>7 DEF sys_mutex_trylock, GoOn, Go, Idle, TypesOver, Waiting,
          CondCountSame, Bound, Binding, mutexVars, slotVars, condVars
<1>8. ASSUME TrylockAcquired(t), UNCHANGED condVars
      PROVE  CondCountSame
  BY <1>8 DEF TrylockAcquired, Enter, Given, Go, Idle, TypesOver, Waiting,
          CondCountSame, Bound, Binding, mutexVars, slotVars, condVars
<1>9. ASSUME TrylockRefused(t), UNCHANGED condVars
      PROVE  CondCountSame
  BY <1>9 DEF TrylockRefused, Go, Idle, TypesOver, Waiting, CondCountSame,
          Bound, Binding, mutexVars, slotVars, condVars
<1>10. ASSUME NEW m \in Mutexes, sys_mutex_unlock(t, m), UNCHANGED condVars
      PROVE  CondCountSame
  BY <1>10 DEF sys_mutex_unlock, Leave, Idle, TypesOver, Waiting, CondCountSame,
          Bound, Binding, mutexVars, slotVars, condVars
<1>11. ASSUME NEW m \in Mutexes, sys_mutex_destroy(t, m), UNCHANGED condVars
      PROVE  CondCountSame
  BY <1>11 DEF sys_mutex_destroy, Enter, GoOn, Go, Idle, TypesOver, Waiting,
          CondCountSame, Bound, Binding, mutexVars, slotVars, condVars
<1>12. ASSUME DestroyBusy(t), UNCHANGED condVars
      PROVE  CondCountSame
  BY <1>12 DEF DestroyBusy, DestroyDone, Leave, Go, Idle, TypesOver, Waiting,
          CondCountSame, Bound, Binding, mutexVars, slotVars, condVars
<1>13. ASSUME DestroyUnowned(t), UNCHANGED condVars
      PROVE  CondCountSame
  BY <1>13 DEF DestroyUnowned, Go, Idle, TypesOver, Waiting, CondCountSame,
          Bound, Binding, mutexVars, slotVars, condVars
<1>14. ASSUME DestroyBound(t), UNCHANGED condVars
      PROVE  CondCountSame
  BY <1>14 DEF DestroyBound, DestroyDone, Leave, Go, Idle, TypesOver, Waiting,
          CondCountSame, Bound, Binding, mutexVars, slotVars, condVars
<1>15. ASSUME DestroyFreed(t), UNCHANGED condVars
      PROVE  CondCountSame
  BY <1>15 DEF DestroyFreed, DestroyDone, Leave, Go, Idle, TypesOver, Waiting,
          CondCountSame, Bound, Binding, mutexVars, slotVars, condVars
<1>16. ASSUME NEW m \in Mutexes, sys_cond_create(t, m)
      PROVE  CondCountInv'
  <2>1. t \notin Binding(m) /\ Binding(m)' = Binding(m) \cup {t}
    BY <1>16 DEF sys_cond_create, Idle, GoOn, Go, Binding, TypesOver
  <2>2. /\ \A k \in Mutexes : Bound(k)' = Bound(k)
        /\ \A k \in Mutexes : k # m => Binding(k)' = Binding(k)
        /\ cond_count' = [cond_count EXCEPT ![m] = @ + 1]
    BY <1>16 DEF sys_cond_create, sys_mutex_bind_cond, Idle, GoOn, Go, Bound,
         Binding, TypesOver, condVars
  <2>3. Cardinality(Binding(m)') = Cardinality(Binding(m)) + 1
    BY <2>1, CountSetsFinite, FS_AddElement
  <2>6. ASSUME NEW k \in Mutexes
        PROVE  (cond_count[k] = Cardinality(Bound(k)) + Cardinality(Binding(k)))'
    <3>1. CASE k = m
      BY <2>2, <2>3, <3>1, CountSetsFinite DEF TypesOver, CondCountInv
    <3>2. CASE k # m
      BY <2>2, <2>3, <3>2 DEF TypesOver, CondCountInv
    <3> QED BY <3>1, <3>2
  <2> QED BY <2>6 DEF CondCountInv
<1>17. ASSUME NEW c \in Conds, CondSlot(t, c)
      PROVE  CondCountInv'
  <2>1. PICK m \in Mutexes : m = tgt[t]
    BY <1>17 DEF CondSlot, TargetInv, Targeting
  <2>2. t \in Binding(m) /\ Binding(m)' = Binding(m) \ {t}
    BY <1>17, <2>1 DEF CondSlot, Go, Binding, TypesOver
  <2>3. c \notin Bound(m) /\ Bound(m)' = Bound(m) \cup {c}
    BY <1>17, <2>1 DEF CondSlot, Bound, TypesOver
  <2>4. /\ \A k \in Mutexes : k # m => Bound(k)' = Bound(k) /\ Binding(k)' = Binding(k)
        /\ cond_count' = cond_count
    BY <1>17, <2>1 DEF CondSlot, Go, Bound, Binding, TypesOver, slotVars
  <2>5. Cardinality(Binding(m)') = Cardinality(Binding(m)) - 1
    BY <2>2, CountSetsFinite, FS_RemoveElement
  <2>6. Cardinality(Bound(m)') = Cardinality(Bound(m)) + 1
    BY <2>3, CountSetsFinite, FS_AddElement
  <2> QED
    BY <2>4, <2>5, <2>6, CountSetsFinite DEF CondCountInv
<1>18. ASSUME CondTableFull(t)
      PROVE  CondCountSame
  BY <1>18 DEF CondTableFull, Go, Idle, TypesOver, Waiting, CondCountSame,
          Bound, Binding, mutexVars, slotVars, condVars
<1>19. ASSUME NEW c \in Conds, sys_cond_destroy(t, c)
      PROVE  CondCountInv'
  <2>1. PICK m \in Mutexes : m = c_mutex[c]
    BY <1>19 DEF sys_cond_destroy, Acquirable, TargetInv
  <2>2. t \notin Binding(m) /\ Binding(m)' = Binding(m) \cup {t}
    BY <1>19, <2>1 DEF sys_cond_destroy, Idle, GoOn, Go, Binding, TypesOver
  <2>3. c \in Bound(m) /\ Bound(m)' = Bound(m) \ {c}
    BY <1>19, <2>1 DEF sys_cond_destroy, Acquirable, Bound, TypesOver
  <2>4. /\ \A k \in Mutexes : k # m => Bound(k)' = Bound(k) /\ Binding(k)' = Binding(k)
        /\ cond_count' = cond_count
    BY <1>19, <2>1 DEF sys_cond_destroy, Idle, GoOn, Go, Bound, Binding, TypesOver,
         slotVars
  <2>5. Cardinality(Binding(m)') = Cardinality(Binding(m)) + 1
    BY <2>2, CountSetsFinite, FS_AddElement
  <2>6. Cardinality(Bound(m)') = Cardinality(Bound(m)) - 1
    BY <2>3, CountSetsFinite, FS_RemoveElement
  <2> QED
    BY <2>4, <2>5, <2>6, CountSetsFinite DEF CondCountInv
<1>20. ASSUME Unbind(t)
      PROVE  CondCountInv'
  <2>1. PICK m \in Mutexes : m = tgt[t]
    BY <1>20 DEF Unbind, TargetInv, Targeting
  <2>2. t \in Binding(m) /\ Binding(m)' = Binding(m) \ {t}
    BY <1>20, <2>1 DEF Unbind, Go, Binding, TypesOver
  <2>3. cond_count[m] > 0
    BY <2>2, CondCountPositive
  <2>4. /\ \A k \in Mutexes : Bound(k)' = Bound(k)
        /\ \A k \in Mutexes : k # m => Binding(k)' = Binding(k)
        /\ cond_count' = [cond_count EXCEPT ![m] = @ - 1]
    BY <1>20, <2>1, <2>3 DEF Unbind, sys_mutex_unbind_cond, Go, Bound, Binding,
         TypesOver, condVars
  <2>5. Cardinality(Binding(m)') = Cardinality(Binding(m)) - 1
    BY <2>2, CountSetsFinite, FS_RemoveElement
  <2>6. ASSUME NEW k \in Mutexes
        PROVE  (cond_count[k] = Cardinality(Bound(k)) + Cardinality(Binding(k)))'
    <3>1. CASE k = m
      BY <2>4, <2>5, <3>1, CountSetsFinite DEF TypesOver, CondCountInv
    <3>2. CASE k # m
      BY <2>4, <2>5, <3>2 DEF TypesOver, CondCountInv
    <3> QED BY <3>1, <3>2
  <2> QED BY <2>6 DEF CondCountInv
<1>21. ASSUME NEW c \in Conds, NEW timed \in BOOLEAN, sys_cond_wait(t, c, timed)
      PROVE  CondCountSame
  BY <1>21 DEF sys_cond_wait, Acquirable, Owns, Leave, GoOn, Go, Idle,
          TypesOver, Waiting, CondCountSame, Bound, Binding, mutexVars,
          slotVars, condVars
<1>22. ASSUME WaitSignalled(t)
      PROVE  CondCountSame
  BY <1>22 DEF WaitSignalled, Waiting, Go, Idle, TypesOver, CondCountSame,
          Bound, Binding, mutexVars, slotVars, condVars
<1>23. ASSUME NEW r \in {"ETIMEDOUT", "EFAULT"}, WaitEnded(t, r)
      PROVE  CondCountSame
  BY <1>23 DEF WaitEnded, Waiting, Go, Idle, TypesOver, CondCountSame, Bound,
          Binding, mutexVars, slotVars, condVars
<1>24. ASSUME Relock(t)
      PROVE  CondCountSame
  BY <1>24 DEF Relock, Enter, Go, Idle, TypesOver, Waiting, CondCountSame,
          Bound, Binding, mutexVars, slotVars, condVars
<1>25. ASSUME NEW c \in Conds, NEW all \in BOOLEAN, signal_cond(t, c, all)
      PROVE  CondCountSame
  BY <1>25 DEF signal_cond, Acquirable, Go, Idle, TypesOver, Waiting,
          CondCountSame, Bound, Binding, mutexVars, slotVars, condVars
<1>26. ASSUME SignalWaiter(t)
      PROVE  CondCountSame
  BY <1>26 DEF SignalWaiter, Go, Idle, TypesOver, Waiting, CondCountSame, Bound,
          Binding, mutexVars, slotVars, condVars
<1>27. ASSUME SignalEnd(t)
      PROVE  CondCountSame
  BY <1>27 DEF SignalEnd, Go, Idle, TypesOver, Waiting, CondCountSame, Bound,
          Binding, mutexVars, slotVars, condVars
<1>28. CondCountSame => CondCountInv'
  BY DEF CondCountSame, CondCountInv
<1> QED
  BY <1>1, <1>2, <1>3, <1>4, <1>5, <1>6, <1>7, <1>8, <1>9, <1>10, <1>11, <1>12,
     <1>13, <1>14, <1>15, <1>16, <1>17, <1>18, <1>19, <1>20, <1>21, <1>22,
     <1>23, <1>24, <1>25, <1>26, <1>27, <1>28 DEF Step

(* relock_pending and what it counts are as they were. *)
RelockSame ==
  /\ UNCHANGED relock_pending
  /\ \A k \in Mutexes : Relockers(k)' = Relockers(k)

(* Every action keeps relock_pending exact.                                *)
LEMMA RelockCountStep ==
  ASSUME IInv, NEW t \in Threads, Step(t)
  PROVE  RelockCountInv'
<1> TypesOver(Int) /\ TargetInv /\ LiveInv /\ QueueInv /\ RelockCountInv
  BY DEF IInv
<1>1. ASSUME NEW m \in Mutexes, NEW rec \in BOOLEAN,
              sys_mutex_create(t, m, rec), UNCHANGED condVars
      PROVE  RelockCountInv'
  <2>1. Relockers(m) = {}
    BY <1>1 DEF sys_mutex_create, LiveInv, Away, Relockers, Relocking
  <2>2. \A k \in Mutexes : Relockers(k)' = Relockers(k)
    BY <1>1 DEF sys_mutex_create, Relockers, Relocking, Waiting, condVars
  <2>3. Cardinality(Relockers(m)) = 0
    BY <2>1, FS_EmptySet
  <2> QED
    BY <1>1, <2>2, <2>3 DEF sys_mutex_create, TypesOver, RelockCountInv
<1>2. ASSUME NEW m \in Mutexes, NEW timed \in BOOLEAN,
              sys_mutex_lock(t, m, timed), UNCHANGED condVars
      PROVE  RelockSame
  BY <1>2 DEF sys_mutex_lock, GoOn, Go, Idle, TypesOver, Waiting, RelockSame,
          Relockers, Relocking, mutexVars, slotVars, condVars
<1>3. ASSUME LockAcquired(t), UNCHANGED condVars
      PROVE  RelockSame
  BY <1>3 DEF LockAcquired, Locking, Enter, Given, Go, Idle, TypesOver, Waiting,
          RelockSame, Relockers, Relocking, mutexVars, slotVars, condVars
<1>4. ASSUME LockGone(t), UNCHANGED condVars
      PROVE  RelockSame
  BY <1>4 DEF LockGone, Locking, Go, Idle, TypesOver, Waiting, RelockSame,
          Relockers, Relocking, mutexVars, slotVars, condVars
<1>5. ASSUME LockTimedOut(t), UNCHANGED condVars
      PROVE  RelockSame
  BY <1>5 DEF LockTimedOut, Go, Idle, TypesOver, Waiting, RelockSame, Relockers,
          Relocking, mutexVars, slotVars, condVars
<1>6. ASSUME NEW m \in Mutexes, TrylockAgain(t, m), UNCHANGED condVars
      PROVE  RelockSame
  BY <1>6 DEF TrylockAgain, Enter, Given, Idle, TypesOver, Waiting, RelockSame,
          Relockers, Relocking, mutexVars, slotVars, condVars
<1>7. ASSUME NEW m \in Mutexes, sys_mutex_trylock(t, m), UNCHANGED condVars
      PROVE  RelockSame
  BY <1>7 DEF sys_mutex_trylock, GoOn, Go, Idle, TypesOver, Waiting, RelockSame,
          Relockers, Relocking, mutexVars, slotVars, condVars
<1>8. ASSUME TrylockAcquired(t), UNCHANGED condVars
      PROVE  RelockSame
  BY <1>8 DEF TrylockAcquired, Enter, Given, Go, Idle, TypesOver, Waiting,
          RelockSame, Relockers, Relocking, mutexVars, slotVars, condVars
<1>9. ASSUME TrylockRefused(t), UNCHANGED condVars
      PROVE  RelockSame
  BY <1>9 DEF TrylockRefused, Go, Idle, TypesOver, Waiting, RelockSame,
          Relockers, Relocking, mutexVars, slotVars, condVars
<1>10. ASSUME NEW m \in Mutexes, sys_mutex_unlock(t, m), UNCHANGED condVars
      PROVE  RelockSame
  BY <1>10 DEF sys_mutex_unlock, Leave, Idle, TypesOver, Waiting, RelockSame,
          Relockers, Relocking, mutexVars, slotVars, condVars
<1>11. ASSUME NEW m \in Mutexes, sys_mutex_destroy(t, m), UNCHANGED condVars
      PROVE  RelockSame
  BY <1>11 DEF sys_mutex_destroy, Enter, GoOn, Go, Idle, TypesOver, Waiting,
          RelockSame, Relockers, Relocking, mutexVars, slotVars, condVars
<1>12. ASSUME DestroyBusy(t), UNCHANGED condVars
      PROVE  RelockSame
  BY <1>12 DEF DestroyBusy, DestroyDone, Leave, Go, Idle, TypesOver, Waiting,
          RelockSame, Relockers, Relocking, mutexVars, slotVars, condVars
<1>13. ASSUME DestroyUnowned(t), UNCHANGED condVars
      PROVE  RelockSame
  BY <1>13 DEF DestroyUnowned, Go, Idle, TypesOver, Waiting, RelockSame,
          Relockers, Relocking, mutexVars, slotVars, condVars
<1>14. ASSUME DestroyBound(t), UNCHANGED condVars
      PROVE  RelockSame
  BY <1>14 DEF DestroyBound, DestroyDone, Leave, Go, Idle, TypesOver, Waiting,
          RelockSame, Relockers, Relocking, mutexVars, slotVars, condVars
<1>15. ASSUME DestroyFreed(t), UNCHANGED condVars
      PROVE  RelockSame
  BY <1>15 DEF DestroyFreed, DestroyDone, Leave, Go, Idle, TypesOver, Waiting,
          RelockSame, Relockers, Relocking, mutexVars, slotVars, condVars
<1>16. ASSUME NEW m \in Mutexes, sys_cond_create(t, m)
      PROVE  RelockSame
  BY <1>16 DEF sys_cond_create, sys_mutex_bind_cond, GoOn, Go, Idle, TypesOver,
          Waiting, RelockSame, Relockers, Relocking, mutexVars, slotVars,
          condVars
<1>17. ASSUME NEW c \in Conds, CondSlot(t, c)
      PROVE  RelockSame
  BY <1>17 DEF CondSlot, Go, Idle, TypesOver, Waiting, RelockSame, Relockers,
          Relocking, mutexVars, slotVars, condVars
<1>18. ASSUME CondTableFull(t)
      PROVE  RelockSame
  BY <1>18 DEF CondTableFull, Go, Idle, TypesOver, Waiting, RelockSame,
          Relockers, Relocking, mutexVars, slotVars, condVars
<1>19. ASSUME NEW c \in Conds, sys_cond_destroy(t, c)
      PROVE  RelockSame
  BY <1>19 DEF sys_cond_destroy, Acquirable, GoOn, Go, Idle, TypesOver, Waiting,
          RelockSame, Relockers, Relocking, mutexVars, slotVars, condVars
<1>20. ASSUME Unbind(t)
      PROVE  RelockSame
  BY <1>20 DEF Unbind, sys_mutex_unbind_cond, Go, Idle, TypesOver, Waiting,
          RelockSame, Relockers, Relocking, mutexVars, slotVars, condVars
<1>21. ASSUME NEW c \in Conds, NEW timed \in BOOLEAN, sys_cond_wait(t, c, timed)
      PROVE  RelockSame
  BY <1>21 DEF sys_cond_wait, Acquirable, Owns, Leave, GoOn, Go, Idle,
          TypesOver, Waiting, RelockSame, Relockers, Relocking, mutexVars,
          slotVars, condVars
<1>22. ASSUME WaitSignalled(t)
      PROVE  RelockSame
  BY <1>22 DEF WaitSignalled, Waiting, Go, Idle, TypesOver, RelockSame,
          Relockers, Relocking, mutexVars, slotVars, condVars
<1>23. ASSUME NEW r \in {"ETIMEDOUT", "EFAULT"}, WaitEnded(t, r)
      PROVE  RelockCountInv'
  <2>1. PICK m \in Mutexes : m = tgt[t]
    BY <1>23 DEF WaitEnded, Waiting, TargetInv, Targeting
  <2>2. Parked(t)
    BY <1>23 DEF WaitEnded, Parked
  <2>3. t \notin Relockers(m) /\ Relockers(m)' = Relockers(m) \cup {t}
    BY <1>23, <2>1, <2>2 DEF WaitEnded, Go, Parked, Waiting, Relockers, Relocking,
         TypesOver
  <2>4. /\ \A k \in Mutexes : k # m => Relockers(k)' = Relockers(k)
        /\ relock_pending' = [relock_pending EXCEPT ![m] = @ + 1]
    BY <1>23, <2>1, <2>2 DEF WaitEnded, Go, Parked, Waiting, Relockers, Relocking,
         TypesOver
  <2>5. Cardinality(Relockers(m)') = Cardinality(Relockers(m)) + 1
    BY <2>3, CountSetsFinite, FS_AddElement
  <2> QED
    BY <2>4, <2>5, CountSetsFinite DEF TypesOver, RelockCountInv
<1>24. ASSUME Relock(t)
      PROVE  RelockCountInv'
  <2>1. PICK m \in Mutexes : m = tgt[t]
    BY <1>24 DEF Relock, TargetInv, Targeting
  <2>2. t \in Relockers(m) /\ Relockers(m)' = Relockers(m) \ {t}
    BY <1>24, <2>1 DEF Relock, Go, Waiting, Relockers, Relocking, TypesOver, condVars
  <2>3. /\ \A k \in Mutexes : k # m => Relockers(k)' = Relockers(k)
        /\ relock_pending' = [relock_pending EXCEPT ![m] = @ - 1]
    BY <1>24, <2>1 DEF Relock, Go, Waiting, Relockers, Relocking, TypesOver, condVars
  <2>4. Cardinality(Relockers(m)') = Cardinality(Relockers(m)) - 1
    BY <2>2, CountSetsFinite, FS_RemoveElement
  <2> QED
    BY <2>3, <2>4, CountSetsFinite DEF TypesOver, RelockCountInv
<1>25. ASSUME NEW c \in Conds, NEW all \in BOOLEAN, signal_cond(t, c, all)
      PROVE  RelockSame
  BY <1>25 DEF signal_cond, Acquirable, Go, Idle, TypesOver, Waiting,
          RelockSame, Relockers, Relocking, mutexVars, slotVars, condVars
<1>26. ASSUME SignalWaiter(t)
      PROVE  RelockCountInv'
  <2>0. PICK c \in Conds : c = cnd[t] /\ waiters[c] # <<>>
    BY <1>26 DEF SignalWaiter, TargetInv, Signalling
  <2>6. /\ 1 \in DOMAIN waiters[c] /\ waiters[c][1] = Head(waiters[c])
        /\ Head(waiters[c]) \in Threads
    BY <2>0, TailTakesOut DEF TypesOver
  <2>2. PICK w \in Threads : w = Head(waiters[c]) /\ Parked(w) /\ cnd[w] = c /\ c = cnd[t]
    BY <2>0, <2>6 DEF QueueInv
  <2>1. PICK m \in Mutexes : m = c_mutex[c] /\ m = tgt[w]
    BY <2>2 DEF QueueInv, Parked, Waiting, TargetInv, Targeting
  <2>3. w \notin Relockers(m) /\ Relockers(m)' = Relockers(m) \cup {w}
    BY <1>26, <2>1, <2>2 DEF SignalWaiter, Go, Parked, Waiting, Relockers, Relocking,
         TypesOver
  <2>4. /\ \A k \in Mutexes : k # m => Relockers(k)' = Relockers(k)
        /\ relock_pending' = [relock_pending EXCEPT ![m] = @ + 1]
    BY <1>26, <2>1, <2>2 DEF SignalWaiter, Go, Parked, Waiting, Relockers, Relocking,
         TypesOver
  <2>5. Cardinality(Relockers(m)') = Cardinality(Relockers(m)) + 1
    BY <2>3, CountSetsFinite, FS_AddElement
  <2> QED
    BY <2>4, <2>5, CountSetsFinite DEF TypesOver, RelockCountInv
<1>27. ASSUME SignalEnd(t)
      PROVE  RelockSame
  BY <1>27 DEF SignalEnd, Go, Idle, TypesOver, Waiting, RelockSame, Relockers,
          Relocking, mutexVars, slotVars, condVars
<1>28. RelockSame => RelockCountInv'
  BY DEF RelockSame, RelockCountInv
<1> QED
  BY <1>1, <1>2, <1>3, <1>4, <1>5, <1>6, <1>7, <1>8, <1>9, <1>10, <1>11, <1>12,
     <1>13, <1>14, <1>15, <1>16, <1>17, <1>18, <1>19, <1>20, <1>21, <1>22,
     <1>23, <1>24, <1>25, <1>26, <1>27, <1>28 DEF Step

----------------------------------------------------------------------------

(* The invariant holds initially.                                          *)
LEMMA InitInv == Init => IInv
<1> SUFFICES ASSUME Init PROVE IInv
  OBVIOUS
<1> USE DEF Init, MutexInit, CondInit
<1>1. TypesOver(Int)
  BY DEF TypesOver, PcValues
<1>2. TargetInv
  BY DEF TargetInv, Targeting, Signalling, Waiting
<1>3. HostInv
  BY ThreadsAssumption DEF HostInv, HostLock, Probing, Probed
<1>4. AwayInv /\ LiveInv
  BY DEF AwayInv, LiveInv, Away, Waiting, Probing
<1>5. SignalInv /\ ProbeInv
  BY DEF SignalInv, ProbeInv, Signalling, Waiting
<1>8. QueueInv
  <2>1. \A c \in Conds : DOMAIN waiters[c] = {}
    OBVIOUS
  <2>2. \A t \in Threads : ~Parked(t)
    BY DEF Parked, Waiting
  <2> QED BY <2>1, <2>2 DEF QueueInv
<1>6. \A m \in Mutexes : Bound(m) = {} /\ Binding(m) = {} /\ Relockers(m) = {}
  BY DEF Bound, Binding, Relockers, Relocking, Waiting
<1>7. CondCountInv /\ RelockCountInv
  <2>1. Cardinality({}) = 0
    BY FS_EmptySet
  <2>2. \A m \in Mutexes : cond_count[m] = 0 /\ relock_pending[m] = 0
    OBVIOUS
  <2>3. ASSUME NEW m \in Mutexes
        PROVE  /\ cond_count[m] = Cardinality(Bound(m)) + Cardinality(Binding(m))
               /\ relock_pending[m] = Cardinality(Relockers(m))
    <3>1. Bound(m) = {} /\ Binding(m) = {} /\ Relockers(m) = {}
      BY <1>6
    <3> HIDE DEF Init, MutexInit, CondInit
    <3> QED BY <2>1, <2>2, <3>1
  <2> QED BY <2>3 DEF CondCountInv, RelockCountInv
<1> QED BY <1>1, <1>2, <1>3, <1>4, <1>5, <1>7, <1>8 DEF IInv

(* A stuttering step keeps it.                                             *)
LEMMA StutterInv == IInv /\ UNCHANGED vars => IInv'
<1> SUFFICES ASSUME IInv, UNCHANGED vars PROVE IInv'
  OBVIOUS
<1> USE DEF vars, mutexVars, slotVars, condVars
<1>1. (TypesOver(Int) /\ TargetInv)'
  BY DEF IInv, TypesOver, TargetInv, Targeting, Signalling, Waiting
<1>2. (HostInv /\ AwayInv /\ LiveInv)'
  BY DEF IInv, HostInv, HostLock, Probing, Probed, AwayInv, LiveInv, Away, Waiting
<1>3. (QueueInv /\ SignalInv /\ ProbeInv)'
  BY DEF IInv, QueueInv, Parked, SignalInv, ProbeInv, Signalling, Waiting
<1>4. (CondCountInv /\ RelockCountInv)'
  BY DEF IInv, CondCountInv, RelockCountInv, Bound, Binding, Relockers, Relocking,
       Waiting
<1> QED BY <1>1, <1>2, <1>3, <1>4 DEF IInv

(* The inductive invariant holds in every reachable state of mutexes and   *)
(* conds together, for any number of threads, mutexes and conds.           *)
THEOREM Invariance == Spec => []IInv
<1>1. IInv /\ [Next]_vars => IInv'
  <2> SUFFICES ASSUME IInv, Next PROVE IInv'
    BY StutterInv
  <2>1. PICK t \in Threads : Step(t)
    BY NextIsStep
  <2> QED
    BY <2>1, TypeStep, TargetStep, HostStep, AwayStep, LiveStep, QueueStep,
       SignalStep, CondCountStep, RelockCountStep, ProbeStep DEF IInv
<1> QED BY <1>1, InitInv, PTL DEF Spec

(* Every variable keeps its type; no counter that sys_cond_wait and        *)
(* sys_mutex_unlock decrement passes below zero.                           *)
THEOREM TypeCorrectness == Spec => []TypeOK
<1>1. IInv => TypeOK
  <2> SUFFICES ASSUME IInv PROVE TypeOK
    OBVIOUS
  <2>1. ASSUME NEW m \in Mutexes
        PROVE  /\ lock_count[m] \in Nat /\ csDepth[m] \in Nat
               /\ cond_count[m] \in Nat /\ relock_pending[m] \in Nat
               /\ \A t \in Threads : holds[t][m] \in Nat
    <3>1. lock_count[m] \in Nat
      BY DEF IInv, TypesOver, HostInv, HostLock
    <3>2. csDepth[m] \in Nat /\ \A t \in Threads : holds[t][m] \in Nat
      BY <3>1 DEF IInv, HostInv, HostLock
    <3>3. cond_count[m] \in Nat /\ relock_pending[m] \in Nat
      BY CountSetsFinite DEF IInv, CondCountInv, RelockCountInv
    <3> QED BY <3>1, <3>2, <3>3
  <2>2. depth \in [Threads -> Nat]
    BY DEF IInv, TypesOver, AwayInv
  <2> QED BY <2>1, <2>2 DEF IInv, TypesOver, TypeOK
<1> QED BY <1>1, Invariance, PTL

(* Mutual exclusion and the Enter/Leave pairing of the host lock.          *)
THEOREM MutualExclusion == Spec => []HoldersExclude
<1>1. IInv => HoldersExclude
  <2> SUFFICES ASSUME IInv, NEW t \in Threads, NEW m \in Mutexes, holds[t][m] > 0
               PROVE  /\ active[m] /\ owner_tid[m] = t /\ lock_count[m] = holds[t][m]
                      /\ csOwner[m] = t /\ csDepth[m] >= holds[t][m]
    BY DEF HoldersExclude
  <2>1. HostLock(m) /\ lock_count[m] \in Int /\ (lock_count[m] > 0 => active[m])
    BY DEF IInv, HostInv, LiveInv, TypesOver
  <2>2. owner_tid[m] = t /\ lock_count[m] = holds[t][m]
    BY <2>1 DEF HostLock
  <2> QED BY <2>1, <2>2 DEF HostLock
<1> QED BY <1>1, Invariance, PTL

(* The host lock is held exactly as deep as the guest locked the mutex,    *)
(* plus one level while sys_mutex_destroy probes it.                       *)
THEOREM HostLockExact == Spec => []HostLockMatches
<1>1. IInv => HostLockMatches
  <2> SUFFICES ASSUME IInv, NEW m \in Mutexes
               PROVE  /\ csOwner[m] = NoThread <=> csDepth[m] = 0
                      /\ csDepth[m] = lock_count[m] + Cardinality(
                            {t \in Threads : Probing(t) /\ tgt[t] = m})
    BY DEF HostLockMatches
  <2> DEFINE P == {t \in Threads : Probing(t) /\ tgt[t] = m}
  <2>1. HostLock(m) /\ lock_count[m] \in Int /\ mtx_table \in Threads \cup {NoThread}
        /\ \A t \in Threads : Probing(t) <=> mtx_table = t
    BY DEF IInv, HostInv, TypesOver
  <2>2. Cardinality(P) = IF Probed(m) THEN 1 ELSE 0
    <3>1. CASE Probed(m)
      <4>1. P = {mtx_table}
        BY <2>1, <3>1 DEF Probed
      <4> QED BY <4>1, <3>1, FS_Singleton
    <3>2. CASE ~Probed(m)
      <4>1. P = {}
        BY <2>1, <3>2, ThreadsAssumption DEF Probed
      <4> QED BY <4>1, <3>2, FS_EmptySet
    <3> QED BY <3>1, <3>2
  <2>3. csDepth[m] = lock_count[m] + Cardinality(P)
    BY <2>1, <2>2 DEF HostLock
  <2>4. csOwner[m] = NoThread <=> csDepth[m] = 0
    BY <2>1, ThreadsAssumption DEF HostLock, Probed
  <2> QED BY <2>3, <2>4
<1> QED BY <1>1, Invariance, PTL

(* cond_count and relock_pending count what they stand for, and what they  *)
(* count keeps the mutex live.                                             *)
THEOREM CountsExact == Spec => [](CondsCounted /\ RelockersCounted)
<1>1. IInv => CondsCounted /\ RelockersCounted
  <2> SUFFICES ASSUME IInv, NEW m \in Mutexes
               PROVE  /\ cond_count[m] > 0 => active[m]
                      /\ relock_pending[m] > 0 => active[m]
    BY DEF IInv, CondCountInv, RelockCountInv, CondsCounted, RelockersCounted
  <2>1. ASSUME cond_count[m] > 0 PROVE active[m]
    <3>1. Bound(m) # {} \/ Binding(m) # {}
      BY <2>1, CountSetsFinite, FS_EmptySet DEF IInv, CondCountInv
    <3> QED BY <3>1 DEF IInv, LiveInv, Bound, Binding
  <2>2. ASSUME relock_pending[m] > 0 PROVE active[m]
    <3>1. Relockers(m) # {}
      BY <2>2, CountSetsFinite, FS_EmptySet DEF IInv, RelockCountInv
    <3> QED BY <3>1 DEF IInv, LiveInv, Relockers, Relocking, Away
  <2> QED BY <2>1, <2>2
<1> QED BY <1>1, Invariance, PTL

(* The half of it about conds: cond_count, which sys_mutex_destroy reads    *)
(* to refuse a mutex in use, is the number of conds bound or being bound.   *)
THEOREM CondCountsExact == Spec => []CondsCounted
BY CountsExact, PTL

(* No signal is lost or spent on a thread that reports a timeout.          *)
THEOREM NoLostSignal == Spec => []SignalKept
<1>1. IInv => SignalKept
  <2> SUFFICES ASSUME IInv, NEW t \in Threads
               PROVE  /\ Waiting(t) => \A c \in Conds :
                           (t \in Queued(c)) <=> (c = cnd[t] /\ ~signalled[t])
                      /\ Parked(t) => c_active[cnd[t]] /\ c_mutex[cnd[t]] = tgt[t]
                      /\ pc[t] = "relock" => (signalled[t] <=> result[t] = "OK")
    BY DEF SignalKept, Parked
  <2>1. ASSUME Waiting(t), NEW c \in Conds
        PROVE  (t \in Queued(c)) <=> (c = cnd[t] /\ ~signalled[t])
    BY <2>1 DEF IInv, QueueInv, Parked, Queued
  <2> QED BY <2>1 DEF IInv, QueueInv, SignalInv
<1> QED BY <1>1, Invariance, PTL

(* sys_mutex_destroy never frees a mutex in use, although it reads the     *)
(* slot's counters at different moments and signals move one of them.      *)
THEOREM DestroySafe == Spec => DestroyOnlyUnused
<1>1. IInv /\ [Next]_vars => [\A m \in Mutexes : active[m] /\ ~active'[m] => ~InUse(m)]_vars
  <2> SUFFICES ASSUME IInv, Next, NEW m \in Mutexes, active[m], ~active'[m]
               PROVE  ~InUse(m)
    OBVIOUS
  <2>1. PICK t \in Threads : Step(t)
    BY NextIsStep
  <2>2. \/ active' = active
        \/ \E k \in Mutexes : active' = [active EXCEPT ![k] = TRUE]
        \/ DestroyFreed(t)
    BY <2>1 DEF Step, sys_mutex_create, sys_mutex_lock, LockAcquired, LockGone,
         LockTimedOut,
       TrylockAgain, sys_mutex_trylock, TrylockAcquired, TrylockRefused, sys_mutex_unlock,
       sys_mutex_destroy, DestroyBusy, DestroyUnowned, DestroyBound, sys_cond_create,
       CondSlot, CondTableFull, sys_cond_destroy, Unbind, sys_cond_wait, WaitSignalled,
       WaitEnded, Relock, signal_cond, SignalWaiter, SignalEnd, slotVars
  <2>3. CASE DestroyFreed(t)
    <3>1. m = tgt[t]
      BY <2>3, FreedUnused DEF DestroyFreed, IInv, TypesOver
    <3> QED BY <2>3, <3>1, FreedUnused
  <2> QED BY <2>2, <2>3 DEF IInv, TypesOver
<1> QED BY <1>1, Invariance, PTL DEF Spec, DestroyOnlyUnused
=============================================================================
