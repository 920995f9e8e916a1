------------------------------- MODULE SysCond -------------------------------
(***************************************************************************)
(* runtime/syscalls/sys_cond.c composed with sys_mutex.c.  A waiter puts   *)
(* an explicit record on its cond before it gives the guest mutex up; a    *)
(* signal takes records off and counts each woken thread on the mutex      *)
(* (relock_pending) until it has the mutex back.                           *)
(*                                                                         *)
(* The cond's own lock (signal_lock) is held across several steps only by  *)
(* a signal, which marks the records one at a time; every other section    *)
(* under it is one step, taken while it is free.  acquire_cond's table     *)
(* lock is held only while the cond's lock is awaited, and no holder of    *)
(* the cond's lock takes the table lock, so it adds no behaviour.          *)
(***************************************************************************)
EXTENDS SysMutex, Sequences, SequencesExt

CONSTANT CondMax            \* SYS_COND_MAX

ASSUME CondAssumption == CondMax \in Nat

Conds == 1 .. CondMax

VARIABLES
    (* sys_cond_info, one function of the id per field *)
    c_active, c_mutex, waiters,
    cond_lock,              \* holder of c->signal_lock, or NoThread
    (* each thread: the cond of its call and the locals of sys_cond_wait *)
    cnd, depth, signalled, result

condVars == <<c_active, c_mutex, waiters, cond_lock, cnd, depth, signalled, result>>
vars     == <<mutexVars, condVars>>

CondInit ==
    /\ c_active  = [c \in Conds |-> FALSE]
    /\ c_mutex   = [c \in Conds |-> 0]
    /\ waiters   = [c \in Conds |-> <<>>]
    /\ cond_lock = [c \in Conds |-> NoThread]
    /\ cnd       = [t \in Threads |-> 0]
    /\ depth     = [t \in Threads |-> 0]
    /\ signalled = [t \in Threads |-> FALSE]
    /\ result    = [t \in Threads |-> "OK"]

(* acquire_cond succeeds: the cond is live and its lock is free. *)
Acquirable(c) == c_active[c] /\ cond_lock[c] = NoThread

----------------------------------------------------------------------------
(* sys_cond_create counts the cond on the mutex first, then looks for a    *)
(* slot, and gives the count back when there is none.                      *)

sys_cond_create(t, m) ==
    /\ Idle(t)
    /\ sys_mutex_bind_cond(m)                               \* ESRCH
    /\ GoOn(t, "c_slot", m)
    /\ UNCHANGED <<active, recursive, owner_tid, lock_count, relock_pending,
                   csOwner, csDepth, mtx_table, holds, condVars>>

CondSlot(t, c) ==
    /\ pc[t] = "c_slot"
    /\ ~c_active[c] /\ \A k \in 1 .. (c - 1) : c_active[k]
    /\ c_active' = [c_active EXCEPT ![c] = TRUE]
    /\ c_mutex'  = [c_mutex  EXCEPT ![c] = tgt[t]]
    /\ waiters'  = [waiters  EXCEPT ![c] = <<>>]
    /\ Go(t, "idle")
    /\ UNCHANGED <<slotVars, csOwner, csDepth, mtx_table, tgt, holds,
                   cond_lock, cnd, depth, signalled, result>>

(* Mutant: a full table returns without giving the count back. *)
CondTableFullKeepsCount(t) ==
    /\ pc[t] = "c_slot" /\ \A c \in Conds : c_active[c]
    /\ Go(t, "idle")
    /\ UNCHANGED <<slotVars, csOwner, csDepth, mtx_table, tgt, holds, condVars>>

CondTableFull(t) ==                                         \* EAGAIN
    /\ pc[t] = "c_slot" /\ \A c \in Conds : c_active[c]
    /\ Go(t, "unbind")
    /\ UNCHANGED <<slotVars, csOwner, csDepth, mtx_table, tgt, holds, condVars>>

(* sys_cond_destroy: EBUSY while a thread waits; the mutex is told after   *)
(* the cond's locks are released.                                          *)
sys_cond_destroy(t, c) ==
    /\ Idle(t) /\ Acquirable(c)
    /\ waiters[c] = <<>>
    /\ c_active' = [c_active EXCEPT ![c] = FALSE]
    /\ GoOn(t, "unbind", c_mutex[c])
    /\ UNCHANGED <<slotVars, csOwner, csDepth, mtx_table, holds,
                   c_mutex, waiters, cond_lock, cnd, depth, signalled, result>>

Unbind(t) ==
    /\ pc[t] = "unbind"
    /\ sys_mutex_unbind_cond(tgt[t])
    /\ Go(t, "idle")
    /\ UNCHANGED <<active, recursive, owner_tid, lock_count, relock_pending,
                   csOwner, csDepth, mtx_table, tgt, holds, condVars>>

----------------------------------------------------------------------------
(* sys_cond_wait *)

(* Up to the sleep: the record joins the cond's tail and every level of    *)
(* the guest mutex is given up, all under the cond's lock.                 *)
sys_cond_wait(t, c, timed) ==
    LET m == c_mutex[c] IN
    /\ Idle(t) /\ Acquirable(c)
    /\ active[m] /\ Owns(t, m)                              \* ESRCH, EPERM
    /\ waiters'    = [waiters    EXCEPT ![c] = Append(@, t)]
    /\ signalled'  = [signalled  EXCEPT ![t] = FALSE]
    /\ result'     = [result     EXCEPT ![t] = "OK"]
    /\ cnd'        = [cnd        EXCEPT ![t] = c]
    /\ depth'      = [depth      EXCEPT ![t] = lock_count[m]]
    /\ owner_tid'  = [owner_tid  EXCEPT ![m] = NoThread]
    /\ lock_count' = [lock_count EXCEPT ![m] = 0]
    /\ holds'      = [holds      EXCEPT ![t][m] = 0]
    /\ Leave(m, lock_count[m])
    /\ GoOn(t, IF timed THEN "timedwait" ELSE "wait", m)
    /\ UNCHANGED <<active, recursive, cond_count, relock_pending, mtx_table,
                   c_active, c_mutex, cond_lock>>

Waiting(t) == pc[t] \in {"wait", "timedwait"}

(* The record was signalled.  A timeout at the same moment does not count. *)
WaitSignalled(t) ==
    /\ Waiting(t) /\ signalled[t] /\ cond_lock[cnd[t]] = NoThread
    /\ Go(t, "relock")
    /\ UNCHANGED <<slotVars, csOwner, csDepth, mtx_table, tgt, holds, condVars>>

(* Timed out, or the host wait failed (EFAULT), with the record still on   *)
(* the cond: take it off and count as an owner of the mutex.               *)

(* Mutant: a timeout that does not look whether a signal came first. *)
WaitEndedAnyway(t, r) ==
    LET c == cnd[t] IN
    /\ Waiting(t) /\ cond_lock[c] = NoThread
    /\ r = "ETIMEDOUT" => pc[t] = "timedwait"
    /\ result' = [result EXCEPT ![t] = r]
    /\ waiters' = [waiters EXCEPT ![c] = SelectSeq(@, LAMBDA w : w # t)]
    /\ relock_pending' = [relock_pending EXCEPT ![tgt[t]] =
                            IF signalled[t] THEN @ ELSE @ + 1]
    /\ Go(t, "relock")
    /\ UNCHANGED <<active, recursive, owner_tid, lock_count, cond_count,
                   csOwner, csDepth, mtx_table, tgt, holds,
                   c_active, c_mutex, cond_lock, cnd, depth, signalled>>

WaitEnded(t, r) ==
    LET c == cnd[t] IN
    /\ Waiting(t) /\ ~signalled[t] /\ cond_lock[c] = NoThread
    /\ r = "ETIMEDOUT" => pc[t] = "timedwait"
    /\ result' = [result EXCEPT ![t] = r]
    /\ \E i \in DOMAIN waiters[c] :
          /\ waiters[c][i] = t
          /\ waiters' = [waiters EXCEPT ![c] = RemoveAt(@, i)]
    /\ relock_pending' = [relock_pending EXCEPT ![tgt[t]] = @ + 1]
    /\ Go(t, "relock")
    /\ UNCHANGED <<active, recursive, owner_tid, lock_count, cond_count,
                   csOwner, csDepth, mtx_table, tgt, holds,
                   c_active, c_mutex, cond_lock, cnd, depth, signalled>>

(* Every level of the host lock again, then the guest's owner and count.   *)
(* There is no look at active here.                                        *)
Relock(t) ==
    LET m == tgt[t] IN
    /\ pc[t] = "relock" /\ CanEnter(t, m)
    /\ Enter(t, m, depth[t])
    /\ owner_tid'  = [owner_tid  EXCEPT ![m] = t]
    /\ lock_count' = [lock_count EXCEPT ![m] = depth[t]]
    /\ holds'      = [holds      EXCEPT ![t][m] = depth[t]]
    /\ relock_pending' = [relock_pending EXCEPT ![m] = @ - 1]
    /\ Go(t, "idle")
    /\ UNCHANGED <<active, recursive, cond_count, mtx_table, tgt, condVars>>

----------------------------------------------------------------------------
(* signal_cond: sys_cond_signal marks one record, sys_cond_signal_all and  *)
(* sys_cond_signal_to every record.                                        *)

signal_cond(t, c, all) ==
    /\ Idle(t) /\ Acquirable(c)
    /\ cond_lock' = [cond_lock EXCEPT ![c] = t]
    /\ cnd' = [cnd EXCEPT ![t] = c]
    /\ Go(t, IF all THEN "signal_all" ELSE "signal")
    /\ UNCHANGED <<slotVars, csOwner, csDepth, mtx_table, tgt, holds,
                   c_active, c_mutex, waiters, depth, signalled, result>>

(* Mutant: the woken thread is not counted on the mutex. *)
SignalWaiterUncounted(t) ==
    LET c == cnd[t] IN
    /\ pc[t] \in {"signal", "signal_all"} /\ waiters[c] # <<>>
    /\ waiters'   = [waiters   EXCEPT ![c] = Tail(@)]
    /\ signalled' = [signalled EXCEPT ![Head(waiters[c])] = TRUE]
    /\ Go(t, IF pc[t] = "signal" THEN "signal_end" ELSE "signal_all")
    /\ UNCHANGED <<slotVars, csOwner, csDepth, mtx_table, tgt, holds,
                   c_active, c_mutex, cond_lock, cnd, depth, result>>

(* Mutant: the record is taken off and counted, but not marked. *)
SignalWaiterUnmarked(t) ==
    LET c == cnd[t] IN
    /\ pc[t] \in {"signal", "signal_all"} /\ waiters[c] # <<>>
    /\ waiters' = [waiters EXCEPT ![c] = Tail(@)]
    /\ relock_pending' = [relock_pending EXCEPT ![c_mutex[c]] = @ + 1]
    /\ Go(t, IF pc[t] = "signal" THEN "signal_end" ELSE "signal_all")
    /\ UNCHANGED <<active, recursive, owner_tid, lock_count, cond_count,
                   csOwner, csDepth, mtx_table, tgt, holds,
                   c_active, c_mutex, cond_lock, cnd, depth, signalled, result>>

SignalWaiter(t) ==
    LET c == cnd[t] IN
    /\ pc[t] \in {"signal", "signal_all"} /\ waiters[c] # <<>>
    /\ waiters'   = [waiters   EXCEPT ![c] = Tail(@)]
    /\ signalled' = [signalled EXCEPT ![Head(waiters[c])] = TRUE]
    /\ relock_pending' = [relock_pending EXCEPT ![c_mutex[c]] = @ + 1]
    /\ Go(t, IF pc[t] = "signal" THEN "signal_end" ELSE "signal_all")
    /\ UNCHANGED <<active, recursive, owner_tid, lock_count, cond_count,
                   csOwner, csDepth, mtx_table, tgt, holds,
                   c_active, c_mutex, cond_lock, cnd, depth, result>>

SignalEnd(t) ==
    LET c == cnd[t] IN
    /\ \/ pc[t] = "signal_end"
       \/ pc[t] \in {"signal", "signal_all"} /\ waiters[c] = <<>>
    /\ cond_lock' = [cond_lock EXCEPT ![c] = NoThread]
    /\ Go(t, "idle")
    /\ UNCHANGED <<slotVars, csOwner, csDepth, mtx_table, tgt, holds,
                   c_active, c_mutex, waiters, cnd, depth, signalled, result>>

CondNext ==
    \E t \in Threads :
        \/ \E m \in Mutexes : sys_cond_create(t, m)
        \/ \E c \in Conds :
              \/ CondSlot(t, c)
              \/ sys_cond_destroy(t, c)
              \/ \E timed \in BOOLEAN : sys_cond_wait(t, c, timed)
              \/ \E all \in BOOLEAN : signal_cond(t, c, all)
        \/ CondTableFull(t) \/ Unbind(t)
        \/ WaitSignalled(t) \/ Relock(t)
        \/ \E r \in {"ETIMEDOUT", "EFAULT"} : WaitEnded(t, r)
        \/ SignalWaiter(t) \/ SignalEnd(t)

Init == MutexInit /\ CondInit

Next == (MutexNext /\ UNCHANGED condVars) \/ CondNext

Spec == Init /\ [][Next]_vars

(* The host keeps running a thread that is inside a syscall, and a lock    *)
(* that keeps coming free does not pass one waiting thread over forever.   *)
(* Guest threads owe no calls: nothing is assumed of an idle thread.       *)
CondFairness ==
    \A t \in Threads :
        /\ WF_vars((DestroyBusy(t) \/ DestroyUnowned(t) \/ DestroyBound(t)
                     \/ DestroyFreed(t)) /\ UNCHANGED condVars)
        /\ WF_vars(SignalWaiter(t) \/ SignalEnd(t))
        /\ SF_vars(WaitSignalled(t) \/ WaitEnded(t, "ETIMEDOUT"))
        /\ SF_vars(Relock(t))

FairSpec == Spec /\ CondFairness

----------------------------------------------------------------------------
(* What the two files promise. *)

Queued(c)  == {waiters[c][i] : i \in DOMAIN waiters[c]}
Probing(t) == pc[t] \in {"d_owner", "d_conds"}

PcValues ==
    {"idle", "lock", "timedlock", "trylock", "d_owner", "d_conds", "c_slot", "unbind",
     "wait", "timedwait", "relock", "signal", "signal_all", "signal_end"}

TypesOver(Count) ==
    /\ active         \in [Mutexes -> BOOLEAN]
    /\ recursive      \in [Mutexes -> BOOLEAN]
    /\ owner_tid      \in [Mutexes -> Threads \cup {NoThread}]
    /\ lock_count     \in [Mutexes -> Count]
    /\ cond_count     \in [Mutexes -> Count]
    /\ relock_pending \in [Mutexes -> Count]
    /\ csOwner        \in [Mutexes -> Threads \cup {NoThread}]
    /\ csDepth        \in [Mutexes -> Count]
    /\ mtx_table      \in Threads \cup {NoThread}
    /\ pc        \in [Threads -> PcValues]
    /\ tgt       \in [Threads -> Mutexes \cup {0}]
    /\ holds     \in [Threads -> [Mutexes -> Count]]
    /\ c_active  \in [Conds -> BOOLEAN]
    /\ c_mutex   \in [Conds -> Mutexes \cup {0}]
    /\ waiters   \in [Conds -> Seq(Threads)]
    /\ cond_lock \in [Conds -> Threads \cup {NoThread}]
    /\ cnd       \in [Threads -> Conds \cup {0}]
    /\ depth     \in [Threads -> Count]
    /\ signalled \in [Threads -> BOOLEAN]
    /\ result    \in [Threads -> {"OK", "ETIMEDOUT", "EFAULT"}]

(* Every variable keeps its type: in particular relock_pending, lock_count *)
(* and csDepth, decremented without a check in sys_cond_wait and           *)
(* sys_mutex_unlock, never pass below zero.                                *)
TypeOK == TypesOver(Nat)

(* Mutual exclusion through recursion, cond waits and recycled slots: a    *)
(* thread that was given a mutex n times is the slot's owner n deep, the   *)
(* slot is live, and the thread is inside the host lock (the Enter/Leave   *)
(* pairing sys_mutex_trylock's comment is about).                          *)
HoldersExclude ==
    \A t \in Threads, m \in Mutexes : holds[t][m] > 0 =>
        /\ active[m] /\ owner_tid[m] = t /\ lock_count[m] = holds[t][m]
        /\ csOwner[m] = t /\ csDepth[m] >= holds[t][m]

(* Nobody keeps the host lock of a mutex it does not hold: only the owner, *)
(* as often as it locked it, and sys_mutex_destroy's probe.                *)
HostLockMatches ==
    \A m \in Mutexes :
        /\ csOwner[m] = NoThread <=> csDepth[m] = 0
        /\ csDepth[m] = lock_count[m]
                        + Cardinality({t \in Threads : Probing(t) /\ tgt[t] = m})

Bound(m)   == {c \in Conds : c_active[c] /\ c_mutex[c] = m}
Binding(m) == {t \in Threads : pc[t] \in {"c_slot", "unbind"} /\ tgt[t] = m}

(* cond_count counts exactly the live conds on the mutex and the calls     *)
(* that are about to make or to give back one ("Every failure below must   *)
(* give the count back"), and a live cond's mutex is live.                 *)
CondsCounted ==
    \A m \in Mutexes :
        /\ cond_count[m] = Cardinality(Bound(m)) + Cardinality(Binding(m))
        /\ cond_count[m] > 0 => active[m]

Relocking(t) == pc[t] = "relock" \/ (Waiting(t) /\ signalled[t])
Relockers(m) == {t \in Threads : Relocking(t) /\ tgt[t] = m}

(* relock_pending counts exactly the threads off a cond and not yet back   *)
(* on the mutex, whose slot therefore stays theirs.                        *)
RelockersCounted ==
    \A m \in Mutexes :
        /\ relock_pending[m] = Cardinality(Relockers(m))
        /\ relock_pending[m] > 0 => active[m]

(* sys_mutex_destroy frees a slot only while no thread holds the mutex,    *)
(* waits on a cond of it or is on its way back to it, and no cond is bound *)
(* to it, although signals and timeouts move relock_pending while destroy  *)
(* is reading the slot.                                                    *)
InUse(m) ==
    \/ \E t \in Threads : holds[t][m] > 0
    \/ \E t \in Threads : (Waiting(t) \/ pc[t] = "relock") /\ tgt[t] = m
    \/ \E c \in Conds : c_active[c] /\ c_mutex[c] = m

DestroyOnlyUnused ==
    [][\A m \in Mutexes : active[m] /\ ~active'[m] => ~InUse(m)]_vars

(* A signal is neither lost nor spent on a thread that reports a timeout:  *)
(* a waiter is on its cond exactly until it is signalled, its cond stays   *)
(* live so long, and the result is OK exactly for the signalled.           *)
SignalKept ==
    \A t \in Threads :
        /\ Waiting(t) => \A c \in Conds :
              (t \in Queued(c)) <=> (c = cnd[t] /\ ~signalled[t])
        /\ Waiting(t) /\ ~signalled[t] => c_active[cnd[t]] /\ c_mutex[cnd[t]] = tgt[t]
        /\ pc[t] = "relock" => (signalled[t] <=> result[t] = "OK")

(* A thread that a signal took off its cond, or whose wait is timed,       *)
(* returns from sys_cond_wait with the mutex, as long as every guest mutex *)
(* keeps being released.                                                   *)
WaitReturns ==
    (\A m \in Mutexes : []<>(csOwner[m] = NoThread)) =>
        \A t \in Threads :
            (pc[t] = "timedwait" \/ (Waiting(t) /\ t \notin Queued(cnd[t]))) ~> Idle(t)
=============================================================================
