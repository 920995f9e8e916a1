------------------------------ MODULE SysMutex ------------------------------
(***************************************************************************)
(* runtime/syscalls/sys_mutex.c: the guest's kernel mutexes over the       *)
(* host's recursive lock, a CRITICAL_SECTION (the Windows build, the one   *)
(* that runs titles).  A slot is recycled by destroy and create while its  *)
(* CRITICAL_SECTION lives on, so a thread on its way into the lock may     *)
(* find the slot gone or a new mutex in it.                                *)
(*                                                                         *)
(* A syscall is one step, or several when it may block, or when it reads   *)
(* the slot at one moment and acts on it at a later one.  A call that      *)
(* returns an error at once changes nothing, so it is a step that is not   *)
(* taken: its condition is the negation of the guard.                      *)
(***************************************************************************)
EXTENDS Integers, FiniteSets

CONSTANTS
    Threads,    \* guest threads (ctx->thread_id, never 0)
    NoThread,   \* the owner_tid of a free mutex, 0 in the code
    MutexMax,   \* SYS_MUTEX_MAX
    MaxDepth    \* bound on recursive locking (lock_count is an int)

ASSUME ThreadsAssumption == IsFiniteSet(Threads) /\ NoThread \notin Threads
ASSUME BoundsAssumption  == MutexMax \in Nat /\ MaxDepth \in Nat \ {0}

Mutexes == 1 .. MutexMax   \* mutex_id is slot + 1

VARIABLES
    (* sys_mutex_info, one function of the id per field *)
    active, recursive, owner_tid, lock_count, cond_count, relock_pending,
    csOwner, csDepth,   \* m->cs: its owning thread and recursion count
    mtx_table,          \* holder of s_mtx_table_lock, or NoThread
    (* each thread: where its syscall is, and on which mutex *)
    pc, tgt,
    (* how often the guest holds each mutex, by the results it was given *)
    holds

slotVars  == <<active, recursive, owner_tid, lock_count, cond_count, relock_pending>>
mutexVars == <<slotVars, csOwner, csDepth, mtx_table, pc, tgt, holds>>

MutexInit ==
    /\ active         = [m \in Mutexes |-> FALSE]
    /\ recursive      = [m \in Mutexes |-> FALSE]
    /\ owner_tid      = [m \in Mutexes |-> NoThread]
    /\ lock_count     = [m \in Mutexes |-> 0]
    /\ cond_count     = [m \in Mutexes |-> 0]
    /\ relock_pending = [m \in Mutexes |-> 0]
    /\ csOwner        = [m \in Mutexes |-> NoThread]
    /\ csDepth        = [m \in Mutexes |-> 0]
    /\ mtx_table = NoThread
    /\ pc    = [t \in Threads |-> "idle"]
    /\ tgt   = [t \in Threads |-> 0]
    /\ holds = [t \in Threads |-> [m \in Mutexes |-> 0]]

----------------------------------------------------------------------------
(* The CRITICAL_SECTION.  TryEnter and Enter succeed for its owner. *)

CanEnter(t, m) == csOwner[m] \in {t, NoThread}

Enter(t, m, n) ==
    /\ csOwner' = [csOwner EXCEPT ![m] = t]
    /\ csDepth' = [csDepth EXCEPT ![m] = @ + n]

Leave(m, n) ==
    /\ csOwner' = [csOwner EXCEPT ![m] = IF csDepth[m] > n THEN @ ELSE NoThread]
    /\ csDepth' = [csDepth EXCEPT ![m] = @ - n]

Go(t, where)     == pc' = [pc EXCEPT ![t] = where]
GoOn(t, where, m) == Go(t, where) /\ tgt' = [tgt EXCEPT ![t] = m]

Idle(t) == pc[t] = "idle"

(* The caller of lock or trylock holds the mutex already. *)
Owns(t, m) == owner_tid[m] = t /\ lock_count[m] > 0

(* The caller is given the mutex: owner_tid, lock_count and CELL_OK. *)
Given(t, m) ==
    /\ owner_tid'  = [owner_tid  EXCEPT ![m] = t]
    /\ lock_count' = [lock_count EXCEPT ![m] = @ + 1]
    /\ holds'      = [holds EXCEPT ![t][m] = @ + 1]

----------------------------------------------------------------------------
(* sys_mutex_create: the lowest free slot, or EAGAIN when there is none.   *)
(* The CRITICAL_SECTION is kept as it is.                                  *)

sys_mutex_create(t, m, rec) ==
    /\ Idle(t) /\ mtx_table = NoThread
    /\ ~active[m] /\ \A k \in 1 .. (m - 1) : active[k]
    /\ active'         = [active         EXCEPT ![m] = TRUE]
    /\ recursive'      = [recursive      EXCEPT ![m] = rec]
    /\ owner_tid'      = [owner_tid      EXCEPT ![m] = NoThread]
    /\ lock_count'     = [lock_count     EXCEPT ![m] = 0]
    /\ cond_count'     = [cond_count     EXCEPT ![m] = 0]
    /\ relock_pending' = [relock_pending EXCEPT ![m] = 0]
    /\ UNCHANGED <<csOwner, csDepth, mtx_table, pc, tgt, holds>>

(* sys_mutex_lock reads the slot, then waits for the host lock, then looks *)
(* at the slot again.                                                      *)

sys_mutex_lock(t, m, timed) ==
    /\ Idle(t) /\ active[m]
    /\ ~(~recursive[m] /\ Owns(t, m))                       \* EDEADLK
    /\ Owns(t, m) => lock_count[m] < MaxDepth
    /\ GoOn(t, IF timed THEN "timedlock" ELSE "lock", m)
    /\ UNCHANGED <<slotVars, csOwner, csDepth, mtx_table, holds>>

Locking(t) == pc[t] \in {"lock", "timedlock"}

LockAcquired(t) ==
    LET m == tgt[t] IN
    /\ Locking(t) /\ CanEnter(t, m) /\ active[m]
    /\ Enter(t, m, 1)
    /\ Given(t, m)
    /\ Go(t, "idle")
    /\ UNCHANGED <<active, recursive, cond_count, relock_pending, mtx_table, tgt>>

(* Destroyed meanwhile: the host lock is entered and left again, ESRCH. *)

(* Mutant: the ESRCH return that forgets host_unlock. *)
LockGoneNoLeave(t) ==
    /\ Locking(t) /\ CanEnter(t, tgt[t]) /\ ~active[tgt[t]]
    /\ Enter(t, tgt[t], 1)
    /\ Go(t, "idle")
    /\ UNCHANGED <<slotVars, mtx_table, tgt, holds>>

LockGone(t) ==
    /\ Locking(t) /\ CanEnter(t, tgt[t]) /\ ~active[tgt[t]]
    /\ Go(t, "idle")
    /\ UNCHANGED <<slotVars, csOwner, csDepth, mtx_table, tgt, holds>>

LockTimedOut(t) ==
    /\ pc[t] = "timedlock" /\ ~CanEnter(t, tgt[t])
    /\ Go(t, "idle")
    /\ UNCHANGED <<slotVars, csOwner, csDepth, mtx_table, tgt, holds>>

(* sys_mutex_trylock: a recursive owner enters once more, at once. *)

(* Mutant: the recursive re-entry that skips the host lock. *)
TrylockAgainNoEnter(t, m) ==
    /\ Idle(t) /\ active[m] /\ recursive[m] /\ Owns(t, m)
    /\ lock_count[m] < MaxDepth
    /\ Given(t, m)
    /\ UNCHANGED <<active, recursive, cond_count, relock_pending, csOwner, csDepth,
                   mtx_table, pc, tgt>>

TrylockAgain(t, m) ==
    /\ Idle(t) /\ active[m] /\ recursive[m] /\ Owns(t, m)
    /\ lock_count[m] < MaxDepth
    /\ Enter(t, m, 1)
    /\ Given(t, m)
    /\ UNCHANGED <<active, recursive, cond_count, relock_pending, mtx_table, pc, tgt>>

sys_mutex_trylock(t, m) ==
    /\ Idle(t) /\ active[m] /\ ~Owns(t, m)
    /\ GoOn(t, "trylock", m)
    /\ UNCHANGED <<slotVars, csOwner, csDepth, mtx_table, holds>>

TrylockAcquired(t) ==
    LET m == tgt[t] IN
    /\ pc[t] = "trylock" /\ CanEnter(t, m) /\ active[m]
    /\ Enter(t, m, 1)
    /\ Given(t, m)
    /\ Go(t, "idle")
    /\ UNCHANGED <<active, recursive, cond_count, relock_pending, mtx_table, tgt>>

(* EBUSY, or ESRCH when the slot was destroyed meanwhile. *)
TrylockRefused(t) ==
    /\ pc[t] = "trylock" /\ (~CanEnter(t, tgt[t]) \/ ~active[tgt[t]])
    /\ Go(t, "idle")
    /\ UNCHANGED <<slotVars, csOwner, csDepth, mtx_table, tgt, holds>>

(* sys_mutex_unlock: EPERM for anyone but the owner. *)

sys_mutex_unlock(t, m) ==
    /\ Idle(t) /\ active[m] /\ owner_tid[m] = t
    /\ lock_count' = [lock_count EXCEPT ![m] = @ - 1]
    /\ owner_tid'  = [owner_tid  EXCEPT ![m] = IF lock_count[m] = 1 THEN NoThread ELSE @]
    /\ holds'      = [holds EXCEPT ![t][m] = @ - 1]
    /\ Leave(m, 1)
    /\ UNCHANGED <<active, recursive, cond_count, relock_pending, mtx_table, pc, tgt>>

(* sys_mutex_destroy, under the table lock: probe the host lock, then read *)
(* lock_count and relock_pending, then cond_count, at successive moments:  *)
(* a signal moves relock_pending without the table lock.                   *)

sys_mutex_destroy(t, m) ==
    /\ Idle(t) /\ mtx_table = NoThread
    /\ active[m] /\ CanEnter(t, m)                          \* ESRCH, EBUSY
    /\ mtx_table' = t
    /\ Enter(t, m, 1)
    /\ GoOn(t, "d_owner", m)
    /\ UNCHANGED <<slotVars, holds>>

DestroyDone(t) ==
    /\ mtx_table' = NoThread
    /\ Leave(tgt[t], 1)
    /\ Go(t, "idle")
    /\ UNCHANGED <<recursive, owner_tid, lock_count, cond_count, relock_pending, tgt, holds>>

(* Mutant: a cond waiter on its way back does not count as an owner. *)
OwnedNoRelock(m) == lock_count[m] > 0

Owned(m) == lock_count[m] > 0 \/ relock_pending[m] > 0

DestroyBusy(t) ==                                           \* EBUSY
    /\ pc[t] = "d_owner" /\ Owned(tgt[t])
    /\ DestroyDone(t)
    /\ UNCHANGED active

DestroyUnowned(t) ==
    /\ pc[t] = "d_owner" /\ ~Owned(tgt[t])
    /\ Go(t, "d_conds")
    /\ UNCHANGED <<slotVars, csOwner, csDepth, mtx_table, tgt, holds>>

DestroyBound(t) ==                                          \* EPERM
    /\ pc[t] = "d_conds" /\ cond_count[tgt[t]] > 0
    /\ DestroyDone(t)
    /\ UNCHANGED active

DestroyFreed(t) ==
    /\ pc[t] = "d_conds" /\ cond_count[tgt[t]] = 0
    /\ active' = [active EXCEPT ![tgt[t]] = FALSE]
    /\ DestroyDone(t)

MutexNext ==
    \E t \in Threads :
        \/ \E m \in Mutexes :
              \/ \E rec \in BOOLEAN : sys_mutex_create(t, m, rec)
              \/ \E timed \in BOOLEAN : sys_mutex_lock(t, m, timed)
              \/ TrylockAgain(t, m)
              \/ sys_mutex_trylock(t, m)
              \/ sys_mutex_unlock(t, m)
              \/ sys_mutex_destroy(t, m)
        \/ LockAcquired(t) \/ LockGone(t) \/ LockTimedOut(t)
        \/ TrylockAcquired(t) \/ TrylockRefused(t)
        \/ DestroyBusy(t) \/ DestroyUnowned(t)
        \/ DestroyBound(t) \/ DestroyFreed(t)

----------------------------------------------------------------------------
(* sys_mutex_bind_cond and sys_mutex_unbind_cond, for sys_cond.c: atomic   *)
(* under the mutex table lock.                                             *)

sys_mutex_bind_cond(m) ==
    /\ mtx_table = NoThread /\ active[m]
    /\ cond_count' = [cond_count EXCEPT ![m] = @ + 1]

sys_mutex_unbind_cond(m) ==
    /\ mtx_table = NoThread
    /\ cond_count' = [cond_count EXCEPT ![m] = IF @ > 0 THEN @ - 1 ELSE 0]
=============================================================================
