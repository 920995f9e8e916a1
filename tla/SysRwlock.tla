------------------------------ MODULE SysRwlock ------------------------------
(***************************************************************************)
(* A reader-writer lock of runtime/syscalls/sys_rwlock.c (the Windows      *)
(* build): an SRWLock, which knows no owner, and beside it the words that  *)
(* say who holds it.  Each access to a word is a step.  A guest thread     *)
(* gives back only a read lock that it took: the code does not check that. *)
(***************************************************************************)
EXTENDS Callers

CONSTANTS Nobody, MaxReads

ASSUME RwlockAssumption == Nobody \notin Threads /\ MaxReads \in Nat

VARIABLES
    excl, shared,               \* srw: its exclusive holder, each thread's shared holds
    rcount, wflag, writer_tid   \* the fields readers, writer and writer_tid

rwlockWords == <<rcount, wflag, writer_tid>>
rwlockVars  == <<excl, shared, rcount, wflag, writer_tid, pc>>

NoReads == [t \in Threads |-> 0]

RwlockInit ==
    /\ excl = Nobody /\ shared = NoReads
    /\ rcount = 0 /\ wflag = 0 /\ writer_tid = Nobody
    /\ NobodyCalls

(* sys_rwlock_destroy, which does not ask whether somebody holds the lock, *)
(* and sys_rwlock_create.  Neither asks for callers: that nobody is in a   *)
(* call is up to the guest, as an SRWLock that is made anew under a thread *)
(* in it has no defined outcome.                                           *)
sys_rwlock_create ==
    /\ NobodyCalls
    /\ excl' = Nobody /\ shared' = NoReads
    /\ rcount' = 0 /\ wflag' = 0 /\ writer_tid' = Nobody
    /\ UNCHANGED pc

----------------------------------------------------------------------------
(* The SRWLock. *)
AcquireShared(t) ==
    /\ excl = Nobody
    /\ shared' = [shared EXCEPT ![t] = @ + 1]
    /\ UNCHANGED excl

ReleaseShared(t) ==
    /\ shared' = [shared EXCEPT ![t] = @ - 1]
    /\ UNCHANGED excl

Unheld == excl = Nobody /\ \A u \in Threads : shared[u] = 0

AcquireExclusive(t) ==
    /\ Unheld
    /\ excl' = t
    /\ UNCHANGED shared

ReleaseExclusive == excl' = Nobody /\ UNCHANGED shared

----------------------------------------------------------------------------
sys_rwlock_rlock(t) ==
    /\ shared[t] < MaxReads
    /\ Moves(t, "idle", "rw_shared")
    /\ UNCHANGED <<excl, shared, rwlockWords>>

(* CELL_EBUSY beside a writer. *)
sys_rwlock_tryrlock(t) ==
    /\ shared[t] < MaxReads
    /\ Moves(t, "idle", "rw_counts")
    /\ AcquireShared(t)
    /\ UNCHANGED rwlockWords

RlockAcquires(t) ==
    /\ Moves(t, "rw_shared", "rw_counts")
    /\ AcquireShared(t)
    /\ UNCHANGED rwlockWords

RlockCounts(t) ==
    /\ Moves(t, "rw_counts", "idle")
    /\ rcount' = rcount + 1
    /\ UNCHANGED <<excl, shared, wflag, writer_tid>>

sys_rwlock_runlock(t) ==
    /\ shared[t] > 0
    /\ Moves(t, "idle", "rw_release")
    /\ rcount' = rcount - 1
    /\ UNCHANGED <<excl, shared, wflag, writer_tid>>

RunlockReleases(t) ==
    /\ Moves(t, "rw_release", "idle")
    /\ ReleaseShared(t)
    /\ UNCHANGED rwlockWords

----------------------------------------------------------------------------
(* r->writer && r->writer_tid == ctx->thread_id, two loads: to yes or no. *)
LoadsWriter(t, from, tid, no) ==
    /\ At(t, from)
    /\ Goto(t, IF wflag = 1 THEN tid ELSE no)
    /\ UNCHANGED <<excl, shared, rwlockWords>>

LoadsTid(t, tid, yes, no) ==
    /\ At(t, tid)
    /\ Goto(t, IF writer_tid = t THEN yes ELSE no)
    /\ UNCHANGED <<excl, shared, rwlockWords>>

(* CELL_EDEADLK for the owner. *)
sys_rwlock_wlock(t) == LoadsWriter(t, "idle", "wl_tid", "wl_acquire")
WlockChecks(t) == LoadsTid(t, "wl_tid", "idle", "wl_acquire")

WlockAcquires(t) ==
    /\ Moves(t, "wl_acquire", "wl_flag")
    /\ AcquireExclusive(t)
    /\ UNCHANGED rwlockWords

sys_rwlock_trywlock(t) == LoadsWriter(t, "idle", "wt_tid", "wt_acquire")
TrywlockChecks(t) == LoadsTid(t, "wt_tid", "idle", "wt_acquire")

(* Or CELL_EBUSY. *)
TrywlockAcquires(t) ==
    /\ \/ Moves(t, "wt_acquire", "wl_flag") /\ AcquireExclusive(t)
       \/ ~Unheld /\ Moves(t, "wt_acquire", "idle") /\ UNCHANGED <<excl, shared>>
    /\ UNCHANGED rwlockWords

WlockFlags(t) ==
    /\ Moves(t, "wl_flag", "wl_owner")
    /\ wflag' = 1
    /\ UNCHANGED <<excl, shared, rcount, writer_tid>>

WlockOwns(t) ==
    /\ Moves(t, "wl_owner", "idle")
    /\ writer_tid' = t
    /\ UNCHANGED <<excl, shared, rcount, wflag>>

(* CELL_EPERM for everyone but the owner. *)
sys_rwlock_wunlock(t) == LoadsWriter(t, "idle", "wu_tid", "idle")

(* Mutant: does not ask who calls. *)
WunlockAnyone(t) == LoadsTid(t, "wu_tid", "wu_disown", "wu_disown")

WunlockChecks(t) == LoadsTid(t, "wu_tid", "wu_disown", "idle")

WunlockDisowns(t) ==
    /\ Moves(t, "wu_disown", "wu_flag")
    /\ writer_tid' = Nobody
    /\ UNCHANGED <<excl, shared, rcount, wflag>>

WunlockFlags(t) ==
    /\ Moves(t, "wu_flag", "wu_release")
    /\ wflag' = 0
    /\ UNCHANGED <<excl, shared, rcount, writer_tid>>

WunlockReleases(t) ==
    /\ Moves(t, "wu_release", "idle")
    /\ ReleaseExclusive
    /\ UNCHANGED rwlockWords

----------------------------------------------------------------------------
RwlockCall(t) ==
    \/ sys_rwlock_rlock(t) \/ sys_rwlock_tryrlock(t) \/ sys_rwlock_runlock(t)
    \/ sys_rwlock_wlock(t) \/ sys_rwlock_trywlock(t) \/ sys_rwlock_wunlock(t)

RwlockRun(t) ==
    \/ RlockAcquires(t) \/ RlockCounts(t) \/ RunlockReleases(t)
    \/ WlockChecks(t) \/ WlockAcquires(t) \/ WlockFlags(t) \/ WlockOwns(t)
    \/ TrywlockChecks(t) \/ TrywlockAcquires(t)
    \/ WunlockChecks(t) \/ WunlockDisowns(t) \/ WunlockFlags(t) \/ WunlockReleases(t)

RwlockNext == sys_rwlock_create \/ \E t \in Threads : RwlockCall(t) \/ RwlockRun(t)

RwlockSpec == RwlockInit /\ [][RwlockNext]_rwlockVars

----------------------------------------------------------------------------
(* What the lock promises. *)

RwlockPlaces ==
    {"idle", "rw_shared", "rw_counts", "rw_release", "wl_tid", "wl_acquire", "wt_tid",
     "wt_acquire", "wl_flag", "wl_owner", "wu_tid", "wu_disown", "wu_flag", "wu_release"}

RwlockTypeOK ==
    /\ excl \in Threads \cup {Nobody} /\ shared \in [Threads -> Nat]
    /\ rcount \in Int /\ wflag \in {0, 1} /\ writer_tid \in Threads \cup {Nobody}
    /\ pc \in [Threads -> RwlockPlaces]

(* The words, read without the lock while others write them, never answer  *)
(* a thread wrongly about itself: a thread that is past the check of       *)
(* wunlock holds the lock (to release an SRWLock one does not hold is      *)
(* undefined), and a thread that holds it is taken for the owner by each   *)
(* of its calls, so it cannot wait for itself nor be refused the unlock.   *)
RwlockOwner ==
    \A t \in Threads :
        /\ pc[t] \in {"wu_disown", "wu_flag", "wu_release"} => excl = t
        /\ excl = t /\ pc[t] \in {"idle", "wl_tid", "wt_tid", "wu_tid"}
              => wflag = 1 /\ writer_tid = t
        /\ excl = t => pc[t] \notin {"wl_acquire", "wt_acquire"}

=============================================================================
