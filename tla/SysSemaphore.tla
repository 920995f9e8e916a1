---------------------------- MODULE SysSemaphore ----------------------------
(***************************************************************************)
(* runtime/syscalls/sys_semaphore.c (the Windows build): the guest's       *)
(* counting semaphores.  value is the only count; the host's semaphore is  *)
(* a wake channel that a post fills for the threads it saw parked, after   *)
(* it has released value_lock.                                             *)
(*                                                                         *)
(* A section under value_lock is one step, and so are create and destroy   *)
(* under the table lock.  Every call looks at active without a lock first, *)
(* so the slot may be destroyed or recycled before its next step: the call *)
(* then goes on with whatever is in the slot.  destroy also deletes        *)
(* value_lock: a thread that enters it afterwards may get in or may never  *)
(* come back, so its steps are possible and no fairness is assumed of      *)
(* them.  A handle value that was closed is taken not to be given to       *)
(* another object.                                                         *)
(***************************************************************************)
EXTENDS Integers, FiniteSets

CONSTANTS
    Threads,        \* guest threads
    SemaphoreMax,   \* SYS_SEMAPHORE_MAX
    MaxValues,      \* the max_val arguments of create
    Counts,         \* the count arguments of post
    IntMax,         \* INT32_MAX
    MaxTokens       \* bound on the wake channel (0x7FFFFFFF in the code)

ASSUME ThreadsAssumption == IsFiniteSet(Threads)
ASSUME BoundsAssumption  ==
    /\ SemaphoreMax \in Nat /\ IntMax \in Nat /\ MaxTokens \in Nat
    /\ MaxValues \subseteq 1 .. IntMax /\ Counts \subseteq 1 .. IntMax

Semaphores == 1 .. SemaphoreMax

VARIABLES
    (* sys_semaphore_info, one function of the id per field *)
    active, value, max_value, waiters,
    tokens,     \* the count of the kernel object behind sem_handle
    (* each thread: where its call is, on which semaphore, and its locals *)
    pc, tgt,
    deadline,   \* "none" (untimed), "ahead" or "passed"
    count, wake,
    deaf,       \* asleep on a handle that has been closed
    lost,       \* value_lock was deleted under the call, which has not had it since
    tainted     \* the slot was recycled while its waiters were not zero

slotVars == <<active, value, max_value, waiters, tokens, tainted>>
locals   == <<tgt, deadline, count, wake, deaf, lost>>
vars     == <<slotVars, pc, locals>>

Init ==
    /\ active    = [s \in Semaphores |-> FALSE]
    /\ value     = [s \in Semaphores |-> 0]
    /\ max_value = [s \in Semaphores |-> 0]
    /\ waiters   = [s \in Semaphores |-> 0]
    /\ tokens    = [s \in Semaphores |-> 0]
    /\ pc        = [t \in Threads |-> "idle"]
    /\ tgt       = [t \in Threads |-> 0]
    /\ deadline  = [t \in Threads |-> "none"]
    /\ count     = [t \in Threads |-> 0]
    /\ wake      = [t \in Threads |-> 0]
    /\ deaf      = [t \in Threads |-> FALSE]
    /\ lost      = [t \in Threads |-> FALSE]
    /\ tainted   = [s \in Semaphores |-> FALSE]

Idle(t)      == pc[t] = "idle"
Go(t, where) == pc' = [pc EXCEPT ![t] = where]

(* The call ends, and its locals with it. *)
Return(t) ==
    /\ Go(t, "idle")
    /\ tgt'      = [tgt      EXCEPT ![t] = 0]
    /\ deadline' = [deadline EXCEPT ![t] = "none"]
    /\ count'    = [count    EXCEPT ![t] = 0]
    /\ wake'     = [wake     EXCEPT ![t] = 0]
    /\ deaf'     = [deaf     EXCEPT ![t] = FALSE]
    /\ lost'     = [lost     EXCEPT ![t] = FALSE]

(* Threads in WaitForSingleObject, and back from it with waiters still to  *)
(* be counted down.                                                        *)
Asleep(s) == {t \in Threads : pc[t] = "asleep" /\ tgt[t] = s}
Woken(s)  == {t \in Threads : pc[t] = "woken" /\ tgt[t] = s}

----------------------------------------------------------------------------
(* sys_semaphore_create: EINVAL, EAGAIN, or the lowest free slot, cleared. *)
(* The host may refuse the kernel object; the slot is then left free.      *)

sys_semaphore_create(t, s, initial, max_val, made) ==
    /\ Idle(t)
    /\ 0 <= initial /\ initial <= max_val /\ max_val > 0    \* EINVAL
    /\ ~active[s] /\ \A k \in 1 .. (s - 1) : active[k]
    /\ active'    = [active    EXCEPT ![s] = made]
    /\ value'     = [value     EXCEPT ![s] = initial]
    /\ max_value' = [max_value EXCEPT ![s] = max_val]
    /\ waiters'   = [waiters   EXCEPT ![s] = 0]
    /\ tokens'    = [tokens    EXCEPT ![s] = 0]
    /\ tainted'   = [tainted   EXCEPT ![s] = @ \/ waiters[s] > 0]
    /\ UNCHANGED <<pc, locals>>

(* sys_semaphore_destroy asks nobody: the handle is closed under whoever   *)
(* sleeps on it (a wait already begun keeps the old object), and           *)
(* value_lock is deleted under every call.                                 *)
sys_semaphore_destroy(t, s, sleeping) ==
    /\ Idle(t) /\ active[s]
    /\ active' = [active EXCEPT ![s] = FALSE]
    /\ deaf'   = [u \in Threads |-> deaf[u] \/ u \in sleeping]
    /\ lost'   = [u \in Threads |-> lost[u] \/ tgt[u] = s]
    /\ UNCHANGED <<value, max_value, waiters, tokens, tainted, pc, tgt, deadline, count, wake>>

----------------------------------------------------------------------------
(* sys_semaphore_wait *)

sys_semaphore_wait(t, s, timed) ==
    /\ Idle(t) /\ active[s]
    /\ Go(t, "enter")
    /\ tgt'      = [tgt      EXCEPT ![t] = s]
    /\ deadline' = [deadline EXCEPT ![t] = IF timed THEN "ahead" ELSE "none"]
    /\ UNCHANGED <<slotVars, count, wake, deaf, lost>>

(* At the top of the loop: on entry, or again after a wake-up. *)
Entering(t) == pc[t] \in {"enter", "again"}

WaitTakes(t) ==
    /\ Entering(t) /\ value[tgt[t]] > 0
    /\ value' = [value EXCEPT ![tgt[t]] = @ - 1]
    /\ Return(t)
    /\ UNCHANGED <<active, max_value, waiters, tokens, tainted>>

WaitExpires(t) ==                                           \* ETIMEDOUT
    /\ Entering(t) /\ value[tgt[t]] <= 0 /\ deadline[t] = "passed"
    /\ Return(t)
    /\ UNCHANGED slotVars

(* The call has got value_lock: a live one, or in spite of its deletion. *)
Holds(t) == lost' = [lost EXCEPT ![t] = @ /\ ~active[tgt[t]]]

(* Mutant: the thread is not counted before it sleeps. *)
WaitParksUncounted(t) ==
    /\ Entering(t) /\ value[tgt[t]] <= 0 /\ deadline[t] # "passed"
    /\ deaf' = [deaf EXCEPT ![t] = FALSE]
    /\ Holds(t) /\ Go(t, "asleep")
    /\ UNCHANGED <<slotVars, tgt, deadline, count, wake>>

WaitParks(t) ==
    /\ Entering(t) /\ value[tgt[t]] <= 0 /\ deadline[t] # "passed"
    /\ waiters' = [waiters EXCEPT ![tgt[t]] = @ + 1]
    /\ deaf'    = [deaf    EXCEPT ![t] = FALSE]
    /\ Holds(t) /\ Go(t, "asleep")
    /\ UNCHANGED <<active, value, max_value, tokens, tainted, tgt, deadline, count, wake>>

(* WaitForSingleObject returns: a token, the end of a timed wait's slice,  *)
(* or a failure at once because the handle is closed.                      *)
WaitTokenTaken(t) ==
    /\ pc[t] = "asleep" /\ ~deaf[t] /\ active[tgt[t]] /\ tokens[tgt[t]] > 0
    /\ tokens' = [tokens EXCEPT ![tgt[t]] = @ - 1]
    /\ Go(t, "woken")
    /\ UNCHANGED <<active, value, max_value, waiters, tainted, locals>>

(* Mutant: a timed wait sleeps as an untimed one does. *)
WaitSliceEndless(t) ==
    /\ pc[t] = "asleep" /\ ~deaf[t] /\ ~active[tgt[t]]
    /\ Go(t, "woken")
    /\ UNCHANGED <<slotVars, locals>>

WaitSliceOver(t) ==
    /\ pc[t] = "asleep"
    /\ deadline[t] # "none" \/ (~deaf[t] /\ ~active[tgt[t]])
    /\ Go(t, "woken")
    /\ UNCHANGED <<slotVars, locals>>

(* Mutant: counted down without the look at zero. *)
WaitUnparksUnchecked(t) ==
    /\ pc[t] = "woken"
    /\ waiters' = [waiters EXCEPT ![tgt[t]] = @ - 1]
    /\ Holds(t) /\ Go(t, "again")
    /\ UNCHANGED <<active, value, max_value, tokens, tainted, tgt, deadline, count, wake, deaf>>

WaitUnparks(t) ==
    /\ pc[t] = "woken"
    /\ waiters' = [waiters EXCEPT ![tgt[t]] = IF @ > 0 THEN @ - 1 ELSE @]
    /\ Holds(t) /\ Go(t, "again")
    /\ UNCHANGED <<active, value, max_value, tokens, tainted, tgt, deadline, count, wake, deaf>>

(* lv2_deadline_passed, from some moment on. *)
DeadlinePasses(t) ==
    /\ deadline[t] = "ahead"
    /\ deadline' = [deadline EXCEPT ![t] = "passed"]
    /\ UNCHANGED <<slotVars, pc, tgt, count, wake, deaf, lost>>

----------------------------------------------------------------------------
(* sys_semaphore_trywait *)

sys_semaphore_trywait(t, s) ==
    /\ Idle(t) /\ active[s]
    /\ Go(t, "try")
    /\ tgt' = [tgt EXCEPT ![t] = s]
    /\ UNCHANGED <<slotVars, deadline, count, wake, deaf, lost>>

(* Mutant: the count is not looked at again under the lock. *)
TryEndsAnyway(t) ==
    /\ pc[t] = "try"
    /\ value' = [value EXCEPT ![tgt[t]] = @ - 1]
    /\ Return(t)
    /\ UNCHANGED <<active, max_value, waiters, tokens, tainted>>

TryEnds(t) ==                                               \* OK or EBUSY
    /\ pc[t] = "try"
    /\ value' = [value EXCEPT ![tgt[t]] = IF @ > 0 THEN @ - 1 ELSE @]
    /\ Return(t)
    /\ UNCHANGED <<active, max_value, waiters, tokens, tainted>>

----------------------------------------------------------------------------
(* sys_semaphore_post: the units are added under value_lock, the threads   *)
(* that were parked then are woken afterwards.                             *)

(* int32_t addition, as the build computes it. *)
Wrap32(n) == IF n > IntMax THEN n - 2 * (IntMax + 1) ELSE n

sys_semaphore_post(t, s, n) ==
    /\ Idle(t) /\ active[s]
    /\ Go(t, "post")
    /\ tgt'   = [tgt   EXCEPT ![t] = s]
    /\ count' = [count EXCEPT ![t] = n]
    /\ UNCHANGED <<slotVars, deadline, wake, deaf, lost>>

PostRefused(t) ==                                           \* EBUSY
    /\ pc[t] = "post" /\ Wrap32(value[tgt[t]] + count[t]) > max_value[tgt[t]]
    /\ Return(t)
    /\ UNCHANGED slotVars

(* Mutant: one wake-up however many units are posted. *)
WakeOne(n, parked) == IF parked > 0 THEN 1 ELSE 0

(* wake = min(count, waiters) *)
WakeCount(n, parked) == IF n < parked THEN n ELSE parked

PostAdds(t) ==
    LET s == tgt[t]
        w == WakeCount(count[t], waiters[s]) IN
    /\ pc[t] = "post" /\ Wrap32(value[s] + count[t]) <= max_value[s]
    /\ value' = [value EXCEPT ![s] = Wrap32(@ + count[t])]
    /\ wake'  = [wake  EXCEPT ![t] = w]
    /\ Go(t, "release")
    /\ UNCHANGED <<active, max_value, waiters, tokens, tainted, tgt, deadline, count, deaf, lost>>

(* ReleaseSemaphore on the handle the slot has now; it fails on a closed   *)
(* one.                                                                    *)
PostReleases(t) ==
    LET s == tgt[t] IN
    /\ pc[t] = "release" /\ tokens[s] + wake[t] <= MaxTokens
    /\ tokens' = [tokens EXCEPT ![s] = IF active[s] THEN @ + wake[t] ELSE @]
    /\ Return(t)
    /\ UNCHANGED <<active, value, max_value, waiters, tainted>>

----------------------------------------------------------------------------
Call(t) ==
    \E s \in Semaphores :
        \/ \E max_val \in MaxValues, made \in BOOLEAN : \E initial \in 0 .. max_val :
              sys_semaphore_create(t, s, initial, max_val, made)
        \/ \E sleeping \in SUBSET Asleep(s) : sys_semaphore_destroy(t, s, sleeping)
        \/ \E timed \in BOOLEAN : sys_semaphore_wait(t, s, timed)
        \/ sys_semaphore_trywait(t, s)
        \/ \E n \in Counts : sys_semaphore_post(t, s, n)

(* The steps of a call that are not waiting for another thread. *)
Run(t) ==
    \/ WaitTakes(t) \/ WaitExpires(t) \/ WaitParks(t) \/ WaitUnparks(t)
    \/ TryEnds(t)
    \/ PostRefused(t) \/ PostAdds(t) \/ PostReleases(t)

Next ==
    \E t \in Threads :
        Call(t) \/ Run(t) \/ WaitTokenTaken(t) \/ WaitSliceOver(t) \/ DeadlinePasses(t)

Spec == Init /\ [][Next]_vars

(* The host keeps running a thread that is not asleep, wakes a sleeping    *)
(* one for a token or a timer, and its clock goes on.  Nothing is promised *)
(* of a thread that enters a value_lock that was deleted.                  *)
FairSpec ==
    /\ Spec
    /\ \A t \in Threads :
          /\ WF_vars(~lost[t] /\ Run(t)) /\ WF_vars(PostReleases(t))
          /\ WF_vars(DeadlinePasses(t))
          /\ WF_vars(WaitTokenTaken(t)) /\ WF_vars(WaitSliceOver(t))

----------------------------------------------------------------------------
(* What the file promises. *)

PcValues == {"idle", "enter", "again", "asleep", "woken", "try", "post", "release"}

(* Every variable keeps its type: waiters, which a parked thread's way     *)
(* back counts down, stays a natural number.                               *)
TypeOK ==
    /\ active    \in [Semaphores -> BOOLEAN]
    /\ value     \in [Semaphores -> Int]
    /\ max_value \in [Semaphores -> MaxValues \cup {0}]
    /\ waiters   \in [Semaphores -> Nat]
    /\ tokens    \in [Semaphores -> Nat]
    /\ pc        \in [Threads -> PcValues]
    /\ tgt       \in [Threads -> Semaphores \cup {0}]
    /\ deadline  \in [Threads -> {"none", "ahead", "passed"}]
    /\ count     \in [Threads -> Counts \cup {0}]
    /\ wake      \in [Threads -> 0 .. IntMax]
    /\ deaf      \in [Threads -> BOOLEAN]
    /\ lost      \in [Threads -> BOOLEAN]
    /\ tainted   \in [Semaphores -> BOOLEAN]

(* No post passes INT32_MAX. *)
NoOverflow == \A m \in MaxValues, n \in Counts : m + n <= IntMax

(* "At all times 0 <= value <= max_value must hold": no lost or phantom    *)
(* units, whatever takes, posts and recycling are under way.               *)
ValueInRange == \A s \in Semaphores : 0 <= value[s] /\ value[s] <= max_value[s]

(* waiters counts exactly the threads between parking and being counted    *)
(* down again, so a post sees every sleeper, unless the slot was recycled  *)
(* under one.                                                              *)
WaitersCounted ==
    \A s \in Semaphores :
        ~tainted[s] => waiters[s] = Cardinality(Asleep(s) \cup Woken(s))

(* Threads that have been woken and have yet to look at value again. *)
Awake(s)     == {t \in Threads : pc[t] \in {"woken", "again"} /\ tgt[t] = s}
Releasing(s) == {t \in Threads : pc[t] = "release" /\ tgt[t] = s /\ wake[t] > 0}

(* The post that adds the unit a sleeper could take also wakes a sleeper:  *)
(* when there are more units than threads on their way to take them, a     *)
(* sleeper has a token, or the post that owes it one has not ended.        *)
WakeOwed(s) ==
    active[s] /\ Asleep(s) # {} /\ value[s] > Cardinality(Awake(s)) =>
        tokens[s] > 0 \/ Releasing(s) # {}

NoLostWake == \A s \in Semaphores : ~tainted[s] => WakeOwed(s)

(* "This is the lost-wake fix -- a post can NEVER skip the release now":   *)
(* a post that adds units while a thread waits on the semaphore's handle   *)
(* goes on to release a token.                                             *)
PostNeverSkips ==
    [][\A t \in Threads :
          pc[t] = "post" /\ pc'[t] = "release" /\ (\E u \in Asleep(tgt[t]) : ~deaf[u])
              => wake'[t] > 0]_vars

(* A sleeper does not sleep on beside units it could take. *)
UnitsFindSleepers ==
    \A s \in Semaphores :
        []<>(value[s] = 0 \/ Asleep(s) = {} \/ ~active[s] \/ tainted[s])

(* A timed wait returns, whatever units and tokens other threads take      *)
(* before it and however often its slice ends, unless its semaphore is     *)
(* destroyed under it: the lock it has to take again is then deleted.      *)
TimedWaitReturns ==
    \A t \in Threads : []<>(deadline[t] = "none" \/ lost[t])
=============================================================================
