----------------------------- MODULE SysLwmutex -----------------------------
(***************************************************************************)
(* The lightweight mutex of runtime/ppu/ppu_sysprx.cpp, and the lwcond     *)
(* that is paired with it.  Two words of guest memory, owner and           *)
(* recursive_count, tell the holder's locks apart; a count on the host     *)
(* excludes, taken by one compare-and-swap and given back by any thread.   *)
(* Only a contended lock sleeps, on a condition variable under the slot's  *)
(* own lock lk; a release looks at waiters without lk.  A guest unlocks    *)
(* and waits on an lwcond with what it holds, and may hand what it holds   *)
(* to another thread: the owner word then still names the giver.           *)
(***************************************************************************)
EXTENDS Callers

CONSTANTS
    NoOwner,        \* the owner word 0
    MaxRecur        \* bound: locks of one thread, and recursive_count

ASSUME LwmAssumption == NoOwner \notin Threads /\ MaxRecur \in Nat \ {0}

VARIABLES
    cnt, waiters,   \* the host's slot: 1 is free; lockers in the slow path
    owner, recur,   \* the guest's words
    back,           \* each thread in lwcond_wait: the words to put back, its locks
    holds,          \* what the guest goes by: locks of each thread
    crossed         \* history: the recursive path has let in a thread without a lock

lwmVars == <<cnt, waiters, owner, recur, back, holds, crossed, pc>>

Free == [own |-> NoOwner, rc |-> 0, locks |-> 0]

LwmInit ==
    /\ cnt = 1 /\ waiters = 0
    /\ owner = NoOwner /\ recur = 0
    /\ back  = [t \in Threads |-> Free]
    /\ holds = [t \in Threads |-> 0]
    /\ crossed = FALSE
    /\ NobodyCalls

InCond(t)  == back[t] # Free
LkFree     == Callers({"retry", "failed", "got", "late"}) = {}
Asleep     == Callers({"asleep"})
Words(o, n) == owner' = o /\ recur' = n

(* lwm_try: the compare-and-swap finds the count. *)
lwm_try(t, next) ==
    /\ cnt = 1
    /\ cnt' = 0 /\ Goto(t, next)
    /\ UNCHANGED <<waiters, owner, recur, back, holds, crossed>>

Step(t, from, to) ==
    /\ Moves(t, from, to)
    /\ UNCHANGED <<cnt, waiters, owner, recur, back, holds, crossed>>

----------------------------------------------------------------------------
(* A new mutex, also where the holder of an old one exited. *)
sys_lwmutex_create ==
    /\ Threads = Callers({"idle", "dead"}) /\ \A t \in Threads : holds[t] = 0
    /\ Words(NoOwner, 0) /\ cnt' = 1
    /\ pc' = [t \in Threads |-> "idle"]
    /\ UNCHANGED <<waiters, back, holds, crossed>>

(* The owner word names the caller: it is let in, whoever has the mutex. *)
IsOwner(t) == owner = t /\ recur > 0

Calls(t) == At(t, "idle") /\ holds[t] < MaxRecur

Relocks(t) ==
    /\ Calls(t) /\ IsOwner(t) /\ recur < MaxRecur
    /\ recur' = recur + 1
    /\ holds' = [holds EXCEPT ![t] = @ + 1]
    /\ crossed' = (crossed \/ holds[t] = 0)
    /\ UNCHANGED <<cnt, waiters, owner, back, pc>>

(* A time-out in r4 shows only where the call ends late. *)
sys_lwmutex_lock(t) ==
    \/ Relocks(t)
    \/ /\ Calls(t) /\ ~IsOwner(t)
       /\ lwm_try(t, "stamp") \/ (cnt = 0 /\ Step(t, "idle", "spin"))

(* A mutex that is taken changes nothing. *)
sys_lwmutex_trylock(t) ==
    \/ Relocks(t)
    \/ Calls(t) /\ ~IsOwner(t) /\ lwm_try(t, "stamp")

(* The count is taken: the words follow, those of lwcond_wait as it found them. *)
Stamps(t) ==
    /\ Moves(t, "stamp", "idle")
    /\ IF InCond(t)
         THEN Words(back[t].own, back[t].rc) /\ holds' = [holds EXCEPT ![t] = back[t].locks]
         ELSE Words(t, 1) /\ holds' = [holds EXCEPT ![t] = @ + 1]
    /\ back' = [back EXCEPT ![t] = Free]
    /\ UNCHANGED <<cnt, waiters, crossed>>

sys_lwmutex_unlock(t) ==
    /\ At(t, "idle") /\ holds[t] > 0
    /\ \/ recur > 1 /\ Words(owner, recur - 1) /\ pc' = pc
       \/ recur <= 1 /\ Words(NoOwner, 0) /\ Goto(t, "give")
    /\ holds' = [holds EXCEPT ![t] = @ - 1]
    /\ UNCHANGED <<cnt, waiters, back, crossed>>

(* Gives up every lock of the caller, naps, and takes them again; a signal *)
(* does nothing.                                                           *)
sys_lwcond_wait(t) ==
    /\ At(t, "idle") /\ holds[t] > 0
    /\ back' = [back EXCEPT ![t] = [own |-> owner, rc |-> IF recur = 0 THEN 1 ELSE recur,
                                    locks |-> holds[t]]]
    /\ Words(NoOwner, 0)
    /\ holds' = [holds EXCEPT ![t] = 0]
    /\ Goto(t, "give")
    /\ UNCHANGED <<cnt, waiters, crossed>>

(* The guest's own doing: ownership passes on, or the holder is gone. *)
HandsOver(t, u) ==
    /\ At(t, "idle") /\ At(u, "idle") /\ t # u
    /\ holds[t] > 0 /\ holds[t] + holds[u] <= MaxRecur
    /\ holds' = [holds EXCEPT ![u] = @ + holds[t], ![t] = 0]
    /\ UNCHANGED <<cnt, waiters, owner, recur, back, crossed, pc>>

Exits(t) ==
    /\ holds[t] > 0
    /\ Moves(t, "idle", "dead")
    /\ holds' = [holds EXCEPT ![t] = 0]
    /\ UNCHANGED <<cnt, waiters, owner, recur, back, crossed>>

----------------------------------------------------------------------------
(* lwm_wait *)

Spins(t) ==
    /\ At(t, "spin")
    /\ lwm_try(t, "stamp") \/ (cnt = 0 /\ Step(t, "spin", "enter"))

WaitCounts(t) ==
    /\ LkFree
    /\ waiters' = waiters + 1
    /\ Moves(t, "enter", "retry")
    /\ UNCHANGED <<cnt, owner, recur, back, holds, crossed>>

WaitTries(t) ==
    /\ At(t, "retry")
    /\ lwm_try(t, "got") \/ (cnt = 0 /\ Step(t, "retry", "failed"))

(* The time of a timed lock is up (lwcond_wait has none), or a sleep lets  *)
(* lk go; the count may have come back meanwhile.                          *)
WaitSleeps(t) == Step(t, "failed", "asleep") \/ (~InCond(t) /\ Step(t, "failed", "late"))

(* Time-outs and spurious wakes. *)
SleepEnds(t) == Step(t, "asleep", "awake")

(* Mutant: the sleep's end is taken for the mutex. *)
WaitWakesHolding(t) ==
    /\ LkFree
    /\ Moves(t, "awake", "got")
    /\ cnt' = 0
    /\ UNCHANGED <<waiters, owner, recur, back, holds, crossed>>

WaitWakes(t) == LkFree /\ Step(t, "awake", "retry")

WaitEnds(t) ==
    /\ Moves(t, "got", "stamp") \/ Moves(t, "late", "idle")
    /\ waiters' = waiters - 1
    /\ UNCHANGED <<cnt, owner, recur, back, holds, crossed>>

----------------------------------------------------------------------------
(* lwm_release *)

ReleaseGives(t) ==
    /\ Moves(t, "give", "look")
    /\ cnt' = 1
    /\ UNCHANGED <<waiters, owner, recur, back, holds, crossed>>

(* Where the call goes on: lwcond_wait takes the mutex again. *)
Released(t) == IF InCond(t) THEN "spin" ELSE "idle"

ReleaseLooks(t) ==
    \/ waiters = 0 /\ Step(t, "look", Released(t))
    \/ waiters # 0 /\ Step(t, "look", "through")

(* Mutant: the wake does not go through lk. *)
ReleaseHurries(t) == Step(t, "through", "wake")

(* lk is taken and let go: nobody is between its try and its sleep. *)
ReleasePasses(t) == LkFree /\ Step(t, "through", "wake")

ReleaseWakes(t) ==
    /\ At(t, "wake")
    /\ \/ Asleep = {} /\ Goto(t, Released(t))
       \/ \E u \in Asleep : pc' = [pc EXCEPT ![t] = Released(t), ![u] = "awake"]
    /\ UNCHANGED <<cnt, waiters, owner, recur, back, holds, crossed>>

----------------------------------------------------------------------------
LwmCall(t) ==
    \/ sys_lwmutex_lock(t) \/ sys_lwmutex_trylock(t) \/ sys_lwmutex_unlock(t)
    \/ sys_lwcond_wait(t)
    \/ \E u \in Threads : HandsOver(t, u)
    \/ Exits(t)

LwmRun(t) ==
    \/ Stamps(t)
    \/ Spins(t) \/ WaitCounts(t) \/ WaitTries(t) \/ WaitSleeps(t)
    \/ SleepEnds(t) \/ WaitWakes(t) \/ WaitEnds(t)
    \/ ReleaseGives(t) \/ ReleaseLooks(t) \/ ReleasePasses(t) \/ ReleaseWakes(t)

LwmNext == sys_lwmutex_create \/ \E t \in Threads : LwmCall(t) \/ LwmRun(t)

LwmSpec == LwmInit /\ [][LwmNext]_lwmVars

----------------------------------------------------------------------------
(* What the lightweight mutex promises. *)

LwmPlaces == {"idle", "dead", "stamp", "spin", "enter", "retry", "failed", "asleep",
              "awake", "got", "late", "give", "look", "through", "wake"}

LwmTypeOK ==
    /\ cnt \in {0, 1} /\ waiters \in Int
    /\ owner \in Threads \cup {NoOwner} /\ recur \in 0 .. MaxRecur
    /\ back  \in [Threads -> [own : Threads \cup {NoOwner}, rc : 0 .. MaxRecur, locks : Nat]]
    /\ holds \in [Threads -> Nat] /\ crossed \in BOOLEAN
    /\ pc    \in [Threads -> LwmPlaces]

(* The threads to which the count 0 belongs. *)
LwmHolders == {t \in Threads : holds[t] > 0} \cup Callers({"got", "stamp", "give"})

(* "Only the holder ever stamps owner=self, so this check is race-free":   *)
(* whoever unlocks, hands over or waits on the lwcond in between, at most  *)
(* one thread has the mutex, it is not free meanwhile, and recursive_count *)
(* is the number of unlocks the guest still owes.                          *)
LwmExclusive ==
    /\ \A t, u \in LwmHolders : t = u
    /\ LwmHolders # {} => cnt = 0
    /\ \A t \in Threads : holds[t] > 0 => recur = holds[t]

(* The re-lock check is the one thing that breaks this: unlocks, waits and *)
(* exits of a receiver keep the mutex exclusive until a giver which the    *)
(* owner word still names locks again and is let in by the recursive path. *)
LwmExclusiveUntilCrossed == ~crossed => LwmExclusive

(* "Either it sees the count, or this sees it and wakes it": while a       *)
(* locker sleeps beside a free mutex, a release is still to wake one or an *)
(* awake locker is still to try.                                           *)
LwmNoLostWake ==
    Asleep # {} /\ cnt = 1 => Callers({"look", "through", "wake", "awake", "retry"}) # {}
=============================================================================
