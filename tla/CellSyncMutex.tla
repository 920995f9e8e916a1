---------------------------- MODULE CellSyncMutex ----------------------------
(***************************************************************************)
(* CellSyncMutex of libs/sync/cellSync.c: a ticket lock in one word of     *)
(* guest memory, two halves that wrap around.  The word is loaded in one   *)
(* step and changed in another, by a compare-and-swap under the lock-line  *)
(* lock, so the code of the SPUs, which takes the same steps, counts among *)
(* the callers.  There is no owner: that a thread unlocks only what it     *)
(* locked is the guest's discipline.                                       *)
(***************************************************************************)
EXTENDS Callers

CONSTANT TicketMod      \* 2^16, the values of m_freed and m_order

(* More callers than tickets would share one. *)
ASSUME TicketsAssumption ==
    TicketMod \in Nat \ {0} /\ Cardinality(Threads) <= TicketMod

Tickets == 0 .. (TicketMod - 1)

VARIABLES
    freed, order,   \* the word: tickets released, next ticket to hand out
    raw,            \* each thread: the word it loaded, <<freed, order>>
    ticket          \* each thread: the ticket it took

mutexVars == <<freed, order, raw, ticket, pc>>

MutexInit ==
    /\ freed = 0 /\ order = 0
    /\ raw    = [t \in Threads |-> <<0, 0>>]
    /\ ticket = [t \in Threads |-> 0]
    /\ NobodyCalls

Plus1(n) == (n + 1) % TicketMod

Load(t) == raw' = [raw EXCEPT ![t] = <<freed, order>>]
Drop(t) == raw' = [raw EXCEPT ![t] = <<0, 0>>]

(* sync_cas finds the word as it was loaded. *)
Swaps(t) == raw[t] = <<freed, order>>

(* The places from which a thread has a ticket that is not released yet. *)
Line    == Callers({"wait", "held", "unlock", "release"})
Holders == Callers({"held", "unlock", "release"})

----------------------------------------------------------------------------
(* A word with freed = order = 0, which the guest owes to a free mutex. *)
cellSyncMutexInitialize ==
    /\ NobodyCalls
    /\ freed' = 0 /\ order' = 0
    /\ UNCHANGED <<raw, ticket, pc>>

cellSyncMutexLock(t) ==
    /\ Moves(t, "idle", "lock")
    /\ UNCHANGED <<freed, order, raw, ticket>>

LockLoads(t) ==
    /\ Moves(t, "lock", "swap")
    /\ Load(t)
    /\ UNCHANGED <<freed, order, ticket>>

TakesTicket(t, next) ==
    /\ Swaps(t)
    /\ order'  = Plus1(order)
    /\ ticket' = [ticket EXCEPT ![t] = order]
    /\ Drop(t) /\ Goto(t, next)
    /\ UNCHANGED freed

Fails(t, next) ==
    /\ ~Swaps(t)
    /\ Drop(t) /\ Goto(t, next)
    /\ UNCHANGED <<freed, order, ticket>>

LockTakes(t) == At(t, "swap") /\ (TakesTicket(t, "wait") \/ Fails(t, "lock"))

(* Mutant: the ticket after the one that is served goes ahead as well. *)
LockServedEarly(t) ==
    /\ freed = ticket[t] \/ Plus1(freed) = ticket[t]
    /\ Moves(t, "wait", "held")
    /\ UNCHANGED <<freed, order, raw, ticket>>

LockServed(t) ==
    /\ freed = ticket[t]
    /\ Moves(t, "wait", "held")
    /\ UNCHANGED <<freed, order, raw, ticket>>

(* A mutex seen taken is CELL_SYNC_ERROR_BUSY, and so is a lost race. *)
cellSyncMutexTryLock(t) ==
    /\ freed = order
    /\ Moves(t, "idle", "try")
    /\ Load(t)
    /\ UNCHANGED <<freed, order, ticket>>

TryTakes(t) == At(t, "try") /\ (TakesTicket(t, "held") \/ Fails(t, "idle"))

cellSyncMutexUnlock(t) ==
    /\ Moves(t, "held", "unlock")
    /\ UNCHANGED <<freed, order, raw, ticket>>

UnlockLoads(t) ==
    /\ Moves(t, "unlock", "release")
    /\ Load(t)
    /\ UNCHANGED <<freed, order, ticket>>

(* The ticket is spent. *)
Leaves(t) == Drop(t) /\ ticket' = [ticket EXCEPT ![t] = 0] /\ Goto(t, "idle")

(* Mutant: the unlock stores the word it loaded without comparing. *)
ReleasesBlindly(t) ==
    /\ At(t, "release")
    /\ freed' = Plus1(raw[t][1]) /\ order' = raw[t][2]
    /\ Leaves(t)

Releases(t) ==
    /\ At(t, "release")
    /\ \/ /\ Swaps(t)
          /\ freed' = Plus1(freed)
          /\ Leaves(t)
          /\ UNCHANGED order
       \/ Fails(t, "unlock")

----------------------------------------------------------------------------
MutexCall(t) == cellSyncMutexLock(t) \/ cellSyncMutexTryLock(t) \/ cellSyncMutexUnlock(t)

MutexRun(t) ==
    \/ LockLoads(t) \/ LockTakes(t) \/ LockServed(t)
    \/ TryTakes(t) \/ UnlockLoads(t) \/ Releases(t)

MutexNext == cellSyncMutexInitialize \/ \E t \in Threads : MutexCall(t) \/ MutexRun(t)

MutexSpec == MutexInit /\ [][MutexNext]_mutexVars

(* Spinning threads keep running; nobody owes a call, not even an unlock. *)
MutexFairness == \A t \in Threads : WF_mutexVars(MutexRun(t))

----------------------------------------------------------------------------
(* What the mutex promises. *)

MutexPlaces == {"idle", "lock", "swap", "wait", "held", "try", "unlock", "release"}

MutexTypeOK ==
    /\ freed \in Tickets /\ order \in Tickets
    /\ raw    \in [Threads -> Tickets \X Tickets]
    /\ ticket \in [Threads -> Tickets]
    /\ pc     \in [Threads -> MutexPlaces]

(* One thread at a time is past Lock or TryLock and not through Unlock,    *)
(* though the ticket counters wrap around and are never compared for their *)
(* order, and though the words that are swapped were loaded earlier.       *)
MutexExclusive == \A t, u \in Holders : t = u

(* The place of a thread in the line: 0 is the holder's. *)
Ahead(t) == (ticket[t] - freed) % TicketMod

(* Whatever compare-and-swaps fail in between, the tickets between         *)
(* m_freed and m_order belong to the threads in the line, one to each: no  *)
(* ticket is lost (everybody behind it would spin for ever) or shared.     *)
MutexLine ==
    /\ order = (freed + Cardinality(Line)) % TicketMod
    /\ \A t \in Line : Ahead(t) < Cardinality(Line)
    /\ \A t, u \in Line : Ahead(t) = Ahead(u) => t = u
    /\ \A t \in Holders : Ahead(t) = 0

(* A thread that has a ticket gets the mutex, if those that hold the mutex *)
(* do not keep it for ever.                                                *)
MutexServed ==
    (\A u \in Threads : []<>(~At(u, "held"))) =>
        \A t \in Threads : []<>(~At(t, "wait"))
=============================================================================
