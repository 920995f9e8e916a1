----------------------------- MODULE CellSyncRwm -----------------------------
(***************************************************************************)
(* CellSyncRwm of libs/sync/cellSync.c: a buffer that readers and writers  *)
(* copy as a whole.  Each atomic operation on the two words is a step; a   *)
(* thread at "rcopy" or "wcopy" is somewhere in its memcpy.                *)
(***************************************************************************)
EXTENDS Callers

VARIABLES
    readers, writer,    \* the words of the Rwm: readers inside, a writer is
    try                 \* each thread: its call is TryRead or TryWrite

rwmVars == <<readers, writer, try, pc>>

RwmInit ==
    /\ readers = 0 /\ writer = 0
    /\ try = [t \in Threads |-> FALSE]
    /\ NobodyCalls

(* Places after readers was incremented, and after writer was swapped in. *)
Inside  == Callers({"rcheck", "rback", "rcopy"})
Writing == Callers({"wdrain", "wback", "wcopy"})

RwmReturns(t) == Goto(t, "idle") /\ try' = [try EXCEPT ![t] = FALSE]

----------------------------------------------------------------------------
cellSyncRwmInitialize ==
    /\ NobodyCalls
    /\ readers' = 0 /\ writer' = 0
    /\ UNCHANGED <<try, pc>>

cellSyncRwmRead(t) ==
    /\ Moves(t, "idle", "rwait")
    /\ UNCHANGED <<readers, writer, try>>

(* CELL_SYNC_ERROR_BUSY beside a writer. *)
cellSyncRwmTryRead(t) ==
    /\ writer = 0
    /\ Moves(t, "idle", "renter")
    /\ try' = [try EXCEPT ![t] = TRUE]
    /\ UNCHANGED <<readers, writer>>

ReadWaits(t) ==
    /\ writer = 0
    /\ Moves(t, "rwait", "renter")
    /\ UNCHANGED <<readers, writer, try>>

(* Mutant: no second look at writer. *)
ReadEntersAtOnce(t) ==
    /\ Moves(t, "renter", "rcopy")
    /\ readers' = readers + 1
    /\ UNCHANGED <<writer, try>>

ReadEnters(t) ==
    /\ Moves(t, "renter", "rcheck")
    /\ readers' = readers + 1
    /\ UNCHANGED <<writer, try>>

ReadChecks(t) ==
    /\ At(t, "rcheck")
    /\ Goto(t, IF writer = 0 THEN "rcopy" ELSE "rback")
    /\ UNCHANGED <<readers, writer, try>>

(* Mutant: the reader that gives way stays counted. *)
ReadBacksOffCounted(t) ==
    /\ At(t, "rback")
    /\ IF try[t] THEN RwmReturns(t) ELSE Goto(t, "rwait") /\ UNCHANGED try
    /\ UNCHANGED <<readers, writer>>

(* Read waits for the writer, TryRead gives up. *)
ReadBacksOff(t) ==
    /\ At(t, "rback")
    /\ readers' = readers - 1
    /\ IF try[t] THEN RwmReturns(t) ELSE Goto(t, "rwait") /\ UNCHANGED try
    /\ UNCHANGED writer

ReadLeaves(t) ==
    /\ At(t, "rcopy")
    /\ readers' = readers - 1
    /\ RwmReturns(t)
    /\ UNCHANGED writer

----------------------------------------------------------------------------
cellSyncRwmWrite(t) ==
    /\ Moves(t, "idle", "wswap")
    /\ UNCHANGED <<readers, writer, try>>

WriteSwaps(t) ==
    /\ writer = 0
    /\ Moves(t, "wswap", "wdrain")
    /\ writer' = 1
    /\ UNCHANGED <<readers, try>>

(* CELL_SYNC_ERROR_BUSY beside another writer. *)
cellSyncRwmTryWrite(t) ==
    /\ writer = 0
    /\ Moves(t, "idle", "wdrain")
    /\ writer' = 1
    /\ try' = [try EXCEPT ![t] = TRUE]
    /\ UNCHANGED readers

(* Write waits for the last reader, TryWrite gives up. *)
WriteDrains(t) ==
    /\ At(t, "wdrain")
    /\ \/ readers = 0 /\ Goto(t, "wcopy")
       \/ readers > 0 /\ try[t] /\ Goto(t, "wback")
    /\ UNCHANGED <<readers, writer, try>>

WriteLeaves(t) ==
    /\ pc[t] \in {"wback", "wcopy"}
    /\ writer' = 0
    /\ RwmReturns(t)
    /\ UNCHANGED readers

----------------------------------------------------------------------------
RwmCall(t) ==
    cellSyncRwmRead(t) \/ cellSyncRwmTryRead(t) \/ cellSyncRwmWrite(t) \/ cellSyncRwmTryWrite(t)

RwmRun(t) ==
    \/ ReadWaits(t) \/ ReadEnters(t) \/ ReadChecks(t) \/ ReadBacksOff(t) \/ ReadLeaves(t)
    \/ WriteSwaps(t) \/ WriteDrains(t) \/ WriteLeaves(t)

RwmNext == cellSyncRwmInitialize \/ \E t \in Threads : RwmCall(t) \/ RwmRun(t)

RwmSpec == RwmInit /\ [][RwmNext]_rwmVars

(* Spinning threads keep running. *)
RwmFairness == \A t \in Threads : WF_rwmVars(RwmRun(t))

----------------------------------------------------------------------------
(* What the Rwm promises. *)

RwmPlaces == {"idle", "rwait", "renter", "rcheck", "rback", "rcopy",
              "wswap", "wdrain", "wback", "wcopy"}

RwmTypeOK ==
    /\ readers \in Nat /\ writer \in {0, 1}
    /\ try \in [Threads -> BOOLEAN]
    /\ pc  \in [Threads -> RwmPlaces]

(* No copy is torn: while one thread copies into the buffer no other       *)
(* copies into it or out of it, though readers and writers announce        *)
(* themselves in one word and look at the other one in a later step.       *)
RwmNoTear ==
    \A t \in Callers({"wcopy"}), u \in Callers({"rcopy", "wcopy"}) : t = u

(* Nobody is left over in the two words, whatever was backed out of: a     *)
(* reader too many would keep every writer out for ever.                   *)
RwmCounted ==
    /\ readers = Cardinality(Inside)
    /\ writer = Cardinality(Writing)

(* A writer that has announced itself gets to write and returns: readers   *)
(* give way to it, whatever calls the other threads go on making.          *)
RwmWriteReturns == \A t \in Threads : []<>(t \notin Writing)
=============================================================================
