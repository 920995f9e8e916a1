--------------------------- MODULE CellSyncLFQueue ---------------------------
(***************************************************************************)
(* CellSyncLFQueue of libs/sync/cellSync.c: a ring under a spinlock.  The  *)
(* calls look at the count before they take the lock and again under it.   *)
(* A Push or Pop that finds the queue full or empty under the lock calls   *)
(* itself with the pointers it has translated already; that is the same    *)
(* call because the base of guest memory is aligned to 4 GB (vm_init), so  *)
(* that translating twice is translating once.                             *)
(***************************************************************************)
EXTENDS QueueElements

VARIABLES
    head, tail, size, lock,     \* the queue; size is its count
    cells,                      \* its buffer
    op,                         \* each thread: "push", "pop" or "clear"
    once,                       \* each thread: its call is TryPush or TryPop
    item                        \* each thread: what it pushes, or has popped

ring        == <<head, tail, size>>
lfQueueVars == <<ring, lock, cells, op, once, item, pc>>

(* cellSyncLFQueueInitialize *)
LFQueueInit ==
    /\ head = 0 /\ tail = 0 /\ size = 0 /\ lock = 0
    /\ cells = [i \in Slots |-> NoValue]
    /\ op    = [t \in Threads |-> "clear"]
    /\ once  = [t \in Threads |-> FALSE]
    /\ item  = [t \in Threads |-> NoValue]
    /\ NobodyCalls

(* Push is up against a full queue, Pop against an empty one. *)
Stuck(what) == IF what = "push" THEN size >= Depth ELSE what = "pop" /\ size = 0

Starts(t, what, try, v, where) ==
    /\ Moves(t, "idle", where)
    /\ op'   = [op EXCEPT ![t] = what]
    /\ once' = [once EXCEPT ![t] = try]
    /\ item' = [item EXCEPT ![t] = v]
    /\ UNCHANGED <<ring, lock, cells>>

(* The four calls share the steps that follow; a Try takes the lock or     *)
(* gives up, the others spin for it.                                       *)
cellSyncLFQueuePush(t, v) == Starts(t, "push", FALSE, v, "spin")
cellSyncLFQueuePop(t)     == Starts(t, "pop", FALSE, NoValue, "spin")
cellSyncLFQueueClear(t)   == Starts(t, "clear", FALSE, NoValue, "acquire")

(* CELL_SYNC_ERROR_OVERFLOW, CELL_SYNC_ERROR_EMPTY *)
cellSyncLFQueueTryPush(t, v) == ~Stuck("push") /\ Starts(t, "push", TRUE, v, "acquire")
cellSyncLFQueueTryPop(t)     == ~Stuck("pop") /\ Starts(t, "pop", TRUE, NoValue, "acquire")

Returns(t) ==
    /\ Goto(t, "idle")
    /\ op'   = [op EXCEPT ![t] = "clear"]
    /\ once' = [once EXCEPT ![t] = FALSE]
    /\ item' = [item EXCEPT ![t] = NoValue]

SpinEnds(t) ==
    /\ ~Stuck(op[t])
    /\ Moves(t, "spin", "acquire")
    /\ UNCHANGED <<ring, lock, cells, op, once, item>>

Acquires(t) ==
    /\ lock = 0
    /\ Moves(t, "acquire", "check")
    /\ lock' = 1
    /\ UNCHANGED <<ring, cells, op, once, item>>

(* CELL_SYNC_ERROR_BUSY *)
TryGivesUp(t) ==
    /\ At(t, "acquire") /\ once[t] /\ lock = 1
    /\ Returns(t)
    /\ UNCHANGED <<ring, lock, cells>>

(* The queue filled up or ran empty before the lock was taken. *)
ChecksAgain(t) ==
    /\ At(t, "check") /\ Stuck(op[t])
    /\ lock' = 0
    /\ IF once[t] THEN Returns(t) ELSE Goto(t, "spin") /\ UNCHANGED <<op, once, item>>
    /\ UNCHANGED <<ring, cells>>

(* Mutant: the copy under the lock trusts the look before it. *)
CopiesUnchecked(t) ==
    /\ At(t, "check") /\ op[t] # "clear"
    /\ Goto(t, "publish")
    /\ IF op[t] = "push" THEN cells' = [cells EXCEPT ![tail] = item[t]] /\ UNCHANGED item
                         ELSE item' = [item EXCEPT ![t] = cells[head]] /\ UNCHANGED cells
    /\ UNCHANGED <<ring, lock, op, once>>

Copies(t) ==
    /\ At(t, "check") /\ op[t] # "clear" /\ ~Stuck(op[t])
    /\ Goto(t, "publish")
    /\ IF op[t] = "push" THEN cells' = [cells EXCEPT ![tail] = item[t]] /\ UNCHANGED item
                         ELSE item' = [item EXCEPT ![t] = cells[head]] /\ UNCHANGED cells
    /\ UNCHANGED <<ring, lock, op, once>>

Publishes(t) ==
    /\ At(t, "publish")
    /\ IF op[t] = "push"
       THEN tail' = (tail + 1) % Depth /\ size' = size + 1 /\ UNCHANGED head
       ELSE head' = (head + 1) % Depth /\ size' = size - 1 /\ UNCHANGED tail
    /\ lock' = 0
    /\ Returns(t)
    /\ UNCHANGED cells

Clears(t) ==
    /\ At(t, "check") /\ op[t] = "clear"
    /\ head' = 0 /\ tail' = 0 /\ size' = 0 /\ lock' = 0
    /\ Returns(t)
    /\ UNCHANGED cells

LFQueueCall(t) ==
    \/ \E v \in Values : cellSyncLFQueuePush(t, v) \/ cellSyncLFQueueTryPush(t, v)
    \/ cellSyncLFQueuePop(t) \/ cellSyncLFQueueTryPop(t) \/ cellSyncLFQueueClear(t)

LFQueueRun(t) ==
    \/ SpinEnds(t) \/ Acquires(t) \/ TryGivesUp(t) \/ ChecksAgain(t)
    \/ Copies(t) \/ Publishes(t) \/ Clears(t)

LFQueueNext == \E t \in Threads : LFQueueCall(t) \/ LFQueueRun(t)

LFQueueSpec == LFQueueInit /\ [][LFQueueNext]_lfQueueVars

----------------------------------------------------------------------------
(* What the queue promises. *)

LFQueueTypeOK ==
    /\ head \in Slots /\ tail \in Slots /\ size \in 0 .. Depth /\ lock \in {0, 1}
    /\ cells \in [Slots -> Values \cup {NoValue}]
    /\ op    \in [Threads -> {"push", "pop", "clear"}]
    /\ once  \in [Threads -> BOOLEAN]
    /\ item  \in [Threads -> Values \cup {NoValue}]
    /\ pc    \in [Threads -> {"idle", "spin", "acquire", "check", "publish"}]

(* A Pop has its element from the copy on, until it returns. *)
Taking == {t \in Threads : At(t, "publish") /\ op[t] = "pop"}
Taken  == Cardinality(Taking)

LFQueue == INSTANCE SyncFifo WITH
    fifo <- [i \in 1 .. (size - Taken) |-> cells[(head + Taken + i - 1) % Depth]],
    got  <- [t \in Threads |-> IF t \in Taking THEN item[t] ELSE NoValue]

(* The look at the count before the lock is stale by the time the lock is  *)
(* taken; still no push overwrites an element, no pop gets what is not     *)
(* there, and the elements leave in the order they came.                   *)
LFQueueIsFifo == LFQueue!Spec
=============================================================================
