---------------------------- MODULE CellSyncQueue ----------------------------
(***************************************************************************)
(* CellSyncQueue of libs/sync/cellSync.c: a ring in guest memory that SPU  *)
(* code changes with the same transactions.  An operation is a transaction *)
(* on the control words (sq_apply), the copy of an element outside it, and *)
(* a second transaction that takes the operation's flag away (sq_and).     *)
(* Pop and Push are TryPop and TryPush called until they do not answer     *)
(* BUSY.                                                                   *)
(***************************************************************************)
EXTENDS QueueElements

VARIABLES
    next, count, popping, pushing,      \* the control words; the flags are 0 or 1
    slots,                              \* the buffer
    pos,                                \* each thread: the slot of its operation
    elem                                \* each thread: what it pushes, or has taken

ctrl      == <<next, count, popping, pushing>>
queueVars == <<ctrl, slots, pos, elem, pc>>

(* cellSyncQueueInitialize leaves the buffer as it is. *)
QueueInit ==
    /\ next = 0 /\ count = 0 /\ popping = 0 /\ pushing = 0
    /\ slots = [i \in Slots |-> NoValue]
    /\ pos   = [t \in Threads |-> 0]
    /\ elem  = [t \in Threads |-> NoValue]
    /\ NobodyCalls

Set(f, t, v) == [f EXCEPT ![t] = v]

----------------------------------------------------------------------------
(* Mutant: the slot that is being popped counts as free. *)
HasRoomEarly == pushing = 0 /\ count < Depth

HasRoom == pushing = 0 /\ count + popping < Depth

(* sq_push_begin *)
PushBegins(t, v) ==
    /\ HasRoom
    /\ Moves(t, "idle", "push")
    /\ pos'  = Set(pos, t, next)
    /\ elem' = Set(elem, t, v)
    /\ next' = IF next + 1 # Depth THEN next + 1 ELSE 0
    /\ count' = count + 1 /\ pushing' = 1
    /\ UNCHANGED <<popping, slots>>

PushCopies(t) ==
    /\ Moves(t, "push", "pushed")
    /\ slots' = [slots EXCEPT ![pos[t]] = elem[t]]
    /\ UNCHANGED <<ctrl, pos, elem>>

PushEnds(t) ==
    /\ Moves(t, "pushed", "idle")
    /\ pushing' = 0
    /\ pos'  = Set(pos, t, 0)
    /\ elem' = Set(elem, t, NoValue)
    /\ UNCHANGED <<next, count, popping, slots>>

----------------------------------------------------------------------------
(* Mutant: an element that is being pushed can be popped. *)
HasElementEarly == popping = 0 /\ count > 0

HasElement == popping = 0 /\ count > pushing

(* sq_pop_begin, and sq_peek_begin, which leaves count alone *)
TakeBegins(t, op) ==
    /\ HasElement
    /\ Moves(t, "idle", "take")
    /\ pos'   = Set(pos, t, (next + Depth - count) % Depth)
    /\ count' = IF op = "pop" THEN count - 1 ELSE count
    /\ popping' = 1
    /\ UNCHANGED <<next, pushing, slots, elem>>

TakeCopies(t) ==
    /\ Moves(t, "take", "taken")
    /\ elem' = Set(elem, t, slots[pos[t]])
    /\ UNCHANGED <<ctrl, slots, pos>>

TakeEnds(t) ==
    /\ Moves(t, "taken", "idle")
    /\ popping' = 0
    /\ pos'  = Set(pos, t, 0)
    /\ elem' = Set(elem, t, NoValue)
    /\ UNCHANGED <<next, count, pushing, slots>>

----------------------------------------------------------------------------
(* sq_clear_1, sq_clear_2, and both words zeroed. *)
ClearStops(t) ==
    /\ popping = 0
    /\ Moves(t, "idle", "clear")
    /\ popping' = 1
    /\ UNCHANGED <<next, count, pushing, slots, pos, elem>>

(* Mutant: Clear does not wait for the push that is under way. *)
ClearOverrides(t) ==
    /\ Moves(t, "clear", "zero")
    /\ pushing' = 1
    /\ UNCHANGED <<next, count, popping, slots, pos, elem>>

ClearOwns(t) ==
    /\ pushing = 0
    /\ Moves(t, "clear", "zero")
    /\ pushing' = 1
    /\ UNCHANGED <<next, count, popping, slots, pos, elem>>

ClearEnds(t) ==
    /\ Moves(t, "zero", "idle")
    /\ next' = 0 /\ count' = 0 /\ popping' = 0 /\ pushing' = 0
    /\ UNCHANGED <<slots, pos, elem>>

----------------------------------------------------------------------------
QueueStep(t) ==
    \/ \E v \in Values : PushBegins(t, v)
    \/ PushCopies(t) \/ PushEnds(t)
    \/ TakeBegins(t, "pop") \/ TakeBegins(t, "peek")
    \/ TakeCopies(t) \/ TakeEnds(t)
    \/ ClearStops(t) \/ ClearOwns(t) \/ ClearEnds(t)

QueueNext == \E t \in Threads : QueueStep(t)

QueueSpec == QueueInit /\ [][QueueNext]_queueVars

----------------------------------------------------------------------------
(* What the queue promises. *)

QueueTypeOK ==
    /\ next \in Slots /\ count \in 0 .. Depth
    /\ popping \in {0, 1} /\ pushing \in {0, 1}
    /\ slots \in [Slots -> Values \cup {NoValue}]
    /\ pos   \in [Threads -> Slots]
    /\ elem  \in [Threads -> Values \cup {NoValue}]
    /\ pc    \in [Threads -> {"idle", "push", "pushed", "take", "taken", "clear", "zero"}]

Pushers == Callers({"push", "pushed"})
Takers  == Callers({"take", "taken"})

(* The two flags each have one owner, as long as they are set: no flag     *)
(* stays behind (every later call would answer BUSY), and none is taken    *)
(* away from under an operation, in particular not by Clear.               *)
QueueFlags ==
    /\ popping = Cardinality(Takers \cup Callers({"clear", "zero"}))
    /\ pushing = Cardinality(Pushers \cup Callers({"zero"}))

(* The elements are copied outside the transactions; still no thread       *)
(* writes the slot that another one reads.                                 *)
QueueSlotsApart == \A t \in Pushers, u \in Takers : pos[t] # pos[u]

(* The elements a Pop can get: all but the one that is being pushed. *)
Ready == count - Cardinality(Pushers)

(* A Pop or Peek has its element from its first transaction on, until it   *)
(* returns.                                                                *)
Queue == INSTANCE SyncFifo WITH
    fifo <- [i \in 1 .. Ready |-> slots[(next + Depth - count + i - 1) % Depth]],
    got  <- [t \in Threads |-> IF At(t, "take") THEN slots[pos[t]]
                               ELSE IF At(t, "taken") THEN elem[t] ELSE NoValue]

(* However the pushes, pops, peeks and clears overlap, the elements leave  *)
(* in the order they came, whole, and each one to one thread.              *)
QueueIsFifo == Queue!Spec
=============================================================================
