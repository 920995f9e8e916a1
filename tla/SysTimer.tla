------------------------------- MODULE SysTimer -------------------------------
(***************************************************************************)
(* A periodic timer of runtime/syscalls/sys_timer.c (the Windows build):   *)
(* while it runs, a host thread of its own pushes events into a queue.     *)
(* The calls take no lock, so the guest may make only one of create,       *)
(* destroy, start and stop at a time; connect and disconnect may come at   *)
(* any time.  A stop waits 3 seconds for the thread and does not look      *)
(* whether it ended: a thread that is late goes on beside the next start,  *)
(* or in the slot of the next timer.                                       *)
(***************************************************************************)
EXTENDS SysEventQueue

CONSTANT BeatMax    \* bound on the timer's host threads at a time

ASSUME BeatAssumption == BeatMax \in Nat

Beats == 1 .. BeatMax

VARIABLES
    timer,      \* active, running, stop_event (none, clear, set), thread_handle (0: none)
    bound,      \* its event_queue_id (0: none), and the event its source and data1 make
    beat,       \* its host threads: where each is, the queue and the event it has read
    keeper,     \* the start, stop or destroy under way, and its thread
    binder      \* the connect under way, its thread and its event

timerVars == <<timer, bound, beat, keeper, binder>>

Unbound  == [queue |-> 0, event |-> NoEvent]
NoTimer  == [active |-> FALSE, running |-> FALSE, stop |-> "none", thread |-> 0]
NoBeat   == [at |-> "none", queue |-> 0, got |-> NoEvent]
NoKeeper == [at |-> "none"]

TimerInit ==
    /\ timer = NoTimer /\ bound = Unbound
    /\ beat = [b \in Beats |-> NoBeat]
    /\ keeper = NoKeeper /\ binder = NoKeeper

NobodyKeeps == keeper.at = "none"

(* The thread is in a call on the timer. *)
Keeping(t) ==
    \/ keeper.at # "none" /\ keeper.thread = t
    \/ binder.at # "none" /\ binder.thread = t

sys_timer_create ==
    /\ NobodyKeeps /\ ~timer.active
    /\ timer' = [NoTimer EXCEPT !.active = TRUE]
    /\ bound' = Unbound
    /\ UNCHANGED <<beat, keeper, binder>>

(* The id is stored before the source and data1 that belong to it. *)
sys_timer_connect_event_queue(t, q, e) ==
    /\ timer.active /\ binder.at = "none"
    /\ bound' = [bound EXCEPT !.queue = q]
    /\ binder' = [at |-> "event", thread |-> t, event |-> e]
    /\ UNCHANGED <<timer, beat, keeper>>

ConnectStores ==
    /\ binder.at = "event"
    /\ bound' = [bound EXCEPT !.event = binder.event]
    /\ binder' = NoKeeper
    /\ UNCHANGED <<timer, beat, keeper>>

sys_timer_disconnect_event_queue ==
    /\ timer.active
    /\ bound' = [bound EXCEPT !.queue = 0]
    /\ UNCHANGED <<timer, beat, keeper, binder>>

sys_timer_start(t) ==
    /\ NobodyKeeps /\ timer.active /\ ~timer.running            \* EBUSY
    /\ keeper' = [at |-> "start", thread |-> t, destroy |-> FALSE]
    /\ UNCHANGED <<timer, bound, beat, binder>>

StartRuns == timer' = [timer EXCEPT !.running = TRUE] /\ UNCHANGED beat

(* CreateEvent and CreateThread. *)
StartSpawns ==
    \E b \in Beats :
        /\ beat[b].at = "none" /\ \A k \in 1 .. (b - 1) : beat[k].at # "none"
        /\ beat' = [beat EXCEPT ![b].at = "loop"]
        /\ timer' = [timer EXCEPT !.stop = "clear", !.thread = b]

(* Mutant: the thread is made before the timer is marked as running. *)
StartSpawnsFirst ==
    /\ \/ keeper.at = "start" /\ StartSpawns /\ keeper' = [keeper EXCEPT !.at = "spawn"]
       \/ keeper.at = "spawn" /\ StartRuns /\ keeper' = NoKeeper
    /\ UNCHANGED <<bound, binder>>

StartGoesOn ==
    /\ \/ keeper.at = "start" /\ StartRuns /\ keeper' = [keeper EXCEPT !.at = "spawn"]
       \/ keeper.at = "spawn" /\ StartSpawns /\ keeper' = NoKeeper
    /\ UNCHANGED <<bound, binder>>

(* sys_timer_stop, and sys_timer_destroy of a timer that runs. *)
sys_timer_stop(t, destroy) ==
    /\ NobodyKeeps /\ timer.active /\ timer.running
    /\ timer' = [timer EXCEPT !.running = FALSE]
    /\ keeper' = [at |-> "signal", thread |-> t, destroy |-> destroy]
    /\ UNCHANGED <<bound, beat, binder>>

(* SetEvent: a thread that waits for it breaks out of its loop. *)
StopSignals ==
    /\ keeper.at = "signal"
    /\ timer' = [timer EXCEPT !.stop = "set"]
    /\ beat' = [b \in Beats |-> IF beat[b].at = "wait" THEN NoBeat ELSE beat[b]]
    /\ keeper' = [keeper EXCEPT !.at = "join"]
    /\ UNCHANGED <<bound, binder>>

(* The thread has ended or the 3 seconds have; the handles are closed. *)
StopJoins ==
    /\ keeper.at = "join"
    /\ timer' = [timer EXCEPT !.stop = "none", !.thread = 0, !.active = ~keeper.destroy]
    /\ keeper' = NoKeeper
    /\ UNCHANGED <<bound, beat, binder>>

sys_timer_destroy ==
    /\ NobodyKeeps /\ timer.active /\ ~timer.running
    /\ timer' = [timer EXCEPT !.active = FALSE]
    /\ UNCHANGED <<bound, beat, keeper, binder>>

----------------------------------------------------------------------------
(* timer_thread_proc *)

BeatAt(b, where) == beat[b].at = where
Goes(b, where) ==
    /\ beat' = [beat EXCEPT ![b] = IF where = "none" THEN NoBeat ELSE [@ EXCEPT !.at = where]]
    /\ UNCHANGED <<timer, bound, keeper, binder>>

BeatLoops(b) ==
    BeatAt(b, "loop") /\ Goes(b, IF timer.running THEN "call" ELSE "none")

(* WaitForSingleObject: the event ends the thread, and a handle that is    *)
(* closed or not yet made fails the wait at once.                          *)
BeatCalls(b) ==
    /\ BeatAt(b, "call")
    /\ Goes(b, CASE timer.stop = "clear" -> "wait" [] timer.stop = "set" -> "none" [] OTHER -> "tick")

(* The period is over. *)
BeatWaits(b) == BeatAt(b, "wait") /\ Goes(b, "tick")

BeatTicks(b) == BeatAt(b, "tick") /\ Goes(b, IF timer.running THEN "send" ELSE "loop")

(* timer_send_event reads event_queue_id, and once more for the index.  A  *)
(* disconnect in between makes that -1: what is before the table is taken  *)
(* for a queue, and the thread is astray unless it looks inactive.         *)
timer_send_event(b) ==
    /\ BeatAt(b, "send")
    /\ beat' = [beat EXCEPT ![b].at = IF bound.queue = 0 THEN "loop" ELSE "index",
                            ![b].queue = bound.queue]
    /\ UNCHANGED <<timer, bound, keeper, binder>>

SendIndexes(b) ==
    /\ BeatAt(b, "index")
    /\ \E q \in {beat[b].queue, bound.queue} :
          \E at \in IF q = 0 THEN {"astray", "loop"} ELSE IF active[q] THEN {"source"} ELSE {"loop"} :
              beat' = [beat EXCEPT ![b].at = at, ![b].queue = IF at = "source" THEN q ELSE 0]
    /\ UNCHANGED <<timer, bound, keeper, binder>>

(* Source and data1 of two events make some event. *)
Mix(d, e) == IF d = e /\ d # NoEvent THEN {d} ELSE Events

SendSource(b) ==
    /\ BeatAt(b, "source")
    /\ beat' = [beat EXCEPT ![b].at = "data", ![b].got = bound.event]
    /\ UNCHANGED <<timer, bound, keeper, binder>>

SendData(b) ==
    /\ BeatAt(b, "data")
    /\ \E e \in Mix(beat[b].got, bound.event) :
          beat' = [beat EXCEPT ![b].at = "push", ![b].got = e]
    /\ UNCHANGED <<timer, bound, keeper, binder>>

BeatStores(q, e) ==
    /\ count[q] < capacity[q]
    /\ buffer' = [buffer EXCEPT ![q][tail[q]] = e]
    /\ tail'   = [tail   EXCEPT ![q] = (@ + 1) % capacity[q]]
    /\ count'  = [count  EXCEPT ![q] = @ + 1]
    /\ \E woken \in SUBSET Threads :
          /\ WakesOne(q, woken)
          /\ pc' = [t \in Threads |-> IF t \in woken THEN "woken" ELSE pc[t]]
    /\ UNCHANGED <<active, capacity, head, cancelled, waiters, locals, out>>

(* Under the lock it asks for room, and not whether the queue is live. *)
BeatPushes(b) ==
    LET q == beat[b].queue IN
    /\ BeatAt(b, "push")
    /\ beat' = [beat EXCEPT ![b] = [NoBeat EXCEPT !.at = "loop"]]
    /\ \/ count[q] >= capacity[q] /\ UNCHANGED vars
       \/ BeatStores(q, beat[b].got)
    /\ UNCHANGED <<timer, bound, keeper, binder>>

----------------------------------------------------------------------------
TimerCall(t) ==
    /\ \/ sys_timer_create \/ sys_timer_disconnect_event_queue
       \/ sys_timer_start(t) \/ sys_timer_destroy
       \/ \E q \in Queues, e \in Events : sys_timer_connect_event_queue(t, q, e)
       \/ \E destroy \in BOOLEAN : sys_timer_stop(t, destroy)
    /\ UNCHANGED vars

BeatMoves(b) ==
    \/ BeatLoops(b) \/ BeatCalls(b) \/ BeatWaits(b) \/ BeatTicks(b)
    \/ timer_send_event(b) \/ SendIndexes(b) \/ SendSource(b) \/ SendData(b)

TimerRun ==
    \/ (ConnectStores \/ StartGoesOn \/ StopSignals \/ StopJoins) /\ UNCHANGED vars
    \/ \E b \in Beats : BeatMoves(b) /\ UNCHANGED vars
    \/ \E b \in Beats : BeatPushes(b)

----------------------------------------------------------------------------
(* A timer that runs has its thread: the one that the last start made has  *)
(* not ended, though it looks at running as soon as it exists, and though  *)
(* threads that an earlier stop gave up on are still in the slot, under    *)
(* this start or one of the next timer's.                                  *)
TimerServed ==
    timer.running /\ NobodyKeeps => timer.thread \in Beats /\ ~BeatAt(timer.thread, "none")
=============================================================================
