--------------------------- MODULE SysEventsProofs ---------------------------
(***************************************************************************)
(* Proofs about the event queues with what feeds them: the ports and the   *)
(* timer's thread change the queues only by steps that keep what was       *)
(* proved of the queues alone.                                             *)
(***************************************************************************)
EXTENDS SysEvents, SysEventQueueProofs

----------------------------------------------------------------------------
(* The ports and the timer. *)

PortInv ==
    /\ connected_queue \in [Ports -> Queues \cup {0}]
    /\ via \in [Threads -> Queues \cup {0}]

Bindings == [queue : Queues \cup {0}, event : Events \cup {NoEvent}]

Timers == [active : BOOLEAN, running : BOOLEAN, stop : {"none", "clear", "set"}, thread : Beats \cup {0}]

Keepers == [at : {"start", "spawn", "signal", "join"}, thread : Threads, destroy : BOOLEAN] \cup {NoKeeper}

Binders == [at : {"event"}, thread : Threads, event : Events] \cup {NoKeeper}

BeatPlaces == {"none", "loop", "call", "wait", "tick", "send", "index", "source", "data", "push", "astray"}

BeatRecords == [at : BeatPlaces, queue : Queues \cup {0}, got : Events \cup {NoEvent}]

(* A host thread that is on its way to push has read a queue, and at the   *)
(* push an event.                                                          *)
BeatOK(r) ==
    /\ r.at \in {"index", "source", "data", "push"} => r.queue \in Queues
    /\ r.at = "push" => r.got \in Events

TimerTypes ==
    /\ timer \in Timers /\ bound \in Bindings /\ keeper \in Keepers /\ binder \in Binders
    /\ beat \in [Beats -> BeatRecords]
    /\ \A b \in Beats : BeatOK(beat[b])

(* What lets the thread of a timer that runs go on: its stop event is not  *)
(* set.  A start has marked the timer when it makes the thread, and a stop *)
(* has unmarked it before it sets the event.                               *)
ThreadKept ==
    /\ timer.running => keeper.at \in {"none", "spawn"}
    /\ timer.running /\ NobodyKeeps => timer.stop = "clear"
    /\ keeper.at = "spawn" => timer.running
    /\ TimerServed

TimerInv == TimerTypes /\ ThreadKept

EventsInv == Inv /\ PortInv /\ TimerInv

LEMMA EventsInitial == EventsInit => EventsInv
  <1> SUFFICES ASSUME EventsInit PROVE EventsInv
    OBVIOUS
  <1>1. Inv
    BY InitInv DEF EventsInit
  <1>2. PortInv
    BY DEF EventsInit, PortInit, PortInv
  <1>3. TimerTypes
    BY DEF EventsInit, TimerInit, TimerTypes, Timers, Bindings, Keepers, Binders, BeatRecords, BeatPlaces,
           BeatOK, NoTimer, Unbound, NoBeat, NoKeeper
  <1>4. ThreadKept
    BY DEF EventsInit, TimerInit, ThreadKept, TimerServed, NoTimer, NoKeeper
  <1> QED BY <1>1, <1>2, <1>3, <1>4 DEF EventsInv, TimerInv

(* The records that the timer's steps store. *)
LEMMA TimerFields ==
    ASSUME timer \in Timers
    PROVE  /\ \A r \in BOOLEAN : /\ [timer EXCEPT !.running = r] \in Timers
                                 /\ [timer EXCEPT !.running = r].running = r
                                 /\ [timer EXCEPT !.running = r].stop = timer.stop
                                 /\ [timer EXCEPT !.running = r].thread = timer.thread
           /\ \A a \in BOOLEAN : /\ [timer EXCEPT !.active = a] \in Timers
                                 /\ [timer EXCEPT !.active = a].running = timer.running
           /\ /\ [timer EXCEPT !.stop = "set"] \in Timers
              /\ [timer EXCEPT !.stop = "set"].running = timer.running
           /\ \A b \in Beats : /\ [timer EXCEPT !.stop = "clear", !.thread = b] \in Timers
                               /\ [timer EXCEPT !.stop = "clear", !.thread = b].stop = "clear"
                               /\ [timer EXCEPT !.stop = "clear", !.thread = b].thread = b
           /\ \A a \in BOOLEAN : /\ [timer EXCEPT !.stop = "none", !.thread = 0, !.active = a] \in Timers
                                 /\ [timer EXCEPT !.stop = "none", !.thread = 0, !.active = a].running = timer.running
  BY DEF Timers

LEMMA KeeperFields ==
    ASSUME keeper \in Keepers, keeper.at # "none"
    PROVE  /\ keeper.destroy \in BOOLEAN
           /\ \A at \in {"spawn", "join"} : /\ [keeper EXCEPT !.at = at] \in Keepers
                                           /\ [keeper EXCEPT !.at = at].at = at
  BY DEF Keepers, NoKeeper

(* A host thread of the timer moves on, and ends only when it may. *)
LEMMA BeatChange ==
    ASSUME TimerInv, NEW b \in Beats, NEW r \in BeatRecords, BeatOK(r),
           r.at = "none" => ~(timer.running /\ NobodyKeeps),
           beat' = [beat EXCEPT ![b] = r], UNCHANGED <<timer, bound, keeper, binder>>
    PROVE  TimerInv'
  <1>1. \A k \in Beats : beat'[k] = IF k = b THEN r ELSE beat[k]
    BY DEF TimerInv, TimerTypes
  <1>2. TimerTypes'
    <2>1. beat' \in [Beats -> BeatRecords]
      BY DEF TimerInv, TimerTypes
    <2> QED BY <1>1, <2>1 DEF TimerInv, TimerTypes
  <1>3. TimerServed'
    BY <1>1 DEF TimerInv, ThreadKept, TimerServed, NobodyKeeps, BeatAt
  <1> QED BY <1>2, <1>3 DEF TimerInv, ThreadKept, NobodyKeeps

LEMMA BeatMovesKeeps ==
    ASSUME TimerInv, NEW b \in Beats, BeatMoves(b)
    PROVE  TimerInv'
  <1>1. /\ beat[b] \in BeatRecords /\ BeatOK(beat[b]) /\ beat \in [Beats -> BeatRecords]
        /\ bound.queue \in Queues \cup {0} /\ bound.event \in Events \cup {NoEvent}
    BY DEF TimerInv, TimerTypes, Bindings
  <1>2. ASSUME NEW at \in {"loop", "call", "wait", "tick", "send"}, Goes(b, at) PROVE TimerInv'
    <2> DEFINE r == [beat[b] EXCEPT !.at = at]
    <2>1. r \in BeatRecords /\ r.at = at
      BY <1>1 DEF BeatRecords, BeatPlaces
    <2>2. beat' = [beat EXCEPT ![b] = r] /\ UNCHANGED <<timer, bound, keeper, binder>>
      BY <1>2 DEF Goes
    <2>3. BeatOK(r)
      BY <2>1 DEF BeatOK
    <2> HIDE DEF r
    <2> QED BY <2>1, <2>2, <2>3, BeatChange
  <1>3. ASSUME Goes(b, "none"), ~(timer.running /\ NobodyKeeps) PROVE TimerInv'
    <2>1. NoBeat \in BeatRecords /\ BeatOK(NoBeat)
      BY DEF NoBeat, BeatRecords, BeatPlaces, BeatOK
    <2>2. beat' = [beat EXCEPT ![b] = NoBeat] /\ UNCHANGED <<timer, bound, keeper, binder>>
      BY <1>3 DEF Goes
    <2> QED BY <1>3, <2>1, <2>2, BeatChange
  <1>4. CASE BeatLoops(b)
    BY <1>2, <1>3, <1>4 DEF BeatLoops
  <1>5. CASE BeatCalls(b)
    <2>1. timer.stop = "set" => ~(timer.running /\ NobodyKeeps)
      BY DEF TimerInv, ThreadKept
    <2> QED BY <1>2, <1>3, <1>5, <2>1 DEF BeatCalls
  <1>6. CASE BeatWaits(b) \/ BeatTicks(b)
    BY <1>2, <1>6 DEF BeatWaits, BeatTicks
  <1>7. ASSUME NEW at \in {"loop", "index", "source", "astray"}, NEW q \in Queues \cup {0},
               at \in {"index", "source"} => q \in Queues,
               beat' = [beat EXCEPT ![b].at = at, ![b].queue = q], UNCHANGED <<timer, bound, keeper, binder>>
        PROVE  TimerInv'
    <2> DEFINE r == [beat[b] EXCEPT !.at = at, !.queue = q]
    <2>1. r \in BeatRecords /\ r.at = at /\ r.queue = q
      BY <1>1, <1>7 DEF BeatRecords, BeatPlaces
    <2>2. beat' = [beat EXCEPT ![b] = r]
      BY <1>1, <1>7 DEF BeatRecords
    <2>3. BeatOK(r)
      BY <1>7, <2>1 DEF BeatOK
    <2> HIDE DEF r
    <2> QED BY <1>7, <2>1, <2>2, <2>3, BeatChange
  <1>8. ASSUME NEW at \in {"data", "push"}, NEW e \in Events \cup {NoEvent},
               at = "push" => e \in Events, beat[b].queue \in Queues,
               beat' = [beat EXCEPT ![b].at = at, ![b].got = e], UNCHANGED <<timer, bound, keeper, binder>>
        PROVE  TimerInv'
    <2> DEFINE r == [beat[b] EXCEPT !.at = at, !.got = e]
    <2>1. r \in BeatRecords /\ r.at = at /\ r.queue = beat[b].queue /\ r.got = e
      BY <1>1, <1>8 DEF BeatRecords, BeatPlaces
    <2>2. beat' = [beat EXCEPT ![b] = r]
      BY <1>1, <1>8 DEF BeatRecords
    <2>3. BeatOK(r)
      BY <1>8, <2>1 DEF BeatOK
    <2> HIDE DEF r
    <2> QED BY <1>8, <2>1, <2>2, <2>3, BeatChange
  <1>9. CASE timer_send_event(b)
    BY <1>1, <1>7, <1>9 DEF timer_send_event, Queues
  <1>10. CASE SendIndexes(b)
    <2>1. beat[b].queue \in Queues
      BY <1>1, <1>10 DEF SendIndexes, BeatAt, BeatOK
    <2>2. PICK q \in {beat[b].queue, bound.queue} :
            \E at \in IF q = 0 THEN {"astray", "loop"} ELSE IF active[q] THEN {"source"} ELSE {"loop"} :
                beat' = [beat EXCEPT ![b].at = at, ![b].queue = IF at = "source" THEN q ELSE 0]
      BY <1>10 DEF SendIndexes
    <2>3. PICK at \in {"astray", "loop", "source"} :
            /\ at = "source" => q # 0
            /\ beat' = [beat EXCEPT ![b].at = at, ![b].queue = IF at = "source" THEN q ELSE 0]
      BY <2>2
    <2> QED BY <1>1, <1>7, <1>10, <2>1, <2>2, <2>3 DEF SendIndexes
  <1>11. CASE SendSource(b)
    <2>1. beat[b].queue \in Queues
      BY <1>1, <1>11 DEF SendSource, BeatAt, BeatOK
    <2> QED BY <1>1, <1>8, <1>11, <2>1 DEF SendSource
  <1>12. CASE SendData(b)
    <2>1. beat[b].queue \in Queues
      BY <1>1, <1>12 DEF SendData, BeatAt, BeatOK
    <2>2. Mix(beat[b].got, bound.event) \subseteq Events
      BY <1>1 DEF Mix, BeatRecords
    <2> QED BY <1>1, <1>8, <1>12, <2>1, <2>2 DEF SendData
  <1> QED BY <1>4, <1>5, <1>6, <1>9, <1>10, <1>11, <1>12 DEF BeatMoves

(* The calls on the timer, which leave the queues alone. *)
LEMMA TimerCallKeeps ==
    ASSUME TimerInv, NEW t \in Threads, TimerCall(t)
    PROVE  TimerInv'
  <1> USE DEF TimerInv, TimerTypes, ThreadKept, TimerServed, NobodyKeeps, BeatAt
  <1>1. CASE sys_timer_create
    BY <1>1 DEF sys_timer_create, NoTimer, Timers, Unbound, Bindings
  <1>2. ASSUME NEW q \in Queues, NEW e \in Events, sys_timer_connect_event_queue(t, q, e)
        PROVE  TimerInv'
    BY <1>2 DEF sys_timer_connect_event_queue, Bindings, Binders
  <1>3. CASE sys_timer_disconnect_event_queue
    BY <1>3 DEF sys_timer_disconnect_event_queue, Bindings
  <1>4. CASE sys_timer_start(t)
    BY <1>4 DEF sys_timer_start, Keepers
  <1>5. ASSUME NEW d \in BOOLEAN, sys_timer_stop(t, d) PROVE TimerInv'
    BY <1>5, TimerFields DEF sys_timer_stop, Keepers
  <1>6. CASE sys_timer_destroy
    BY <1>6, TimerFields DEF sys_timer_destroy
  <1> QED BY <1>1, <1>2, <1>3, <1>4, <1>5, <1>6 DEF TimerCall

LEMMA TimerRunKeeps ==
    ASSUME TimerInv, TimerRun
    PROVE  TimerInv'
  <1>1. CASE ConnectStores
    <2>1. binder.event \in Events
      BY <1>1 DEF ConnectStores, TimerInv, TimerTypes, Binders, NoKeeper
    <2> QED BY <1>1, <2>1 DEF ConnectStores, TimerInv, TimerTypes, ThreadKept, TimerServed, NobodyKeeps, BeatAt,
                              Bindings, Binders
  <1>2. CASE StartGoesOn
    <2>1. CASE keeper.at = "start"
      <3>1. /\ timer' = [timer EXCEPT !.running = TRUE] /\ keeper' = [keeper EXCEPT !.at = "spawn"]
            /\ UNCHANGED <<bound, binder, beat>>
        BY <1>2, <2>1 DEF StartGoesOn, StartRuns
      <3>2. keeper' \in Keepers /\ keeper'.at = "spawn" /\ timer' \in Timers /\ timer'.running
        BY <2>1, <3>1, KeeperFields, TimerFields DEF TimerInv, TimerTypes
      <3> QED BY <3>1, <3>2 DEF TimerInv, TimerTypes, ThreadKept, TimerServed, NobodyKeeps
    <2>2. CASE keeper.at = "spawn"
      <3>1. keeper' = NoKeeper /\ UNCHANGED <<bound, binder>> /\ StartSpawns
        BY <1>2, <2>2 DEF StartGoesOn
      <3>2. PICK b \in Beats : /\ beat' = [beat EXCEPT ![b].at = "loop"]
                               /\ timer' = [timer EXCEPT !.stop = "clear", !.thread = b]
        BY <3>1 DEF StartSpawns
      <3>3. timer' \in Timers /\ timer'.stop = "clear" /\ timer'.thread = b
        BY <3>2, TimerFields DEF TimerInv, TimerTypes
      <3>4. beat \in [Beats -> BeatRecords] /\ \A k \in Beats : BeatOK(beat[k])
        BY DEF TimerInv, TimerTypes
      <3>5. /\ beat' \in [Beats -> BeatRecords] /\ beat'[b].at = "loop"
            /\ \A k \in Beats : k # b => beat'[k] = beat[k]
        BY <3>2, <3>4 DEF BeatRecords, BeatPlaces
      <3>6. \A k \in Beats : BeatOK(beat'[k])
        BY <3>4, <3>5 DEF BeatOK
      <3> QED BY <3>1, <3>3, <3>5, <3>6 DEF TimerInv, TimerTypes, ThreadKept, TimerServed, NobodyKeeps, BeatAt,
                                           Keepers, NoKeeper
    <2> QED BY <1>2, <2>1, <2>2 DEF StartGoesOn
  <1>3. CASE StopSignals
    <2>1. /\ keeper' \in Keepers /\ keeper'.at = "join" /\ timer' \in Timers /\ timer'.running = timer.running
          /\ ~timer.running
      BY <1>3, KeeperFields, TimerFields DEF StopSignals, TimerInv, TimerTypes, ThreadKept
    <2>2. NoBeat \in BeatRecords /\ BeatOK(NoBeat)
      BY DEF NoBeat, BeatRecords, BeatPlaces, BeatOK
    <2>3. beat' \in [Beats -> BeatRecords] /\ \A k \in Beats : BeatOK(beat'[k])
      BY <1>3, <2>2 DEF StopSignals, TimerInv, TimerTypes
    <2> QED BY <1>3, <2>1, <2>3 DEF StopSignals, TimerInv, TimerTypes, ThreadKept, TimerServed, NobodyKeeps
  <1>4. CASE StopJoins
    <2>1. keeper' \in Keepers /\ keeper'.at = "none" /\ timer' \in Timers /\ timer'.running = timer.running
      BY <1>4, KeeperFields, TimerFields DEF StopJoins, TimerInv, TimerTypes, Keepers, NoKeeper
    <2>2. ~timer.running
      BY <1>4 DEF StopJoins, TimerInv, ThreadKept
    <2> QED BY <1>4, <2>1, <2>2 DEF StopJoins, TimerInv, TimerTypes, ThreadKept, TimerServed, NobodyKeeps
  <1>5. ASSUME NEW b \in Beats, BeatPushes(b) PROVE TimerInv'
    <2> DEFINE r == [NoBeat EXCEPT !.at = "loop"]
    <2>1. r \in BeatRecords /\ BeatOK(r) /\ r.at = "loop"
      BY DEF NoBeat, BeatRecords, BeatPlaces, BeatOK
    <2>2. beat' = [beat EXCEPT ![b] = r] /\ UNCHANGED <<timer, bound, keeper, binder>>
      BY <1>5 DEF BeatPushes
    <2> HIDE DEF r
    <2> QED BY <2>1, <2>2, BeatChange
  <1> QED BY <1>1, <1>2, <1>3, <1>4, <1>5, BeatMovesKeeps DEF TimerRun

(* The timer's push does not look whether the queue is live; it keeps the  *)
(* queues' invariant and sends its event all the same.                     *)
LEMMA BeatStoresKeeps ==
    ASSUME Inv, NEW q \in Queues, NEW e \in Events, BeatStores(q, e)
    PROVE  Inv' /\ Fifo!Next
  <1>1. /\ TypeOK /\ RingInv /\ CallInv /\ NoLostEvent /\ WaitersReal
        /\ RingOK /\ RestOK /\ LocalsOK
    BY TypeParts DEF Inv, Typed
  <1>2. PICK woken \in SUBSET Threads :
            /\ WakesOne(q, woken)
            /\ pc' = [t \in Threads |-> IF t \in woken THEN "woken" ELSE pc[t]]
    BY DEF BeatStores
  <1>3. /\ count[q] < capacity[q] /\ buffer' = [buffer EXCEPT ![q][tail[q]] = e]
        /\ tail'   = [tail   EXCEPT ![q] = (@ + 1) % capacity[q]]
        /\ count'  = [count  EXCEPT ![q] = @ + 1]
        /\ UNCHANGED <<active, capacity, head>> /\ UNCHANGED <<cancelled, waiters, tgt, mode, arg, out>>
    BY DEF BeatStores, locals
  <1>4. /\ buffer' \in [Queues -> [Cells -> Events \cup {NoEvent}]]
        /\ tail' \in [Queues -> Cells] /\ count' \in [Queues -> 0 .. BufMax]
        /\ RingInv'
        /\ Len(Contents(q)) < capacity[q]
        /\ \A z \in Queues : Contents(z)' = IF z = q THEN Append(Contents(q), e) ELSE Contents(z)
    BY <1>1, <1>3, PushEffect
  <1>5. \A t \in woken : t \in Threads /\ pc[t] = "asleep" /\ tgt[t] = q
    BY <1>2 DEF WakesOne, Asleep
  <1>6. \A t \in Threads : pc'[t] = IF t \in woken THEN "woken" ELSE pc[t]
    BY <1>2
  <1>7. TypeOK'
    <2>1. RingOK' /\ RestOK'
      BY <1>1, <1>3, <1>4 DEF RingOK, RestOK
    <2>2. pc' \in [Threads -> PcValues]
      BY <1>1, <1>2 DEF LocalsOK, PcValues
    <2>3. LocalsOK'
      BY <1>1, <1>3, <2>2 DEF LocalsOK
    <2> QED BY <2>1, <2>3 DEF TypeOK, RingOK, RestOK, LocalsOK, Modes
  <1>8. CallInv'
    BY <1>1, <1>3, <1>5, <1>6 DEF CallInv, Idle, At
  <1>9. \A z \in Queues : /\ Asleep(z)' = Asleep(z) \ woken
                          /\ Woken(z)' = IF z = q THEN Woken(z) \cup woken ELSE Woken(z)
    BY <1>3, <1>5, <1>6 DEF Asleep, Woken
  <1>10. NoLostEvent'
    <2> SUFFICES ASSUME NEW z \in Queues, active'[z], Asleep(z)' # {}
                 PROVE  count'[z] <= Cardinality(Woken(z)')
      BY DEF NoLostEvent
    <2>1. Asleep(z) # {} /\ active[z] /\ count[z] <= Cardinality(Woken(z))
      BY <1>1, <1>3, <1>9 DEF NoLostEvent
    <2>2. CASE z # q
      BY <1>1, <1>3, <1>9, <2>1, <2>2 DEF RingOK
    <2>3. CASE z = q
      <3>1. PICK u \in Asleep(q) : woken = {u}
        BY <1>2, <2>1, <2>3 DEF WakesOne
      <3>2. u \notin Woken(q) /\ Woken(q)' = Woken(q) \cup {u} /\ Woken(q) \subseteq Threads
        BY <1>9, <3>1 DEF Woken, Asleep
      <3>3. Cardinality(Woken(q)') = Cardinality(Woken(q)) + 1
        BY <3>2, ThreadSets
      <3>4. count'[q] = count[q] + 1 /\ count[q] \in Nat
        BY <1>1, <1>3 DEF RingOK
      <3>5. Cardinality(Woken(q)) \in Nat
        BY <3>2, ThreadSets
      <3> QED BY <2>1, <2>3, <3>3, <3>4, <3>5
    <2> QED BY <2>2, <2>3
  <1>11. WaitersReal'
    <2>1. \A z \in Queues : Blocked(z)' = Blocked(z)
      <3> TAKE z \in Queues
      <3>1. Asleep(z)' \cup Woken(z)' = Asleep(z) \cup Woken(z)
        BY <1>5, <1>9 DEF Asleep
      <3> QED BY <1>3, <3>1 DEF Blocked, Counted
    <2> QED BY <1>1, <1>3, <2>1 DEF WaitersReal
  <1>12. Fifo!Next
    <2> DEFINE fifo == [z \in Queues |-> Contents(z)]
    <2>1. fifo' = [fifo EXCEPT ![q] = Append(Contents(q), e)]
      BY <1>4, OneQueue
    <2>2. Fifo!Send(q, e)
      BY <1>3, <1>4, <2>1 DEF Fifo!Send
    <2> QED BY <2>2 DEF Fifo!Next
  <1> QED BY <1>4, <1>7, <1>8, <1>10, <1>11, <1>12 DEF Inv, Typed

(* A step of the composition is a step of a call on a queue, a push of the *)
(* timer, or no step of the queues.                                        *)
LEMMA EventsMoves ==
    ASSUME PortInv, TimerInv, EventsNext
    PROVE  \/ \E t \in Threads : Moves(t)
           \/ \E q \in Queues, e \in Events : BeatStores(q, e)
           \/ UNCHANGED vars
  <1>1. ASSUME NEW t \in Threads,
               Call(t) \/ Run(t) \/ ReceiveTimesOut(t) \/ HostSliceOver(t) \/ SpuriousWake(t)
        PROVE  \E u \in Threads : Moves(u)
    BY <1>1, NextMoves DEF Next, Step
  <1>2. ASSUME NEW t \in Threads, NEW q \in Queues, NEW e \in Events, Begin(t, q, "push", "poll", e)
        PROVE  Moves(t)
    BY <1>2 DEF Moves, Begins, Modes
  <1>3. ASSUME NEW t \in Threads, PortCall(t) PROVE Moves(t) \/ UNCHANGED vars
    BY <1>2, <1>3 DEF PortCall, SendRouted
  <1>4. ASSUME NEW t \in Threads, SendRun(t) PROVE Moves(t) \/ UNCHANGED vars
    <2>1. via[t] # 0 => via[t] \in Queues
      BY DEF PortInv
    <2> QED BY <1>2, <1>4, <2>1 DEF SendRun, SendEnds, SendPushes
  <1>5. ASSUME NEW t \in Threads, TimerCall(t) PROVE UNCHANGED vars
    BY <1>5 DEF TimerCall
  <1>6. ASSUME TimerRun
        PROVE  UNCHANGED vars \/ \E q \in Queues, e \in Events : BeatStores(q, e)
    <2>1. \A b \in Beats : BeatAt(b, "push") => beat[b].queue \in Queues /\ beat[b].got \in Events
      BY DEF TimerInv, TimerTypes, BeatOK, BeatAt
    <2> QED BY <1>6, <2>1 DEF TimerRun, BeatPushes
  <1> QED BY <1>1, <1>3, <1>4, <1>5, <1>6 DEF EventsNext

LEMMA PortStep ==
    ASSUME PortInv, EventsNext
    PROVE  PortInv'
  <1>1. ASSUME NEW t \in Threads, PortCall(t) PROVE PortInv'
    BY <1>1 DEF PortCall, PortInv, sys_event_port_create, sys_event_port_destroy, sys_event_port_disconnect,
                sys_event_port_send, sys_event_port_connect_local, SendRouted, portVars
  <1>2. ASSUME NEW t \in Threads, SendRun(t) PROVE PortInv'
    BY <1>2 DEF SendRun, SendEnds, SendPushes, SendDone, PortInv
  <1>3. CASE UNCHANGED portVars
    BY <1>3 DEF portVars, PortInv
  <1> QED BY <1>1, <1>2, <1>3 DEF EventsNext

LEMMA EventsStep ==
    ASSUME EventsInv, [EventsNext]_eventVars
    PROVE  EventsInv' /\ (Fifo!Next \/ UNCHANGED Fifo!fifoVars)
  <1>1. ASSUME UNCHANGED vars PROVE Inv' /\ UNCHANGED Fifo!fifoVars
    <2>1. UNCHANGED ring /\ UNCHANGED out /\ \A q \in Queues : active'[q] => active[q]
      BY <1>1 DEF vars, slotVars
    <2>2. \A q \in Queues : Contents(q)' = Contents(q)
      BY <2>1, RingKept DEF EventsInv, Inv, Typed
    <2>3. UNCHANGED Fifo!fifoVars
      BY <2>1, <2>2 DEF Fifo!fifoVars, ring
    <2> QED BY <1>1, <2>3, StutterInv DEF EventsInv
  <1>2. ASSUME NEW t \in Threads, Moves(t) PROVE Inv' /\ (Fifo!Next \/ UNCHANGED Fifo!fifoVars)
    <2>1. Typed'
      BY <1>2, TypedStep DEF EventsInv, Inv
    <2>2. NoLostEvent' /\ WaitersReal'
      BY <1>2, <2>1, NoLostStep, WaitersStep DEF EventsInv, Inv
    <2>3. Fifo!Next \/ UNCHANGED Fifo!fifoVars
      BY <1>2, FifoStep DEF EventsInv, Inv
    <2> QED BY <2>1, <2>2, <2>3 DEF Inv
  <1>3. CASE EventsNext
    <2>1. Inv' /\ (Fifo!Next \/ UNCHANGED Fifo!fifoVars)
      BY <1>1, <1>2, <1>3, EventsMoves, BeatStoresKeeps DEF EventsInv
    <2>2. PortInv'
      BY <1>3, PortStep DEF EventsInv
    <2>3. TimerInv'
      <3>1. CASE UNCHANGED timerVars
        BY <3>1 DEF timerVars, EventsInv, TimerInv, TimerTypes, ThreadKept, TimerServed, NobodyKeeps, BeatAt
      <3>2. CASE TimerRun
        BY <3>2, TimerRunKeeps DEF EventsInv
      <3>3. ASSUME NEW t \in Threads, TimerCall(t) PROVE TimerInv'
        BY <3>3, TimerCallKeeps DEF EventsInv
      <3> QED BY <1>3, <3>1, <3>2, <3>3 DEF EventsNext
    <2> QED BY <2>1, <2>2, <2>3 DEF EventsInv
  <1>4. CASE UNCHANGED eventVars
    <2>1. UNCHANGED vars /\ UNCHANGED portVars /\ UNCHANGED timerVars
      BY <1>4 DEF eventVars
    <2>2. PortInv' /\ TimerInv'
      BY <2>1 DEF portVars, timerVars, EventsInv, PortInv, TimerInv, TimerTypes, ThreadKept, TimerServed,
                  NobodyKeeps, BeatAt
    <2> QED BY <1>1, <2>1, <2>2 DEF EventsInv
  <1> QED BY <1>3, <1>4

(* The invariant of the queues with the ports and the timer that feed them. *)
THEOREM EventsInvariant == EventsSpec => []EventsInv
  BY EventsInitial, EventsStep, PTL DEF EventsSpec

(* A timer that runs has its thread, whatever threads an earlier stop gave *)
(* up on are still about (sys_timer_start, sys_timer_stop,                 *)
(* timer_thread_proc).                                                     *)
THEOREM TimerIsServed == EventsSpec => []TimerServed
  <1>1. EventsInv => TimerServed
    BY DEF EventsInv, TimerInv, ThreadKept
  <1> QED BY <1>1, EventsInvariant, PTL

(* Ports that are rebound under a send, and a timer that pushes into a     *)
(* queue it no longer looks at, leave the rings whole, lose no event for a *)
(* sleeping receiver and keep the count of waiters real.                   *)
THEOREM FedQueuesLoseNothing == EventsSpec => [](RingInv /\ NoLostEvent /\ WaitersReal)
  <1>1. EventsInv => RingInv /\ NoLostEvent /\ WaitersReal
    BY DEF EventsInv, Inv, Typed
  <1> QED BY <1>1, EventsInvariant, PTL

(* Fed by calls, ports and the timer at once, every queue is still the     *)
(* bounded FIFO of EventFifo.                                              *)
THEOREM FedQueuesAreFifo == EventsSpec => FifoSpec
  <1>1. EventsInit => Fifo!Init
    BY DEF EventsInit, Init, Fifo!Init, Contents
  <1>2. EventsInv /\ [EventsNext]_eventVars => [Fifo!Next]_(Fifo!fifoVars)
    BY EventsStep
  <1> QED BY <1>1, <1>2, EventsInvariant, PTL DEF EventsSpec, FifoSpec, Fifo!Spec
==============================================================================
