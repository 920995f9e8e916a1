------------------------------ MODULE SysEvents ------------------------------
(***************************************************************************)
(* The event queues with what feeds them: threads that push by id, ports   *)
(* bound to a queue id, and a timer's host thread.  They meet in the       *)
(* slots' rings and condition variables.                                   *)
(***************************************************************************)
EXTENDS SysEventPort, SysTimer

eventVars == <<vars, portVars, timerVars>>

EventsInit == Init /\ PortInit /\ TimerInit

(* A thread between two calls. *)
Free(t) == Idle(t) /\ via[t] = 0 /\ ~Keeping(t)

EventsNext ==
    \/ \E t \in Threads :
          \/ Free(t) /\ Call(t) /\ UNCHANGED <<portVars, timerVars>>
          \/ Free(t) /\ PortCall(t) /\ UNCHANGED timerVars
          \/ Free(t) /\ TimerCall(t) /\ UNCHANGED portVars
          \/ (Run(t) \/ ReceiveTimesOut(t) \/ HostSliceOver(t) \/ SpuriousWake(t))
                /\ UNCHANGED <<portVars, timerVars>>
          \/ SendRun(t) /\ UNCHANGED timerVars
    \/ TimerRun /\ UNCHANGED portVars

EventsSpec == EventsInit /\ [][EventsNext]_eventVars
=============================================================================
