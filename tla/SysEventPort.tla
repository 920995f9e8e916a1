---------------------------- MODULE SysEventPort ----------------------------
(***************************************************************************)
(* The event ports of runtime/syscalls/sys_event.c: an id to which a queue *)
(* id is bound.  create, destroy, connect and disconnect are steps under   *)
(* the table lock; send takes no lock until it pushes.                     *)
(***************************************************************************)
EXTENDS SysEventQueue

CONSTANT PortMax        \* SYS_EVENT_PORT_MAX

ASSUME PortAssumption == PortMax \in Nat

Ports == 1 .. PortMax

VARIABLES
    pactive, connected_queue,   \* sys_event_port_info; 0 is no queue
    via                         \* each thread: the queue its send read off a port

portVars == <<pactive, connected_queue, via>>

PortInit ==
    /\ pactive = [p \in Ports |-> FALSE]
    /\ connected_queue = [p \in Ports |-> 0]
    /\ via = [t \in Threads |-> 0]

sys_event_port_create(p) ==
    /\ ~pactive[p] /\ \A k \in 1 .. (p - 1) : pactive[k]        \* EAGAIN
    /\ pactive' = [pactive EXCEPT ![p] = TRUE]
    /\ connected_queue' = [connected_queue EXCEPT ![p] = 0]
    /\ UNCHANGED via

sys_event_port_destroy(p) ==
    /\ pactive[p]                                               \* ESRCH
    /\ pactive' = [pactive EXCEPT ![p] = FALSE]
    /\ UNCHANGED <<connected_queue, via>>

sys_event_port_connect_local(p, q) ==
    /\ pactive[p] /\ active[q]                                  \* ESRCH
    /\ connected_queue[p] = 0                                   \* EISCONN
    /\ connected_queue' = [connected_queue EXCEPT ![p] = q]
    /\ UNCHANGED <<pactive, via>>

sys_event_port_disconnect(p) ==
    /\ pactive[p]                                               \* ESRCH
    /\ connected_queue[p] # 0                                   \* ENOTCONN
    /\ connected_queue' = [connected_queue EXCEPT ![p] = 0]
    /\ UNCHANGED <<pactive, via>>

(* What is bound to the port now; nothing says that it still is, or that   *)
(* it is the queue that was connected, when the event is pushed.           *)
sys_event_port_send(t, p) ==
    /\ pactive[p] /\ connected_queue[p] # 0                     \* ESRCH, ENOTCONN
    /\ via' = [via EXCEPT ![t] = connected_queue[p]]
    /\ UNCHANGED <<pactive, connected_queue>>

SendDone(t) ==
    /\ via' = [via EXCEPT ![t] = 0]
    /\ UNCHANGED <<pactive, connected_queue>>

(* event_queue_push, if the queue is live and no SPU takes the event. *)
SendPushes(t, e) ==
    /\ via[t] # 0 /\ SendDone(t)
    /\ Begin(t, via[t], "push", "poll", e)

(* ESRCH, or spu_dispatch_frame_by_queue ran the SPU that serves a queue. *)
SendEnds(t) ==
    /\ via[t] # 0 /\ SendDone(t)
    /\ UNCHANGED vars

(* A port that is not there stands for the queue of the same id. *)
SendRouted(t, p, e) ==
    /\ ~pactive[p] /\ p \in Queues
    /\ Begin(t, p, "push", "poll", e)
    /\ UNCHANGED portVars

PortCall(t) ==
    \E p \in Ports :
        \/ /\ \/ sys_event_port_create(p) \/ sys_event_port_destroy(p)
              \/ sys_event_port_disconnect(p) \/ sys_event_port_send(t, p)
              \/ \E q \in Queues : sys_event_port_connect_local(p, q)
           /\ UNCHANGED vars
        \/ \E e \in Events : SendRouted(t, p, e)

SendRun(t) == SendEnds(t) \/ \E e \in Events : SendPushes(t, e)
=============================================================================
