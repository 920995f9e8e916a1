---------------------------- MODULE SysPpuThread ----------------------------
(***************************************************************************)
(* The table of PPU threads of runtime/syscalls/sys_ppu_thread.c (Windows  *)
(* build).  A thread's id is its slot; the callers are the host threads    *)
(* that run guest code, one of them the main thread.  Every step under the *)
(* table lock is one action, except the end of a thread procedure: it sets *)
(* the finish event under the lock, and a joiner waits for that event and  *)
(* reads the exit status without it.  The guest neither joins nor detaches *)
(* a thread that is being joined: nothing in the slot tells that.          *)
(***************************************************************************)
EXTENDS Callers

CONSTANTS
    ThreadIds,      \* 1 .. PPU_THREAD_MAX
    Main,           \* the boot thread
    Statuses,       \* exit statuses
    NoBody          \* no host thread, no status

ASSUME ThreadIdsAssumption ==
    /\ ThreadIds \subseteq Nat \ {0} /\ 1 \in ThreadIds /\ Main \in Threads
    /\ NoBody \notin Threads \cup Statuses

VARIABLES
    tstate, body, finish, status,   \* each slot: state, host_thread, finish_event, exit_status
    info,           \* each host thread: its slot, 0 when there is no such thread
    reg,            \* each host thread: the status its guest code ended with
    aim, es,        \* each joiner: the slot, the status it read
    unwinds,        \* PS3_NO_THREAD_EXIT_UNWIND is not set
    loose           \* history: a slot was freed while its thread ran on

slotVars   == <<tstate, body, finish, status>>
joinVars   == <<aim, es>>
threadVars == <<slotVars, info, reg, joinVars, unwinds, loose, pc>>

(* ppu_thread_register_main *)
ThreadsInit ==
    /\ tstate  = [s \in ThreadIds |-> IF s = 1 THEN "running" ELSE "free"]
    /\ body    = [s \in ThreadIds |-> IF s = 1 THEN Main ELSE NoBody]
    /\ finish  = [s \in ThreadIds |-> FALSE]
    /\ status  = [s \in ThreadIds |-> NoBody]
    /\ info    = [t \in Threads |-> IF t = Main THEN 1 ELSE 0]
    /\ reg     = [t \in Threads |-> NoBody]
    /\ aim     = [t \in Threads |-> 0]
    /\ es      = [t \in Threads |-> NoBody]
    /\ unwinds \in BOOLEAN
    /\ loose   = FALSE
    /\ NobodyCalls

(* The end of a thread procedure is the only step that keeps the table     *)
(* lock.                                                                   *)
TableFree == Callers({"signal"}) = {}

(* A host thread in guest code. *)
InGuest(t) == At(t, "idle") /\ info[t] # 0

----------------------------------------------------------------------------
find_free_slot == CHOOSE s \in ThreadIds : /\ tstate[s] = "free"
                                       /\ \A r \in ThreadIds : tstate[r] = "free" => s <= r

(* A full table, no guest stack and no host thread leave the slot free. *)
sys_ppu_thread_create(t, u) ==
    /\ InGuest(t) /\ TableFree
    /\ info[u] = 0 /\ \A s \in ThreadIds : body[s] # u
    /\ \E s \in ThreadIds : tstate[s] = "free"
    /\ LET s == find_free_slot IN
         /\ tstate'  = [tstate EXCEPT ![s] = "running"]
         /\ body'    = [body EXCEPT ![s] = u]
         /\ finish'  = [finish EXCEPT ![s] = FALSE]
         /\ status'  = [status EXCEPT ![s] = NoBody]
         /\ info'    = [info EXCEPT ![u] = s]
    /\ reg' = [reg EXCEPT ![u] = NoBody]
    /\ UNCHANGED <<joinVars, unwinds, loose, pc>>

(* What is stamped on a slot whose thread ends, whatever the slot is then. *)
MarksEnd(s, v) ==
    /\ tstate' = [tstate EXCEPT ![s] = IF @ = "detached" THEN "free" ELSE "finished"]
    /\ body'   = [body EXCEPT ![s] = IF tstate[s] = "detached" THEN NoBody ELSE @]
    /\ status' = [status EXCEPT ![s] = v]

(* The entry returns, or sys_ppu_thread_exit unwinds out of it. *)
EntryReturns(t, v) ==
    /\ InGuest(t) /\ t # Main
    /\ reg' = [reg EXCEPT ![t] = v]
    /\ Goto(t, "done")
    /\ UNCHANGED <<slotVars, info, joinVars, unwinds, loose>>

(* Without the unwind, and always in the main thread, the caller runs on   *)
(* in guest code, also when it was detached and its slot is free now.      *)
sys_ppu_thread_exit(t, v) ==
    \/ unwinds /\ EntryReturns(t, v)
    \/ /\ InGuest(t) /\ TableFree /\ (t = Main \/ ~unwinds)
       /\ tstate[info[t]] # "free"
       /\ MarksEnd(info[t], v)
       /\ finish' = [finish EXCEPT ![info[t]] = TRUE]
       /\ loose' = (loose \/ tstate[info[t]] = "detached")
       /\ UNCHANGED <<info, reg, joinVars, unwinds, pc>>

(* Mutant: the event is set before the status is stored. *)
EpilogueSignalsFirst(t) ==
    /\ \/ /\ Moves(t, "done", "signal") /\ TableFree
          /\ finish' = [finish EXCEPT ![info[t]] = TRUE]
          /\ UNCHANGED <<tstate, body, status>>
       \/ /\ Moves(t, "signal", "gone")
          /\ MarksEnd(info[t], reg[t])
          /\ UNCHANGED finish
    /\ UNCHANGED <<info, reg, joinVars, unwinds, loose>>

(* The end of ppu_host_thread_proc: status and state, then the event. *)
Epilogue(t) ==
    /\ \/ /\ Moves(t, "done", "signal") /\ TableFree
          /\ MarksEnd(info[t], reg[t])
          /\ UNCHANGED finish
       \/ /\ Moves(t, "signal", "gone")
          /\ finish' = [finish EXCEPT ![info[t]] = TRUE]
          /\ UNCHANGED <<tstate, body, status>>
    /\ UNCHANGED <<info, reg, joinVars, unwinds, loose>>

(* The procedure has returned: its handle is signalled. *)
HostEnds(t) ==
    /\ Moves(t, "gone", "idle")
    /\ info' = [info EXCEPT ![t] = 0]
    /\ UNCHANGED <<slotVars, reg, joinVars, unwinds, loose>>

----------------------------------------------------------------------------
NobodyJoins(s) == \A u \in Threads : aim[u] # s

(* The main thread and a detached one are CELL_EINVAL. *)
sys_ppu_thread_join(t, s) ==
    /\ InGuest(t) /\ TableFree /\ NobodyJoins(s)
    /\ tstate[s] \in {"running", "finished"} /\ body[s] # Main
    /\ aim' = [aim EXCEPT ![t] = s]
    /\ Goto(t, "join")
    /\ UNCHANGED <<slotVars, info, reg, es, unwinds, loose>>

JoinWakes(t) ==
    /\ Moves(t, "join", "reap")
    /\ finish[aim[t]]
    /\ es' = [es EXCEPT ![t] = status[aim[t]]]
    /\ UNCHANGED <<slotVars, info, reg, aim, unwinds, loose>>

JoinFrees(t) ==
    /\ Moves(t, "reap", "idle") /\ TableFree
    /\ tstate' = [tstate EXCEPT ![aim[t]] = "free"]
    /\ body'   = [body EXCEPT ![aim[t]] = NoBody]
    /\ aim'    = [aim EXCEPT ![t] = 0]
    /\ es'     = [es EXCEPT ![t] = NoBody]
    /\ UNCHANGED <<finish, status, info, reg, unwinds, loose>>

(* Mutant: the slot is freed as soon as the event is set. *)
JoinReapsAtOnce(t) == JoinFrees(t)

(* The thread procedure has returned as well. *)
JoinReaps(t) ==
    At(t, "reap") /\ (\A u \in Threads : body[aim[t]] = u => info[u] = 0) /\ JoinFrees(t)

(* The host threads that have not made their last use of their slot. *)
Alive == {t \in Threads : info[t] # 0 /\ ~At(t, "signal") /\ ~At(t, "gone")}

sys_ppu_thread_detach(t, s) ==
    /\ InGuest(t) /\ TableFree /\ NobodyJoins(s)
    /\ tstate[s] # "free"
    /\ IF tstate[s] = "finished"
         THEN /\ tstate' = [tstate EXCEPT ![s] = "free"]
              /\ body'   = [body EXCEPT ![s] = NoBody]
              /\ loose'  = (loose \/ \E u \in Alive : info[u] = s)
         ELSE tstate' = [tstate EXCEPT ![s] = "detached"] /\ UNCHANGED <<body, loose>>
    /\ UNCHANGED <<finish, status, info, reg, joinVars, unwinds, pc>>

----------------------------------------------------------------------------
ThreadsCall(t) ==
    \/ \E u \in Threads : sys_ppu_thread_create(t, u)
    \/ \E v \in Statuses : EntryReturns(t, v) \/ sys_ppu_thread_exit(t, v)
    \/ \E s \in ThreadIds : sys_ppu_thread_join(t, s) \/ sys_ppu_thread_detach(t, s)

ThreadsRun(t) == Epilogue(t) \/ HostEnds(t) \/ JoinWakes(t) \/ JoinReaps(t)

ThreadsNext == \E t \in Threads : ThreadsCall(t) \/ ThreadsRun(t)

ThreadsSpec == ThreadsInit /\ [][ThreadsNext]_threadVars

----------------------------------------------------------------------------
(* What the table promises. *)

ThreadsTypeOK ==
    /\ tstate  \in [ThreadIds -> {"free", "running", "finished", "detached"}]
    /\ body    \in [ThreadIds -> Threads \cup {NoBody}]
    /\ finish  \in [ThreadIds -> BOOLEAN]
    /\ status  \in [ThreadIds -> Statuses \cup {NoBody}]
    /\ info    \in [Threads -> ThreadIds \cup {0}]
    /\ reg     \in [Threads -> Statuses \cup {NoBody}]
    /\ aim     \in [Threads -> ThreadIds \cup {0}]
    /\ es      \in [Threads -> Statuses \cup {NoBody}]
    /\ unwinds \in BOOLEAN /\ loose \in BOOLEAN
    /\ pc      \in [Threads -> {"idle", "done", "signal", "gone", "join", "reap"}]

(* "Every thread has a unique nonzero id", and no slot is lost to the      *)
(* table: a slot is its thread's until the thread's last use of it, and a  *)
(* slot that is not free has a thread, or an end that nobody has reaped.   *)
(* It ends, in the main thread or with exits that do not unwind, when the  *)
(* slot of a thread that is detached and has called exit is freed while    *)
(* the thread still runs.                                                  *)
ThreadSlotsKept ==
    ~loose =>
      /\ \A t \in Alive : tstate[info[t]] # "free" /\ body[info[t]] = t
      /\ \A s \in ThreadIds : tstate[s] # "free" =>
            \/ \E t \in Alive : info[t] = s
            \/ tstate[s] = "finished" /\ body[s] # NoBody

(* A joiner reads the status with which the thread it joined ended, though *)
(* it reads it without the table lock.                                     *)
JoinExact ==
    \A t \in Threads : At(t, "reap") /\ unwinds /\ ~loose =>
        reg[body[aim[t]]] # NoBody /\ es[t] = reg[body[aim[t]]]
=============================================================================
