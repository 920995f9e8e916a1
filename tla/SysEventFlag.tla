----------------------------- MODULE SysEventFlag -----------------------------
(***************************************************************************)
(* An event flag of runtime/syscalls/sys_event.c (the Windows build): a    *)
(* pattern of bits with a lock and a condition variable.  A section under  *)
(* the lock is a step.  destroy deletes the lock and wakes nobody, so the  *)
(* guest may destroy a flag only while no call uses it; what is left of    *)
(* create and destroy then is the pattern a new flag starts with.          *)
(***************************************************************************)
EXTENDS Callers

CONSTANTS Bits, Modes

(* The flags of the mode argument: AND or OR, and what to clear. *)
AllModes == [all : BOOLEAN, clear : {"none", "bits", "all"}]

ASSUME ModesAssumption == Modes \subseteq AllModes

VARIABLES
    pattern,        \* the flag's bits
    want            \* each thread that waits: the bitpat and mode of its call

flagVars == <<pattern, want, pc>>

NoWant == [bitpat |-> {}, mode |-> [all |-> FALSE, clear |-> "none"]]

FlagInit ==
    /\ pattern = {}
    /\ want = [t \in Threads |-> NoWant]
    /\ NobodyCalls

(* sys_event_flag_destroy, and sys_event_flag_create with init_pattern *)
sys_event_flag_create(init) ==
    /\ NobodyCalls
    /\ pattern' = init
    /\ UNCHANGED <<want, pc>>

flag_check(w) ==
    IF w.mode.all THEN w.bitpat \subseteq pattern ELSE w.bitpat \cap pattern # {}

(* The pattern a satisfied wait leaves. *)
FlagLeft(w) ==
    CASE w.mode.clear = "bits" -> pattern \ w.bitpat
      [] w.mode.clear = "all"  -> {}
      [] OTHER                 -> pattern

FlagReturns(t) == Goto(t, "idle") /\ want' = [want EXCEPT ![t] = NoWant]

----------------------------------------------------------------------------
FlagSleeping == {"flag_asleep", "flag_timed"}
FlagWaiting  == FlagSleeping \cup {"flag_poll", "flag_late", "flag_woken", "flag_woken_timed"}

(* CELL_EBUSY changes nothing. *)
sys_event_flag_trywait(t, w) ==
    /\ At(t, "idle") /\ flag_check(w)
    /\ pattern' = FlagLeft(w)
    /\ UNCHANGED <<want, pc>>

(* A wait that is not satisfied at once sleeps for ever or for its time    *)
(* (from 1 ms), or polls with the lock dropped between two looks.  A wait  *)
(* for no bits never gets as far as the flag.                              *)
sys_event_flag_wait(t, w) ==
    /\ At(t, "idle") /\ w.bitpat # {}
    /\ IF flag_check(w)
       THEN pattern' = FlagLeft(w) /\ UNCHANGED <<want, pc>>
       ELSE /\ \E how \in FlagSleeping \cup {"flag_poll"} : Goto(t, how)
            /\ want' = [want EXCEPT ![t] = w]
            /\ UNCHANGED pattern

FlagTakes(t) ==
    /\ pc[t] \in {"flag_poll", "flag_woken", "flag_woken_timed"} /\ flag_check(want[t])
    /\ pattern' = FlagLeft(want[t])
    /\ FlagReturns(t)

(* A timed wait sleeps its whole time again. *)
FlagSleepsAgain(t) ==
    /\ ~flag_check(want[t])
    /\ Moves(t, "flag_woken", "flag_asleep") \/ Moves(t, "flag_woken_timed", "flag_timed")
    /\ UNCHANGED <<pattern, want>>

(* The time of a sleep is over; the thread has the lock to take again. *)
FlagExpires(t) ==
    /\ Moves(t, "flag_timed", "flag_late")
    /\ UNCHANGED <<pattern, want>>

(* CELL_ETIMEDOUT: a poll has looked once more, a sleep does not look. *)
FlagTimesOut(t) ==
    /\ \/ At(t, "flag_late")
       \/ At(t, "flag_poll") /\ ~flag_check(want[t])
    /\ FlagReturns(t)
    /\ UNCHANGED pattern

FlagSpuriousWake(t) ==
    /\ Moves(t, "flag_asleep", "flag_woken") \/ Moves(t, "flag_timed", "flag_woken_timed")
    /\ UNCHANGED <<pattern, want>>

----------------------------------------------------------------------------
FlagWakes(sleepers) ==
    pc' = [t \in Threads |->
              IF t \notin sleepers THEN pc[t]
              ELSE IF At(t, "flag_asleep") THEN "flag_woken" ELSE "flag_woken_timed"]

(* Mutant: wakes one sleeper, as an unlock does. *)
SetWakesOne(t, bitpat) ==
    /\ At(t, "idle")
    /\ pattern' = pattern \cup bitpat
    /\ \/ \E u \in Callers(FlagSleeping) : FlagWakes({u})
       \/ Callers(FlagSleeping) = {} /\ UNCHANGED pc
    /\ UNCHANGED want

sys_event_flag_set(t, bitpat) ==
    /\ At(t, "idle")
    /\ pattern' = pattern \cup bitpat
    /\ FlagWakes(Callers(FlagSleeping))
    /\ UNCHANGED want

(* Keeps the bits of bitpat. *)
sys_event_flag_clear(t, bitpat) ==
    /\ At(t, "idle")
    /\ pattern' = pattern \cap bitpat
    /\ UNCHANGED <<want, pc>>

----------------------------------------------------------------------------
Wants == [bitpat : SUBSET Bits, mode : Modes]

FlagCall(t) ==
    \/ \E w \in Wants : sys_event_flag_wait(t, w) \/ sys_event_flag_trywait(t, w)
    \/ \E bitpat \in SUBSET Bits : sys_event_flag_set(t, bitpat) \/ sys_event_flag_clear(t, bitpat)

FlagRun(t) == FlagTakes(t) \/ FlagSleepsAgain(t) \/ FlagExpires(t) \/ FlagTimesOut(t)

FlagNext ==
    \/ \E init \in SUBSET Bits : sys_event_flag_create(init)
    \/ \E t \in Threads : FlagCall(t) \/ FlagRun(t) \/ FlagSpuriousWake(t)

FlagSpec == FlagInit /\ [][FlagNext]_flagVars

(* The lock is handed on, and a timed wait ends; nothing makes a thread    *)
(* call, and no spurious wake-up is promised.                              *)
FlagFairness == \A t \in Threads : WF_flagVars(FlagRun(t))

----------------------------------------------------------------------------
(* What the flag promises. *)

FlagTypeOK ==
    /\ pattern \in SUBSET Bits
    /\ want \in [Threads -> Wants \cup {NoWant}]
    /\ pc \in [Threads -> FlagWaiting \cup {"idle"}]

(* No lost wake-up: nobody sleeps on while the pattern has what he waits   *)
(* for, with several waiters of different bits and modes on the one        *)
(* condition variable and clears that take bits away in between.           *)
FlagNoLostWake == \A t \in Callers(FlagSleeping) : ~flag_check(want[t])

(* A wait whose condition holds and goes on holding returns.               *)
FlagWaitReturns ==
    \A t \in Threads :
        LET Overdue == pc[t] \in FlagWaiting /\ flag_check(want[t])
        IN  []<>(~Overdue)
=============================================================================
