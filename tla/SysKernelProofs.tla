--------------------------- MODULE SysKernelProofs ---------------------------
(***************************************************************************)
(* Proofs about the event flags, the reader-writer locks and the table of  *)
(* threads, for any threads, bits, modes and slots.                        *)
(***************************************************************************)
EXTENDS SysEventFlag, SysRwlock, SysPpuThread, WellFoundedInduction, TLAPS

----------------------------------------------------------------------------
(* Event flags. *)

(* A thread's want does not change while it sleeps, and the pattern only   *)
(* grows in a set, which wakes all: so it is enough to see that a pattern  *)
(* that shrinks satisfies nobody.                                          *)
LEMMA ShrinkingSatisfiesNobody ==
    ASSUME NEW w, ~flag_check(w), pattern' \subseteq pattern
    PROVE  ~flag_check(w)'
  BY DEF flag_check

LEMMA LeavesLess ==
    ASSUME NEW w, pattern \in SUBSET Bits
    PROVE  FlagLeft(w) \subseteq pattern
  BY DEF FlagLeft

LEMMA FlagTypeInitial == FlagInit => FlagTypeOK
  BY DEF FlagInit, FlagTypeOK, NobodyCalls

LEMMA FlagTypeStep == FlagTypeOK /\ [FlagNext]_flagVars => FlagTypeOK'
  <1> SUFFICES ASSUME FlagTypeOK, [FlagNext]_flagVars PROVE FlagTypeOK'
    OBVIOUS
  <1> USE DEF FlagTypeOK
  <1>1. CASE UNCHANGED flagVars
    BY <1>1 DEF flagVars
  <1>2. ASSUME NEW init \in SUBSET Bits, sys_event_flag_create(init) PROVE FlagTypeOK'
    BY <1>2 DEF sys_event_flag_create
  <1>3. ASSUME NEW t \in Threads, NEW w \in Wants, sys_event_flag_wait(t, w) PROVE FlagTypeOK'
    <2>1. pattern' \subseteq Bits
      BY <1>3, LeavesLess DEF sys_event_flag_wait
    <2>2. pc' \in [Threads -> FlagWaiting \cup {"idle"}]
      BY <1>3 DEF sys_event_flag_wait, Goto, FlagWaiting, FlagSleeping
    <2>3. want' \in [Threads -> Wants \cup {NoWant}]
      BY <1>3 DEF sys_event_flag_wait
    <2> QED BY <2>1, <2>2, <2>3
  <1>4. ASSUME NEW t \in Threads, NEW w \in Wants, sys_event_flag_trywait(t, w) PROVE FlagTypeOK'
    BY <1>4, LeavesLess DEF sys_event_flag_trywait
  <1>5. ASSUME NEW t \in Threads, NEW b \in SUBSET Bits, sys_event_flag_set(t, b) PROVE FlagTypeOK'
    BY <1>5 DEF sys_event_flag_set, FlagWakes, FlagWaiting, FlagSleeping
  <1>6. ASSUME NEW t \in Threads, NEW b \in SUBSET Bits, sys_event_flag_clear(t, b) PROVE FlagTypeOK'
    BY <1>6 DEF sys_event_flag_clear
  <1>7. ASSUME NEW t \in Threads, FlagTakes(t) PROVE FlagTypeOK'
    BY <1>7, LeavesLess DEF FlagTakes, FlagReturns, Goto
  <1>8. ASSUME NEW t \in Threads, FlagSleepsAgain(t) \/ FlagSpuriousWake(t) \/ FlagExpires(t)
        PROVE FlagTypeOK'
    BY <1>8 DEF FlagSleepsAgain, FlagSpuriousWake, FlagExpires, Moves, Goto, FlagWaiting, FlagSleeping
  <1>9. ASSUME NEW t \in Threads, FlagTimesOut(t) PROVE FlagTypeOK'
    BY <1>9 DEF FlagTimesOut, FlagReturns, Goto
  <1> QED BY <1>1, <1>2, <1>3, <1>4, <1>5, <1>6, <1>7, <1>8, <1>9 DEF FlagNext, FlagCall, FlagRun

(* The flag keeps its type: the pattern has bits of the flag only, and     *)
(* every call is at one of its places.                                     *)
THEOREM FlagTypeCorrect == FlagSpec => []FlagTypeOK
  BY FlagTypeInitial, FlagTypeStep, PTL DEF FlagSpec

----------------------------------------------------------------------------
LEMMA NoLostWakeStep ==
    FlagTypeOK /\ FlagNoLostWake /\ [FlagNext]_flagVars => FlagNoLostWake'
  <1> SUFFICES ASSUME FlagTypeOK, FlagNoLostWake, [FlagNext]_flagVars,
                      NEW s \in Threads, pc'[s] \in FlagSleeping
               PROVE  ~flag_check(want[s])'
    BY DEF FlagNoLostWake, Callers
  <1>same. ASSUME pc[s] \in FlagSleeping, want'[s] = want[s], pattern' \subseteq pattern
           PROVE  ~flag_check(want[s])'
    <2>1. ~flag_check(want[s])
      BY <1>same DEF FlagNoLostWake, Callers
    <2> QED BY <1>same, <2>1 DEF flag_check
  <1>idle. "idle" \notin FlagSleeping
    BY DEF FlagSleeping
  <1>1. CASE UNCHANGED flagVars
    BY <1>1, <1>same DEF flagVars
  <1>2. ASSUME NEW init \in SUBSET Bits, sys_event_flag_create(init) PROVE FALSE
    BY <1>2, <1>idle DEF sys_event_flag_create, NobodyCalls
  <1>3. ASSUME NEW t \in Threads, NEW w \in Wants, sys_event_flag_wait(t, w)
        PROVE ~flag_check(want[s])'
    <2>1. CASE flag_check(w)
      BY <1>3, <2>1, <1>same, LeavesLess DEF sys_event_flag_wait, FlagTypeOK
    <2>2. CASE ~flag_check(w) /\ s = t
      BY <1>3, <2>2 DEF sys_event_flag_wait, flag_check, FlagTypeOK
    <2>3. CASE ~flag_check(w) /\ s # t
      BY <1>3, <2>3, <1>same DEF sys_event_flag_wait, Goto, FlagTypeOK
    <2> QED BY <2>1, <2>2, <2>3
  <1>4. ASSUME NEW t \in Threads, NEW w \in Wants, sys_event_flag_trywait(t, w)
        PROVE ~flag_check(want[s])'
    BY <1>4, <1>same, LeavesLess DEF sys_event_flag_trywait, FlagTypeOK
  <1>5. ASSUME NEW t \in Threads, NEW b \in SUBSET Bits, sys_event_flag_set(t, b) PROVE FALSE
    BY <1>5 DEF sys_event_flag_set, FlagWakes, Callers, FlagSleeping, At
  <1>6. ASSUME NEW t \in Threads, NEW b \in SUBSET Bits, sys_event_flag_clear(t, b)
        PROVE ~flag_check(want[s])'
    BY <1>6, <1>same DEF sys_event_flag_clear
  <1>7. ASSUME NEW t \in Threads, FlagTakes(t) PROVE ~flag_check(want[s])'
    <2>1. s # t
      BY <1>7, <1>idle DEF FlagTakes, FlagReturns, Goto, FlagTypeOK
    <2> QED BY <1>7, <2>1, <1>same, LeavesLess DEF FlagTakes, FlagReturns, Goto, FlagTypeOK
  <1>8. ASSUME NEW t \in Threads, FlagSleepsAgain(t) PROVE ~flag_check(want[s])'
    <2>1. CASE s = t
      BY <1>8, <2>1 DEF FlagSleepsAgain, flag_check
    <2>2. CASE s # t
      BY <1>8, <2>2, <1>same DEF FlagSleepsAgain, Moves, Goto, FlagTypeOK
    <2> QED BY <2>1, <2>2
  <1>9. ASSUME NEW t \in Threads, FlagSpuriousWake(t) \/ FlagExpires(t) PROVE ~flag_check(want[s])'
    <2>1. s # t
      BY <1>9 DEF FlagSpuriousWake, FlagExpires, Moves, Goto, FlagTypeOK, FlagSleeping
    <2> QED BY <1>9, <2>1, <1>same DEF FlagSpuriousWake, FlagExpires, Moves, Goto, FlagTypeOK
  <1>10. ASSUME NEW t \in Threads, FlagTimesOut(t) PROVE ~flag_check(want[s])'
    <2>1. s # t
      BY <1>10, <1>idle DEF FlagTimesOut, FlagReturns, Goto, FlagTypeOK
    <2> QED BY <1>10, <2>1, <1>same DEF FlagTimesOut, FlagReturns, Goto, FlagTypeOK
  <1> QED BY <1>1, <1>2, <1>3, <1>4, <1>5, <1>6, <1>7, <1>8, <1>9, <1>10 DEF FlagNext, FlagCall, FlagRun

LEMMA NobodySleepsAtFirst == FlagInit => FlagNoLostWake
  BY DEF FlagInit, FlagNoLostWake, NobodyCalls, Callers, FlagSleeping

(* No lost wake-up of an event flag, for any number of waiters: with the   *)
(* type it is inductive, because WakeAllConditionVariable leaves nobody    *)
(* asleep where bits are added and every other step only takes bits away.  *)
THEOREM FlagsLoseNoWake == FlagSpec => []FlagNoLostWake
  BY FlagTypeCorrect, NobodySleepsAtFirst, NoLostWakeStep, PTL DEF FlagSpec

----------------------------------------------------------------------------
(* Reader-writer locks. *)

(* Where a call is only while its thread holds the SRWLock exclusively,    *)
(* where a holder can be at all, and where the words are not yet written   *)
(* or no longer.                                                           *)
HoldersOnly == {"wl_flag", "wl_owner", "wu_disown", "wu_flag", "wu_release"}
HoldersToo  == HoldersOnly \cup {"idle", "rw_shared", "wl_tid", "wt_tid", "wu_tid"}
Unflagged   == {"wl_flag", "wu_release"}
Unowned     == {"wl_flag", "wl_owner", "wu_flag", "wu_release"}

(* The words follow the SRWLock, step by step. *)
RwlockWords ==
    /\ \A t \in Threads : pc[t] \in HoldersOnly => excl = t
    /\ \A t \in Threads : pc[t] \in {"rw_counts", "rw_release"} => shared[t] > 0
    /\ \A t \in Threads : shared[t] > 0 => excl = Nobody
    /\ excl = Nobody => wflag = 0 /\ writer_tid = Nobody
    /\ \A t \in Threads : excl = t =>
          /\ pc[t] \in HoldersToo
          /\ wflag = IF pc[t] \in Unflagged THEN 0 ELSE 1
          /\ writer_tid = IF pc[t] \in Unowned THEN Nobody ELSE t

RwlockInv == RwlockTypeOK /\ RwlockWords

LEMMA RwlockInitial == RwlockInit => RwlockInv
  BY RwlockAssumption DEF RwlockInit, RwlockInv, RwlockTypeOK, RwlockWords, NobodyCalls, NoReads,
     RwlockPlaces, HoldersOnly

LEMMA RwlockStep == RwlockInv /\ [RwlockNext]_rwlockVars => RwlockInv'
  <1> SUFFICES ASSUME RwlockInv, [RwlockNext]_rwlockVars PROVE RwlockInv'
    OBVIOUS
  <1> USE RwlockAssumption DEF RwlockInv, RwlockTypeOK, RwlockWords, RwlockPlaces, At, Goto, Moves,
          HoldersOnly, HoldersToo, Unflagged, Unowned, rwlockWords
  <1>1. CASE UNCHANGED rwlockVars
    BY <1>1 DEF rwlockVars
  <1>2. CASE sys_rwlock_create
    BY <1>2 DEF sys_rwlock_create, NoReads, NobodyCalls
  <1>3. ASSUME NEW t \in Threads, RwlockCall(t) PROVE RwlockInv'
    <2>1. CASE sys_rwlock_rlock(t)
      BY <2>1 DEF sys_rwlock_rlock
    <2>2. CASE sys_rwlock_tryrlock(t)
      BY <2>2 DEF sys_rwlock_tryrlock, AcquireShared
    <2>3. CASE sys_rwlock_runlock(t)
      BY <2>3 DEF sys_rwlock_runlock
    <2>4. CASE sys_rwlock_wlock(t)
      BY <2>4 DEF sys_rwlock_wlock, LoadsWriter
    <2>5. CASE sys_rwlock_trywlock(t)
      BY <2>5 DEF sys_rwlock_trywlock, LoadsWriter
    <2>6. CASE sys_rwlock_wunlock(t)
      BY <2>6 DEF sys_rwlock_wunlock, LoadsWriter
    <2> QED BY <1>3, <2>1, <2>2, <2>3, <2>4, <2>5, <2>6 DEF RwlockCall
  <1>4. ASSUME NEW t \in Threads, RwlockRun(t) PROVE RwlockInv'
    <2>1. CASE RlockAcquires(t)
      BY <2>1 DEF RlockAcquires, AcquireShared
    <2>2. CASE RlockCounts(t)
      BY <2>2 DEF RlockCounts
    <2>3. CASE RunlockReleases(t)
      BY <2>3 DEF RunlockReleases, ReleaseShared
    <2>4. CASE WlockChecks(t)
      BY <2>4 DEF WlockChecks, LoadsTid
    <2>5. CASE WlockAcquires(t)
      BY <2>5 DEF WlockAcquires, AcquireExclusive, Unheld
    <2>6. CASE WlockFlags(t)
      BY <2>6 DEF WlockFlags
    <2>7. CASE WlockOwns(t)
      BY <2>7 DEF WlockOwns
    <2>8. CASE TrywlockChecks(t)
      BY <2>8 DEF TrywlockChecks, LoadsTid
    <2>9. CASE TrywlockAcquires(t)
      BY <2>9 DEF TrywlockAcquires, AcquireExclusive, Unheld
    <2>10. CASE WunlockChecks(t)
      BY <2>10 DEF WunlockChecks, LoadsTid
    <2>11. CASE WunlockDisowns(t)
      BY <2>11 DEF WunlockDisowns
    <2>12. CASE WunlockFlags(t)
      BY <2>12 DEF WunlockFlags
    <2>13. CASE WunlockReleases(t)
      BY <2>13 DEF WunlockReleases, ReleaseExclusive
    <2> QED BY <1>4, <2>1, <2>2, <2>3, <2>4, <2>5, <2>6, <2>7, <2>8, <2>9, <2>10, <2>11, <2>12, <2>13
            DEF RwlockRun
  <1> QED BY <1>1, <1>2, <1>3, <1>4 DEF RwlockNext

(* The words of the lock say who holds the SRWLock, exactly as far as each *)
(* writer has got with writing them.                                       *)
THEOREM RwlockWordsFollow == RwlockSpec => []RwlockInv
  BY RwlockInitial, RwlockStep, PTL DEF RwlockSpec

LEMMA OwnerFromWords == RwlockInv => RwlockOwner
  BY DEF RwlockInv, RwlockWords, RwlockOwner, HoldersOnly, HoldersToo, Unflagged, Unowned

(* The checks of wlock, trywlock and wunlock, made on words that others    *)
(* write meanwhile, are right for the caller: nobody releases a lock that  *)
(* is not his, and no owner waits for itself or is refused.                *)
THEOREM RwlockOwnerRight == RwlockSpec => []RwlockOwner
  BY RwlockWordsFollow, OwnerFromWords, PTL

----------------------------------------------------------------------------
(* The table of threads. *)

(* Where a host thread can be: it has a slot while it is in a call, an aim *)
(* while it joins, a status once its entry has returned, and while it has  *)
(* the table lock its slot is stamped.                                     *)
CallsInv ==
    \A t \in Threads :
        /\ pc[t] # "idle" => info[t] # 0
        /\ pc[t] \in {"join", "reap"} <=> aim[t] # 0
        /\ pc[t] \in {"done", "signal", "gone"} => reg[t] # NoBody /\ t # Main
        /\ pc[t] = "signal" => tstate[info[t]] \in {"free", "finished"}

(* The boot thread keeps slot 1, which nobody joins. *)
MainInv ==
    /\ info[Main] = 1 /\ body[1] = Main /\ tstate[1] # "free" /\ pc[Main] \notin {"signal", "gone"}
    /\ \A t \in Threads : aim[t] # 1

(* A thread has its slot until its last use of it, and a slot without such *)
(* a thread is free or finished.                                           *)
HeldInv ==
    /\ \A t \in Alive : tstate[info[t]] # "free" /\ body[info[t]] = t
    /\ \A s \in ThreadIds : tstate[s] # "free" =>
          /\ body[s] \in Threads
          /\ tstate[s] = "finished" \/ (body[s] \in Alive /\ info[body[s]] = s)

(* A slot with a joiner has only one, and is not detached. *)
AimInv ==
    /\ \A t \in Threads : aim[t] # 0 => tstate[aim[t]] \in {"running", "finished"}
    /\ \A t, u \in Threads : aim[t] # 0 /\ aim[t] = aim[u] => t = u

(* With the unwind, a finished slot has the last status of a thread that   *)
(* has left guest code, and the event is set on finished slots only.       *)
StatusInv ==
    unwinds =>
        /\ \A s \in ThreadIds \ {1} : tstate[s] = "finished" =>
              body[s] \notin Alive /\ status[s] = reg[body[s]] /\ reg[body[s]] # NoBody
        /\ \A s \in ThreadIds \ {1} : finish[s] => tstate[s] \in {"free", "finished"}
        /\ \A t \in Threads : pc[t] = "reap" =>
              tstate[aim[t]] = "finished" /\ es[t] = status[aim[t]]

TableInv == ThreadsTypeOK /\ CallsInv /\ MainInv /\ HeldInv /\ AimInv /\ StatusInv

(* All of it holds until a slot is freed while its thread runs on. *)
TableHolds == ~loose => TableInv

LEMMA TableInitial == ThreadsInit => TableInv
  <1> SUFFICES ASSUME ThreadsInit PROVE TableInv
    OBVIOUS
  <1> USE ThreadIdsAssumption DEF ThreadsInit, NobodyCalls
  <1>1. ThreadsTypeOK
    BY DEF ThreadsTypeOK
  <1>2. Alive = {Main}
    BY DEF Alive, At
  <1>3. CallsInv /\ MainInv /\ AimInv
    BY DEF CallsInv, MainInv, AimInv
  <1>4. HeldInv
    BY <1>2 DEF HeldInv
  <1>5. StatusInv
    BY DEF StatusInv
  <1> QED BY <1>1, <1>3, <1>4, <1>5 DEF TableInv

(* find_free_slot finds a free slot if there is one. *)
LEMMA FreeSlot ==
    ASSUME \E s \in ThreadIds : tstate[s] = "free"
    PROVE  find_free_slot \in ThreadIds /\ tstate[find_free_slot] = "free"
  <1> DEFINE Free == {s \in ThreadIds : tstate[s] = "free"}
             Less == OpToRel(<, Nat)
  <1>1. Free \subseteq Nat /\ Free # {}
    BY ThreadIdsAssumption
  <1>2. Less = {p \in Nat \X Nat : p[1] < p[2]}
    BY Zenon DEF OpToRel
  <1>3. IsWellFoundedOn(Less, Nat)
    BY NatLessThanWellFounded, Zenon
  <1> HIDE DEF Less
  <1>4. \E s \in Free : \A r \in Free : ~(<<r, s>> \in Less)
    <2> HIDE DEF Free
    <2> QED BY <1>1, <1>3, WFMin
  <1>5. \A r, s \in Nat : ~(<<r, s>> \in Less) => s <= r
    BY <1>2
  <1>6. \E s \in Free : \A r \in Free : s <= r
    <2> HIDE DEF Free
    <2> QED BY <1>1, <1>4, <1>5
  <1> QED BY <1>6 DEF find_free_slot

LEMMA TableKnows ==
    ASSUME TableInv
    PROVE  /\ ThreadsTypeOK /\ CallsInv /\ MainInv /\ HeldInv /\ AimInv /\ StatusInv
           /\ 1 \in ThreadIds /\ 0 \notin ThreadIds /\ Main \in Threads /\ NoBody \notin Threads
           /\ NoBody \notin Statuses
  BY ThreadIdsAssumption DEF TableInv

(* Who is alive, thread by thread. *)
LEMMA AliveIs ==
    /\ \A t : t \in Alive <=> t \in Threads /\ info[t] # 0 /\ pc[t] \notin {"signal", "gone"}
    /\ \A t : t \in Alive' <=> t \in Threads /\ info'[t] # 0 /\ pc'[t] \notin {"signal", "gone"}
  BY DEF Alive, At

LEMMA CreateKeeps ==
    ASSUME TableInv, NEW t \in Threads, NEW u \in Threads, sys_ppu_thread_create(t, u)
    PROVE  TableInv'
  <1>1. PICK s \in ThreadIds :
            /\ tstate[s] = "free" /\ tstate' = [tstate EXCEPT ![s] = "running"]
            /\ body' = [body EXCEPT ![s] = u] /\ finish' = [finish EXCEPT ![s] = FALSE]
            /\ status' = [status EXCEPT ![s] = NoBody]
            /\ info' = [info EXCEPT ![u] = s] /\ reg' = [reg EXCEPT ![u] = NoBody]
            /\ UNCHANGED <<aim, es, unwinds, loose, pc>>
    BY FreeSlot DEF sys_ppu_thread_create, joinVars
  <1>2. /\ info[u] = 0 /\ (\A r \in ThreadIds : body[r] # u) /\ \A v \in Threads : pc[v] # "signal"
    BY DEF sys_ppu_thread_create, TableFree, Callers
  <1>3. pc[u] = "idle" /\ s # 1 /\ s # 0 /\ u # Main
    BY <1>1, <1>2, TableKnows DEF CallsInv, MainInv
  <1>4. ThreadsTypeOK'
    BY <1>1, TableKnows DEF ThreadsTypeOK
  <1>5. CallsInv'
    BY <1>1, <1>2, <1>3, TableKnows DEF CallsInv, ThreadsTypeOK
  <1>6. MainInv'
    BY <1>1, <1>3, TableKnows DEF MainInv, ThreadsTypeOK
  <1>7. \A v : v \in Alive' <=> v \in Alive \cup {u}
    BY <1>1, <1>2, <1>3, AliveIs, TableKnows DEF ThreadsTypeOK
  <1>8. \A v \in Alive : v # u /\ info[v] # s
    BY <1>1, <1>2, AliveIs, TableKnows DEF HeldInv
  <1>9. HeldInv'
    BY <1>1, <1>2, <1>7, <1>8, AliveIs, TableKnows DEF HeldInv, ThreadsTypeOK
  <1>10. \A v \in Threads : aim[v] # s
    BY <1>1, <1>3, TableKnows DEF AimInv
  <1>11. AimInv'
    BY <1>1, <1>3, <1>10, TableKnows DEF AimInv, ThreadsTypeOK
  <1>12. StatusInv'
    BY <1>1, <1>2, <1>3, <1>7, <1>10, TableKnows DEF StatusInv, CallsInv, ThreadsTypeOK, HeldInv
  <1> QED BY <1>4, <1>5, <1>6, <1>9, <1>11, <1>12 DEF TableInv

LEMMA ReturnsKeeps ==
    ASSUME TableInv, NEW t \in Threads, NEW v \in Statuses, EntryReturns(t, v)
    PROVE  TableInv'
  <1>1. /\ info[t] # 0 /\ pc[t] = "idle" /\ t # Main
        /\ reg' = [reg EXCEPT ![t] = v] /\ pc' = [pc EXCEPT ![t] = "done"]
        /\ UNCHANGED <<tstate, body, finish, status, info, aim, es, unwinds, loose>>
    BY DEF EntryReturns, InGuest, At, Goto, slotVars, joinVars
  <1>2. ThreadsTypeOK'
    BY <1>1, TableKnows DEF ThreadsTypeOK
  <1>3. \A w : w \in Alive' <=> w \in Alive
    BY <1>1, AliveIs, TableKnows DEF ThreadsTypeOK
  <1>4. t \in Alive
    BY <1>1, AliveIs
  <1>5. CallsInv'
    BY <1>1, TableKnows DEF CallsInv, ThreadsTypeOK
  <1>6. MainInv' /\ AimInv' /\ HeldInv'
    BY <1>1, <1>3, TableKnows DEF MainInv, AimInv, HeldInv
  <1>7. StatusInv'
    BY <1>1, <1>3, <1>4, TableKnows DEF StatusInv, ThreadsTypeOK
  <1> QED BY <1>2, <1>5, <1>6, <1>7 DEF TableInv

(* A thread that stamps its slot is alive until then, so the slot is its   *)
(* own; it runs on with a slot that is free if that was detached.          *)
LEMMA ExitKeeps ==
    ASSUME TableInv, ~loose', NEW t \in Threads, NEW v \in Statuses, sys_ppu_thread_exit(t, v)
    PROVE  TableInv'
  <1>1. CASE EntryReturns(t, v)
    BY <1>1, ReturnsKeeps
  <1>2. CASE ~EntryReturns(t, v)
    <2> DEFINE s == info[t]
    <2>1. /\ s # 0 /\ pc[t] = "idle" /\ (t = Main \/ ~unwinds)
          /\ MarksEnd(s, v) /\ finish' = [finish EXCEPT ![s] = TRUE]
          /\ UNCHANGED <<info, reg, aim, es, unwinds, pc>>
          /\ loose' \in BOOLEAN /\ tstate[s] # "detached"
          /\ \A w \in Threads : pc[w] # "signal"
      BY <1>2 DEF sys_ppu_thread_exit, InGuest, At, joinVars, TableFree, Callers
    <2>2. s \in ThreadIds /\ t \in Alive /\ tstate[s] # "free" /\ body[s] = t
      BY <2>1, AliveIs, TableKnows DEF ThreadsTypeOK, HeldInv
    <2>3. (s = 1 => t = Main) /\ (t = Main => s = 1)
      BY <2>1, <2>2, TableKnows DEF MainInv
    <2>4. /\ tstate' = [tstate EXCEPT ![s] = "finished"] /\ body' = body
          /\ status' = [status EXCEPT ![s] = v]
      BY <2>1, <2>2, <2>3, TableKnows DEF MarksEnd, ThreadsTypeOK
    <2>5. ThreadsTypeOK'
      BY <2>1, <2>2, <2>4, TableKnows DEF ThreadsTypeOK
    <2>6. \A w : w \in Alive' <=> w \in Alive
      BY <2>1, AliveIs
    <2> HIDE DEF s
    <2>7. CallsInv' /\ MainInv'
      BY <2>1, <2>2, <2>4, TableKnows DEF CallsInv, MainInv, ThreadsTypeOK
    <2>8. HeldInv'
      BY <2>1, <2>2, <2>4, <2>6, TableKnows DEF HeldInv, ThreadsTypeOK
    <2>9. AimInv'
      BY <2>1, <2>2, <2>3, <2>4, TableKnows DEF AimInv, ThreadsTypeOK
    <2>10. StatusInv'
      BY <2>1, <2>2, <2>3, <2>4, <2>6, TableKnows DEF StatusInv, MainInv, CallsInv, ThreadsTypeOK
    <2> QED BY <2>5, <2>7, <2>8, <2>9, <2>10 DEF TableInv
  <1> QED BY <1>1, <1>2

LEMMA EpilogueKeeps ==
    ASSUME TableInv, NEW t \in Threads, Epilogue(t)
    PROVE  TableInv'
  <1> DEFINE s == info[t]
  <1>1. s \in ThreadIds /\ t # Main /\ reg[t] \in Statuses
    BY TableKnows DEF Epilogue, Moves, At, CallsInv, ThreadsTypeOK
  <1>2. UNCHANGED <<info, reg, aim, es, unwinds, loose>>
    BY DEF Epilogue, joinVars
  <1>3. CASE pc[t] = "done"
    <2>1. /\ pc' = [pc EXCEPT ![t] = "signal"] /\ MarksEnd(s, reg[t]) /\ UNCHANGED finish
          /\ \A w \in Threads : pc[w] # "signal"
      BY <1>3 DEF Epilogue, Moves, At, Goto, TableFree, Callers
    <2>2. t \in Alive /\ tstate[s] # "free" /\ body[s] = t /\ s # 1
      BY <1>1, <1>3, AliveIs, TableKnows DEF HeldInv, CallsInv, MainInv
    <2>3. /\ tstate' = [tstate EXCEPT ![s] = IF @ = "detached" THEN "free" ELSE "finished"]
          /\ body' = [body EXCEPT ![s] = IF tstate[s] = "detached" THEN NoBody ELSE t]
          /\ status' = [status EXCEPT ![s] = reg[t]]
      BY <2>1, <2>2 DEF MarksEnd
    <2>4. ThreadsTypeOK'
      BY <1>1, <1>2, <2>1, <2>3, TableKnows DEF ThreadsTypeOK
    <2>5. \A w : w \in Alive' <=> w \in Alive \ {t}
      BY <1>2, <2>1, <2>2, AliveIs, TableKnows DEF ThreadsTypeOK
    <2> HIDE DEF s
    <2>6. \A w \in Alive \ {t} : info[w] # s
      BY <2>2, TableKnows DEF HeldInv
    <2>7. CallsInv'
      <3>1. info[t] = s
        BY DEF s
      <3> QED BY <1>1, <1>2, <1>3, <2>1, <2>3, <3>1, TableKnows DEF CallsInv, ThreadsTypeOK
    <2>8. MainInv'
      BY <1>1, <1>2, <2>1, <2>2, <2>3, TableKnows DEF MainInv, ThreadsTypeOK
    <2>9. HeldInv'
      <3>1. \A r \in ThreadIds \ {s} : tstate'[r] = tstate[r] /\ body'[r] = body[r]
        BY <1>1, <2>3, TableKnows DEF ThreadsTypeOK
      <3>2. /\ tstate'[s] \in {"free", "finished"}
            /\ tstate'[s] = "finished" => body'[s] = t
        BY <1>1, <2>3, TableKnows DEF ThreadsTypeOK
      <3>3. \A w \in Alive' : info'[w] \in ThreadIds \ {s} /\ w \in Alive
        BY <1>2, <2>5, <2>6, AliveIs, TableKnows DEF ThreadsTypeOK
      <3>4. \A w \in Alive' : tstate'[info'[w]] # "free" /\ body'[info'[w]] = w
        BY <1>2, <3>1, <3>3, TableKnows DEF HeldInv
      <3>5. \A r \in ThreadIds \ {s} : body[r] = t => tstate[r] \in {"free", "finished"}
        BY <2>2, TableKnows DEF HeldInv, s
      <3>6. ASSUME NEW r \in ThreadIds, tstate'[r] # "free"
            PROVE  /\ body'[r] \in Threads
                   /\ tstate'[r] = "finished" \/ (body'[r] \in Alive' /\ info'[body'[r]] = r)
        BY <1>2, <2>5, <3>1, <3>2, <3>5, <3>6, TableKnows DEF HeldInv
      <3> QED BY <3>4, <3>6 DEF HeldInv
    <2>10. tstate[s] = "detached" => \A w \in Threads : aim[w] # s
      BY <1>1, TableKnows DEF AimInv
    <2>11. AimInv'
      BY <1>1, <1>2, <2>2, <2>3, <2>10, TableKnows DEF AimInv, ThreadsTypeOK
    <2>12. StatusInv'
      <3>1. \A r \in ThreadIds \ {s} : tstate'[r] = tstate[r] /\ body'[r] = body[r] /\ status'[r] = status[r]
        BY <1>1, <2>3, TableKnows DEF ThreadsTypeOK
      <3>2. /\ tstate'[s] \in {"free", "finished"} /\ status'[s] = reg[t]
            /\ tstate'[s] = "finished" => body'[s] = t
        BY <1>1, <2>3, TableKnows DEF ThreadsTypeOK
      <3>3. unwinds => \A w \in Threads : pc'[w] = "reap" => pc[w] = "reap" /\ aim[w] # s /\ aim[w] \in ThreadIds
        BY <1>1, <1>3, <2>1, <2>2, TableKnows DEF StatusInv, CallsInv, ThreadsTypeOK
      <3> QED BY <1>1, <1>2, <2>1, <2>5, <3>1, <3>2, <3>3, TableKnows DEF StatusInv
    <2> QED BY <2>4, <2>7, <2>8, <2>9, <2>11, <2>12 DEF TableInv
  <1>4. CASE pc[t] = "signal"
    <2>1. /\ pc' = [pc EXCEPT ![t] = "gone"] /\ finish' = [finish EXCEPT ![s] = TRUE]
          /\ UNCHANGED <<tstate, body, status>>
      BY <1>4 DEF Epilogue, Moves, At, Goto
    <2>2. ThreadsTypeOK'
      BY <1>1, <1>2, <2>1, TableKnows DEF ThreadsTypeOK
    <2>3. \A w : w \in Alive' <=> w \in Alive
      BY <1>2, <1>4, <2>1, AliveIs, TableKnows DEF ThreadsTypeOK
    <2>4. CallsInv'
      BY <1>1, <1>2, <1>4, <2>1, TableKnows DEF CallsInv, ThreadsTypeOK
    <2>5. MainInv' /\ HeldInv' /\ AimInv'
      BY <1>1, <1>2, <2>1, <2>3, TableKnows DEF MainInv, HeldInv, AimInv, ThreadsTypeOK
    <2>6. tstate[s] \in {"free", "finished"}
      BY <1>4, TableKnows DEF CallsInv
    <2>7. StatusInv'
      BY <1>1, <1>2, <1>4, <2>1, <2>3, <2>6, TableKnows DEF StatusInv, ThreadsTypeOK
    <2> QED BY <2>2, <2>4, <2>5, <2>7 DEF TableInv
  <1> QED BY <1>3, <1>4 DEF Epilogue, Moves, At

LEMMA EndsKeeps ==
    ASSUME TableInv, NEW t \in Threads, HostEnds(t)
    PROVE  TableInv'
  <1>1. /\ pc[t] = "gone" /\ pc' = [pc EXCEPT ![t] = "idle"] /\ info' = [info EXCEPT ![t] = 0]
        /\ UNCHANGED <<tstate, body, finish, status, reg, aim, es, unwinds, loose>>
    BY DEF HostEnds, Moves, At, Goto, slotVars, joinVars
  <1>2. ThreadsTypeOK'
    BY <1>1, TableKnows DEF ThreadsTypeOK
  <1>3. \A w : w \in Alive' <=> w \in Alive
    BY <1>1, AliveIs, TableKnows DEF ThreadsTypeOK
  <1>4. CallsInv' /\ MainInv' /\ AimInv'
    BY <1>1, TableKnows DEF CallsInv, MainInv, AimInv, ThreadsTypeOK
  <1>5. \A w \in Alive : info'[w] = info[w]
    BY <1>1, AliveIs, TableKnows DEF ThreadsTypeOK
  <1>6. HeldInv'
    BY <1>1, <1>3, <1>5, TableKnows DEF HeldInv
  <1>7. StatusInv'
    BY <1>1, <1>3, TableKnows DEF StatusInv, ThreadsTypeOK
  <1> QED BY <1>2, <1>4, <1>6, <1>7 DEF TableInv

LEMMA JoinKeeps ==
    ASSUME TableInv, NEW t \in Threads, NEW s \in ThreadIds, sys_ppu_thread_join(t, s)
    PROVE  TableInv'
  <1>1. /\ pc[t] = "idle" /\ info[t] # 0 /\ tstate[s] \in {"running", "finished"}
        /\ body[s] # Main /\ (\A w \in Threads : aim[w] # s) /\ aim' = [aim EXCEPT ![t] = s]
        /\ pc' = [pc EXCEPT ![t] = "join"]
        /\ UNCHANGED <<tstate, body, finish, status, info, reg, es, unwinds, loose>>
    BY DEF sys_ppu_thread_join, NobodyJoins, InGuest, At, Goto, slotVars
  <1>2. ThreadsTypeOK'
    BY <1>1, TableKnows DEF ThreadsTypeOK
  <1>3. \A w : w \in Alive' <=> w \in Alive
    BY <1>1, AliveIs, TableKnows DEF ThreadsTypeOK
  <1>4. s # 0 /\ s # 1
    BY <1>1, TableKnows DEF MainInv
  <1>5. CallsInv'
    BY <1>1, <1>4, TableKnows DEF CallsInv, ThreadsTypeOK
  <1>6. MainInv' /\ HeldInv'
    BY <1>1, <1>3, <1>4, TableKnows DEF MainInv, HeldInv, ThreadsTypeOK
  <1>7. AimInv'
    <2>1. aim'[t] = s /\ \A w \in Threads \ {t} : aim'[w] = aim[w]
      BY <1>1, TableKnows DEF ThreadsTypeOK
    <2> QED BY <1>1, <2>1, TableKnows DEF AimInv
  <1>8. StatusInv'
    BY <1>1, <1>3, TableKnows DEF StatusInv, ThreadsTypeOK
  <1> QED BY <1>2, <1>5, <1>6, <1>7, <1>8 DEF TableInv

LEMMA WakesKeeps ==
    ASSUME TableInv, NEW t \in Threads, JoinWakes(t)
    PROVE  TableInv'
  <1>1. /\ pc[t] = "join" /\ pc' = [pc EXCEPT ![t] = "reap"] /\ finish[aim[t]]
        /\ es' = [es EXCEPT ![t] = status[aim[t]]]
        /\ UNCHANGED <<tstate, body, finish, status, info, reg, aim, unwinds, loose>>
    BY DEF JoinWakes, Moves, At, Goto, slotVars
  <1>2. aim[t] \in ThreadIds \ {1} /\ tstate[aim[t]] # "free"
    BY <1>1, TableKnows DEF CallsInv, MainInv, AimInv, ThreadsTypeOK
  <1>3. ThreadsTypeOK'
    BY <1>1, <1>2, TableKnows DEF ThreadsTypeOK
  <1>4. \A w : w \in Alive' <=> w \in Alive
    BY <1>1, AliveIs, TableKnows DEF ThreadsTypeOK
  <1>5. CallsInv'
    BY <1>1, TableKnows DEF CallsInv, ThreadsTypeOK
  <1>6. MainInv' /\ HeldInv' /\ AimInv'
    BY <1>1, <1>4, TableKnows DEF MainInv, HeldInv, AimInv
  <1>7. StatusInv'
    BY <1>1, <1>2, <1>4, TableKnows DEF StatusInv, ThreadsTypeOK
  <1> QED BY <1>3, <1>5, <1>6, <1>7 DEF TableInv

(* Whose slot a joiner frees has returned from its procedure, so nobody    *)
(* alive has that slot.                                                    *)
LEMMA ReapsKeeps ==
    ASSUME TableInv, NEW t \in Threads, JoinReaps(t)
    PROVE  TableInv'
  <1> DEFINE s == aim[t]
  <1>1. /\ pc[t] = "reap" /\ pc' = [pc EXCEPT ![t] = "idle"] 
        /\ \A u \in Threads : body[s] = u => info[u] = 0
        /\ tstate' = [tstate EXCEPT ![s] = "free"] /\ body' = [body EXCEPT ![s] = NoBody]
        /\ aim' = [aim EXCEPT ![t] = 0] /\ es' = [es EXCEPT ![t] = NoBody]
        /\ UNCHANGED <<finish, status, info, reg, unwinds, loose>>
        /\ \A w \in Threads : pc[w] # "signal"
    BY DEF JoinReaps, JoinFrees, Moves, At, Goto, TableFree, Callers
  <1>2. s \in ThreadIds /\ s # 1 /\ s # 0 /\ tstate[s] # "free"
    BY <1>1, TableKnows DEF CallsInv, MainInv, AimInv, ThreadsTypeOK
  <1>3. ThreadsTypeOK'
    BY <1>1, <1>2, TableKnows DEF ThreadsTypeOK
  <1>4. \A w : w \in Alive' <=> w \in Alive
    BY <1>1, AliveIs, TableKnows DEF ThreadsTypeOK
  <1>5. \A w \in Alive : info[w] # s /\ info[w] \in ThreadIds
    BY <1>1, AliveIs, TableKnows DEF HeldInv, ThreadsTypeOK
  <1>6. \A w \in Threads \ {t} : aim[w] # s /\ aim'[w] = aim[w]
    BY <1>1, <1>2, TableKnows DEF AimInv, ThreadsTypeOK
  <1>7. aim'[t] = 0
    BY <1>1, TableKnows DEF ThreadsTypeOK
  <1>8. tstate'[s] = "free" /\ \A r \in ThreadIds \ {s} : tstate'[r] = tstate[r] /\ body'[r] = body[r]
    BY <1>1, <1>2, TableKnows DEF ThreadsTypeOK
  <1> HIDE DEF s
  <1>9. CallsInv'
    BY <1>1, <1>6, <1>7, TableKnows DEF CallsInv, ThreadsTypeOK
  <1>10. MainInv'
    BY <1>1, <1>2, <1>6, <1>7, <1>8, TableKnows DEF MainInv
  <1>11. HeldInv'
    BY <1>1, <1>4, <1>5, <1>8, TableKnows DEF HeldInv
  <1>12. AimInv'
    <2>1. \A w \in Threads : aim'[w] # 0 => tstate'[aim'[w]] \in {"running", "finished"}
      BY <1>6, <1>7, <1>8, TableKnows DEF AimInv, ThreadsTypeOK
    <2>2. \A w, u \in Threads : aim'[w] # 0 /\ aim'[w] = aim'[u] => w = u
      BY <1>6, <1>7, TableKnows DEF AimInv
    <2> QED BY <2>1, <2>2 DEF AimInv
  <1>13. StatusInv'
    <2>1. \A w \in Threads : pc'[w] = "reap" =>
             pc[w] = "reap" /\ w # t /\ es'[w] = es[w] /\ aim'[w] = aim[w] /\ aim[w] \in ThreadIds \ {s}
      BY <1>1, <1>6, TableKnows DEF CallsInv, ThreadsTypeOK
    <2> QED BY <1>1, <1>4, <1>8, <2>1, TableKnows DEF StatusInv
  <1> QED BY <1>3, <1>9, <1>10, <1>11, <1>12, <1>13 DEF TableInv

(* A thread that has not returned is alive, unless detach lets it loose. *)
LEMMA DetachKeeps ==
    ASSUME TableInv, ~loose', NEW t \in Threads, NEW s \in ThreadIds, sys_ppu_thread_detach(t, s)
    PROVE  TableInv'
  <1>1. /\ tstate[s] # "free" /\ (\A w \in Threads : aim[w] # s)
        /\ UNCHANGED <<finish, status, info, reg, aim, es, unwinds, pc>>
        /\ \A w \in Threads : pc[w] # "signal"
    BY DEF sys_ppu_thread_detach, NobodyJoins, joinVars, TableFree, Callers
  <1>2. tstate[s] = "finished" => \A w \in Alive : info[w] # s
    BY DEF sys_ppu_thread_detach
  <1>3. /\ tstate' \in [ThreadIds -> {"free", "running", "finished", "detached"}]
        /\ body' \in [ThreadIds -> Threads \cup {NoBody}]
        /\ \A r \in ThreadIds \ {s} : tstate'[r] = tstate[r] /\ body'[r] = body[r]
        /\ IF tstate[s] = "finished" THEN tstate'[s] = "free"
                                     ELSE tstate'[s] = "detached" /\ body'[s] = body[s]
    BY TableKnows DEF sys_ppu_thread_detach, ThreadsTypeOK
  <1>4. ThreadsTypeOK'
    <2>1. loose' \in BOOLEAN
      BY TableKnows DEF sys_ppu_thread_detach, ThreadsTypeOK
    <2> QED BY <1>1, <1>3, <2>1, TableKnows DEF ThreadsTypeOK
  <1>5. \A w : w \in Alive' <=> w \in Alive
    BY <1>1, AliveIs
  <1>6. s = 1 => tstate[s] # "finished"
    BY <1>2, AliveIs, TableKnows DEF MainInv
  <1>7. CallsInv' /\ MainInv'
    BY <1>1, <1>3, <1>6, TableKnows DEF CallsInv, MainInv
  <1>8. \A w \in Alive : info[w] \in ThreadIds
    BY AliveIs, TableKnows DEF ThreadsTypeOK
  <1>9. HeldInv'
    BY <1>1, <1>2, <1>3, <1>5, <1>8, TableKnows DEF HeldInv
  <1>10. aim \in [Threads -> ThreadIds \cup {0}]
    BY TableKnows DEF ThreadsTypeOK
  <1>11. AimInv'
    BY <1>1, <1>3, <1>10, TableKnows DEF AimInv
  <1>12. StatusInv'
    <2>1. unwinds /\ s # 1 => tstate'[s] # "finished" /\ (finish[s] => tstate'[s] = "free")
      BY <1>1, <1>3, TableKnows DEF StatusInv
    <2> QED BY <1>1, <1>3, <1>5, <1>10, <2>1, TableKnows DEF StatusInv, CallsInv
  <1> QED BY <1>4, <1>7, <1>9, <1>11, <1>12 DEF TableInv

(* A loose thread stays loose. *)
LEMMA LooseStays == [ThreadsNext]_threadVars /\ ~loose' => ~loose
  <1> SUFFICES ASSUME [ThreadsNext]_threadVars, ~loose' PROVE ~loose
    OBVIOUS
  <1>1. ASSUME NEW t \in Threads, NEW v \in Statuses, sys_ppu_thread_exit(t, v) PROVE ~loose
    BY <1>1 DEF sys_ppu_thread_exit, EntryReturns
  <1>2. ASSUME NEW t \in Threads, NEW s \in ThreadIds, sys_ppu_thread_detach(t, s) PROVE ~loose
    BY <1>2 DEF sys_ppu_thread_detach
  <1> QED BY <1>1, <1>2 DEF ThreadsNext, ThreadsCall, ThreadsRun, threadVars, EntryReturns, Epilogue,
             HostEnds, JoinWakes, JoinReaps, JoinFrees, sys_ppu_thread_create, sys_ppu_thread_join

LEMMA TableStep == TableHolds /\ [ThreadsNext]_threadVars => TableHolds'
  <1> SUFFICES ASSUME TableHolds, [ThreadsNext]_threadVars, ~loose' PROVE TableInv'
    BY DEF TableHolds
  <1>0. TableInv
    BY LooseStays DEF TableHolds
  <1>1. CASE UNCHANGED threadVars
    BY <1>0, <1>1 DEF threadVars, slotVars, joinVars, TableInv, ThreadsTypeOK, CallsInv, MainInv,
                      HeldInv, AimInv, StatusInv, Alive, At
  <1>2. CASE ThreadsNext
    BY <1>0, <1>2, CreateKeeps, ReturnsKeeps, ExitKeeps, EpilogueKeeps, EndsKeeps, JoinKeeps,
       WakesKeeps, ReapsKeeps, DetachKeeps DEF ThreadsNext, ThreadsCall, ThreadsRun
  <1> QED BY <1>1, <1>2

(* The invariant of the table of threads: it holds until a detached thread *)
(* that has called exit without an unwind loses its slot and runs on.      *)
THEOREM TableInvariant == ThreadsSpec => []TableHolds
  <1>1. ThreadsInit => TableHolds
    BY TableInitial DEF TableHolds
  <1> QED BY <1>1, TableStep, PTL DEF ThreadsSpec

(* A thread has its slot until its last use of it, and no slot is lost to  *)
(* the table, however creates, exits, joins and detaches of any threads,   *)
(* the main thread too, follow each other, until one of them frees the     *)
(* slot of a thread that runs on.                                          *)
THEOREM TableKeepsSlots == ThreadsSpec => []ThreadSlotsKept
  <1>1. TableHolds => ThreadSlotsKept
    BY TableKnows DEF TableHolds, HeldInv, ThreadSlotsKept
  <1> QED BY <1>1, TableInvariant, PTL

(* When exits unwind, a join gives the status with which the thread it     *)
(* joined ended, though it is read without the table lock.                 *)
THEOREM JoinsAreExact == ThreadsSpec => []JoinExact
  <1>1. TableHolds => JoinExact
    <2> SUFFICES ASSUME TableInv, NEW t \in Threads, At(t, "reap"), unwinds
                 PROVE  reg[body[aim[t]]] # NoBody /\ es[t] = reg[body[aim[t]]]
      BY DEF JoinExact, TableHolds
    <2>1. aim[t] \in ThreadIds \ {1}
      BY TableKnows DEF CallsInv, MainInv, ThreadsTypeOK, At
    <2> QED BY <2>1, TableKnows DEF StatusInv, At
  <1> QED BY <1>1, TableInvariant, PTL
==============================================================================
