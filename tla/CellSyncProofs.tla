---------------------------- MODULE CellSyncProofs ----------------------------
(***************************************************************************)
(* Proofs about primitives in guest memory: the reader-writer memory, the  *)
(* ticket mutex and the barrier of cellSync and the lightweight mutex, for *)
(* any threads, any number of rounds and any number of tickets that is     *)
(* enough for the threads.                                                 *)
(***************************************************************************)
EXTENDS CellSyncRwm, CellSyncMutex, CellSyncBarrier, SysLwmutex, FiniteSetTheorems, TLAPS

(* How a thread's step changes who is at some places, and how many. *)
LEMMA CallersCount ==
    ASSUME NEW places
    PROVE  /\ IsFiniteSet(Callers(places)) /\ Cardinality(Callers(places)) \in Nat
           /\ Cardinality(Callers(places)) <= Cardinality(Threads)
           /\ Cardinality(Callers(places)) = 0 <=> Callers(places) = {}
  <1>1. Callers(places) \in SUBSET Threads
    BY DEF Callers
  <1>2. IsFiniteSet(Callers(places)) /\ Cardinality(Callers(places)) <= Cardinality(Threads)
    BY <1>1, CallersAssumption, FS_Subset
  <1>3. Cardinality(Callers(places)) \in Nat
    BY <1>2, FS_CardinalityType
  <1>4. Cardinality(Callers(places)) = 0 <=> Callers(places) = {}
    BY <1>2, FS_EmptySet
  <1> QED BY <1>2, <1>3, <1>4

LEMMA GotoCounts ==
    ASSUME NEW S, pc \in [Threads -> S], NEW t \in Threads, NEW where, Goto(t, where), NEW places
    PROVE  /\ Callers(places)' = IF where \in places THEN Callers(places) \cup {t}
                                                     ELSE Callers(places) \ {t}
           /\ Cardinality(Callers(places)') =
                 Cardinality(Callers(places)) + (IF where \in places THEN 1 ELSE 0)
                                              - (IF pc[t] \in places THEN 1 ELSE 0)
  <1>1. Callers(places)' = IF where \in places THEN Callers(places) \cup {t}
                                               ELSE Callers(places) \ {t}
    BY DEF Callers, Goto
  <1>2. t \in Callers(places) <=> pc[t] \in places
    BY DEF Callers
  <1>3. IsFiniteSet(Callers(places)) /\ Cardinality(Callers(places)) \in Nat
    BY CallersCount
  <1>4. /\ Cardinality(Callers(places) \cup {t}) =
              IF t \in Callers(places) THEN Cardinality(Callers(places)) ELSE Cardinality(Callers(places)) + 1
        /\ Cardinality(Callers(places) \ {t}) =
              IF t \in Callers(places) THEN Cardinality(Callers(places)) - 1 ELSE Cardinality(Callers(places))
    BY <1>3, FS_AddElement, FS_RemoveElement
  <1> QED BY <1>1, <1>2, <1>3, <1>4

----------------------------------------------------------------------------
(* The reader-writer memory. *)

RwmInv == RwmTypeOK /\ RwmCounted /\ RwmNoTear

LEMMA RwmInitial == RwmInit => RwmInv
  <1> SUFFICES ASSUME RwmInit PROVE RwmInv
    OBVIOUS
  <1>1. \A t \in Threads : pc[t] = "idle"
    BY DEF RwmInit, NobodyCalls
  <1>2. Inside = {} /\ Writing = {} /\ Callers({"wcopy"}) = {}
    BY <1>1 DEF Inside, Writing, Callers
  <1>3. RwmTypeOK
    BY DEF RwmInit, RwmTypeOK, RwmPlaces, NobodyCalls
  <1> QED BY <1>2, <1>3, FS_EmptySet DEF RwmInv, RwmInit, RwmCounted, RwmNoTear

(* One step of a thread, as it changes the two words and the counts. *)
LEMMA RwmGoto ==
    ASSUME RwmInv, NEW t \in Threads, NEW where, Goto(t, where)
    PROVE  /\ Cardinality(Inside') = readers
                 + (IF where \in {"rcheck", "rback", "rcopy"} THEN 1 ELSE 0)
                 - (IF pc[t] \in {"rcheck", "rback", "rcopy"} THEN 1 ELSE 0)
           /\ Cardinality(Writing') = writer
                 + (IF where \in {"wdrain", "wback", "wcopy"} THEN 1 ELSE 0)
                 - (IF pc[t] \in {"wdrain", "wback", "wcopy"} THEN 1 ELSE 0)
           /\ pc[t] \in {"rcheck", "rback", "rcopy"} => readers > 0
           /\ readers = 0 => \A u \in Threads : pc[u] \notin {"rcheck", "rback", "rcopy"}
           /\ writer = 0 => \A u \in Threads : pc[u] \notin {"wdrain", "wback", "wcopy"}
           /\ \A u, v \in Writing : u = v
  <1>1. /\ pc \in [Threads -> RwmPlaces] /\ readers \in Nat /\ writer \in {0, 1}
        /\ readers = Cardinality(Inside) /\ writer = Cardinality(Writing)
    BY DEF RwmInv, RwmTypeOK, RwmCounted
  <1>2. /\ IsFiniteSet(Inside) /\ IsFiniteSet(Writing)
        /\ readers = 0 <=> Inside = {}
        /\ writer = 0 <=> Writing = {}
    BY <1>1, CallersCount DEF Inside, Writing
  <1>3. \A u, v \in Writing : u = v
    <2> SUFFICES ASSUME NEW u \in Writing, NEW v \in Writing, u # v PROVE FALSE
      OBVIOUS
    <2>1. Cardinality(Writing \ {u}) = 0 /\ IsFiniteSet(Writing \ {u})
      BY <1>1, <1>2, FS_RemoveElement, FS_EmptySet
    <2> QED BY <2>1, FS_EmptySet
  <1>4. /\ Cardinality(Inside') = Cardinality(Inside)
              + (IF where \in {"rcheck", "rback", "rcopy"} THEN 1 ELSE 0)
              - (IF pc[t] \in {"rcheck", "rback", "rcopy"} THEN 1 ELSE 0)
        /\ Cardinality(Writing') = Cardinality(Writing)
              + (IF where \in {"wdrain", "wback", "wcopy"} THEN 1 ELSE 0)
              - (IF pc[t] \in {"wdrain", "wback", "wcopy"} THEN 1 ELSE 0)
    <2> DEFINE R == {"rcheck", "rback", "rcopy"}
               W == {"wdrain", "wback", "wcopy"}
    <2>1. /\ Cardinality(Callers(R)') = Cardinality(Callers(R)) + (IF where \in R THEN 1 ELSE 0)
                                                               - (IF pc[t] \in R THEN 1 ELSE 0)
          /\ Cardinality(Callers(W)') = Cardinality(Callers(W)) + (IF where \in W THEN 1 ELSE 0)
                                                               - (IF pc[t] \in W THEN 1 ELSE 0)
      <3> HIDE DEF R, W
      <3> QED BY <1>1, GotoCounts
    <2> QED BY <2>1 DEF Inside, Writing
  <1>5. /\ readers = 0 => \A u \in Threads : pc[u] \notin {"rcheck", "rback", "rcopy"}
        /\ writer = 0 => \A u \in Threads : pc[u] \notin {"wdrain", "wback", "wcopy"}
    BY <1>2 DEF Inside, Writing, Callers
  <1> QED BY <1>1, <1>3, <1>4, <1>5

LEMMA RwmStep == RwmInv /\ [RwmNext]_rwmVars => RwmInv'
  <1> SUFFICES ASSUME RwmInv, [RwmNext]_rwmVars PROVE RwmInv'
    OBVIOUS
  <1> USE DEF RwmInv, RwmTypeOK, RwmPlaces, RwmCounted, RwmNoTear, At, Moves
  <1>1. CASE UNCHANGED rwmVars
    BY <1>1 DEF rwmVars, Inside, Writing, Callers
  <1>2. CASE cellSyncRwmInitialize
    <2>1. Inside' = {} /\ Writing' = {} /\ Callers({"wcopy"})' = {}
      BY <1>2 DEF cellSyncRwmInitialize, NobodyCalls, Inside, Writing, Callers
    <2> QED BY <1>2, <2>1, FS_EmptySet DEF cellSyncRwmInitialize
  <1>3. ASSUME NEW t \in Threads, NEW where \in RwmPlaces, Goto(t, where),
               try' \in [Threads -> BOOLEAN], writer' \in {0, 1},
               readers' = readers + (IF where \in {"rcheck", "rback", "rcopy"} THEN 1 ELSE 0)
                                  - (IF pc[t] \in {"rcheck", "rback", "rcopy"} THEN 1 ELSE 0),
               writer' = writer + (IF where \in {"wdrain", "wback", "wcopy"} THEN 1 ELSE 0)
                                - (IF pc[t] \in {"wdrain", "wback", "wcopy"} THEN 1 ELSE 0),
               where = "rcopy" => writer = 0,
               where = "wcopy" => readers = 0 /\ pc[t] = "wdrain"
        PROVE  RwmInv'
    <2>1. pc' = [pc EXCEPT ![t] = where]
      BY <1>3 DEF Goto
    <2>2. readers' = Cardinality(Inside') /\ writer' = Cardinality(Writing') /\ readers' \in Nat
      BY <1>3, RwmGoto
    <2>3. RwmNoTear'
      <3> SUFFICES ASSUME NEW u \in Threads, NEW v \in Threads, pc'[u] = "wcopy",
                          pc'[v] \in {"rcopy", "wcopy"}
                   PROVE  u = v
        BY DEF Callers
      <3>1. CASE u # t /\ v # t
        BY <2>1, <3>1 DEF Callers
      <3>2. CASE u = t /\ v # t
        BY <1>3, <2>1, <3>2, RwmGoto DEF Writing, Callers
      <3>3. CASE u # t /\ v = t
        BY <1>3, <2>1, <3>3, RwmGoto DEF Writing, Callers
      <3> QED BY <3>1, <3>2, <3>3
    <2> QED BY <1>3, <2>1, <2>2, <2>3
  <1>4. ASSUME NEW t \in Threads, RwmCall(t) PROVE RwmInv'
    <2>1. CASE cellSyncRwmRead(t)
      BY <2>1, <1>3 DEF cellSyncRwmRead
    <2>2. CASE cellSyncRwmTryRead(t)
      BY <2>2, <1>3 DEF cellSyncRwmTryRead
    <2>3. CASE cellSyncRwmWrite(t)
      BY <2>3, <1>3 DEF cellSyncRwmWrite
    <2>4. CASE cellSyncRwmTryWrite(t)
      BY <2>4, <1>3 DEF cellSyncRwmTryWrite
    <2> QED BY <1>4, <2>1, <2>2, <2>3, <2>4 DEF RwmCall
  <1>5. ASSUME NEW t \in Threads, RwmRun(t) PROVE RwmInv'
    <2>1. CASE ReadWaits(t)
      BY <2>1, <1>3 DEF ReadWaits
    <2>2. CASE ReadEnters(t)
      BY <2>2, <1>3 DEF ReadEnters
    <2>3. CASE ReadChecks(t)
      BY <2>3, <1>3 DEF ReadChecks
    <2>4. CASE ReadBacksOff(t)
      <3>1. \/ Goto(t, "idle") /\ try' = [try EXCEPT ![t] = FALSE]
            \/ Goto(t, "rwait") /\ try' = try
        BY <2>4 DEF ReadBacksOff, RwmReturns
      <3>2. pc[t] = "rback" /\ readers' = readers - 1 /\ writer' = writer
        BY <2>4 DEF ReadBacksOff
      <3>3. CASE Goto(t, "idle") /\ try' = [try EXCEPT ![t] = FALSE]
        BY <3>2, <3>3, <1>3
      <3>4. CASE Goto(t, "rwait") /\ try' = try
        BY <3>2, <3>4, <1>3
      <3> QED BY <3>1, <3>3, <3>4
    <2>5. CASE ReadLeaves(t)
      BY <2>5, <1>3 DEF ReadLeaves, RwmReturns
    <2>6. CASE WriteSwaps(t)
      BY <2>6, <1>3 DEF WriteSwaps
    <2>7. CASE WriteDrains(t)
      BY <2>7, <1>3 DEF WriteDrains
    <2>8. CASE WriteLeaves(t)
      <3>1. t \in Writing
        BY <2>8 DEF WriteLeaves, Writing, Callers
      <3>2. writer = 1
        BY <3>1, CallersCount DEF Writing
      <3> QED BY <2>8, <3>2, <1>3 DEF WriteLeaves, RwmReturns
    <2> QED BY <1>5, <2>1, <2>2, <2>3, <2>4, <2>5, <2>6, <2>7, <2>8 DEF RwmRun
  <1> QED BY <1>1, <1>2, <1>4, <1>5 DEF RwmNext

(* The words of a CellSyncRwm follow its readers and its writer, whatever  *)
(* the number of callers: the invariant behind the next two theorems.      *)
THEOREM RwmInvariant == RwmSpec => []RwmInv
  BY RwmInitial, RwmStep, PTL DEF RwmSpec

(* No copy of a CellSyncRwm is torn, whatever the number of readers and    *)
(* writers: a reader is counted before it looks at writer a second time,   *)
(* and a writer has announced itself before it looks at readers.           *)
THEOREM RwmNeverTears == RwmSpec => []RwmNoTear
  BY RwmInvariant, PTL DEF RwmInv

(* The words count the readers inside and the writer, also when one backs  *)
(* off; so readers never falls below zero.                                 *)
THEOREM RwmCountsRight == RwmSpec => []RwmCounted
  BY RwmInvariant, PTL DEF RwmInv

----------------------------------------------------------------------------
(* The ticket mutex. *)

(* What % does to sums and differences of tickets. *)
LEMMA TicketsWrap ==
    ASSUME NEW c \in Nat \ {0}, NEW x \in Int
    PROVE  /\ x % c \in 0 .. (c - 1)
           /\ 0 <= x /\ x < c => x % c = x
           /\ c <= x /\ x < 2 * c => x % c = x - c
           /\ -c <= x /\ x < 0 => x % c = x + c
  <1>1. x % c \in 0 .. (c - 1)
    BY SMT
  <1>2. 0 <= x /\ x < c => x % c = x
    BY SMT
  <1>3. c <= x /\ x < 2 * c => x % c = x - c
    BY SMT
  <1>4. -c <= x /\ x < 0 => x % c = x + c
    BY SMT
  <1> QED BY <1>1, <1>2, <1>3, <1>4

Wrapped(x) == IF x < 0 THEN x + TicketMod ELSE IF x < TicketMod THEN x ELSE x - TicketMod

LEMMA WrapsOnce ==
    ASSUME NEW x \in Int, -TicketMod <= x, x < 2 * TicketMod
    PROVE  x % TicketMod = Wrapped(x) /\ Wrapped(x) \in Tickets
  <1>1. TicketMod \in Nat \ {0}
    BY TicketsAssumption
  <1>2. /\ 0 <= x /\ x < TicketMod => x % TicketMod = x
        /\ TicketMod <= x /\ x < 2 * TicketMod => x % TicketMod = x - TicketMod
        /\ -TicketMod <= x /\ x < 0 => x % TicketMod = x + TicketMod
    BY <1>1, TicketsWrap
  <1>3. Wrapped(x) \in Tickets
    BY <1>1 DEF Wrapped, Tickets
  <1>4. x % TicketMod = Wrapped(x)
    BY <1>1, <1>2 DEF Wrapped
  <1> QED BY <1>3, <1>4

(* TryLock goes on only with a word that is free. *)
TryLoaded == \A t \in Threads : At(t, "try") => raw[t][1] = raw[t][2]

MutexInv == MutexTypeOK /\ MutexLine /\ TryLoaded

LEMMA MutexInitial == MutexInit => MutexInv
  <1> SUFFICES ASSUME MutexInit PROVE MutexInv
    OBVIOUS
  <1>1. Line = {} /\ Holders = {}
    BY DEF MutexInit, NobodyCalls, Line, Holders, Callers
  <1>2. 0 \in Tickets /\ 0 % TicketMod = 0
    BY TicketsAssumption, TicketsWrap DEF Tickets
  <1>3. MutexTypeOK /\ TryLoaded
    BY <1>2 DEF MutexInit, MutexTypeOK, MutexPlaces, TryLoaded, NobodyCalls, At
  <1>4. MutexLine
    BY <1>1, <1>2, FS_EmptySet DEF MutexInit, MutexLine
  <1> QED BY <1>3, <1>4 DEF MutexInv

(* The invariant without %. *)
LEMMA LineUnwrapped ==
    ASSUME MutexInv
    PROVE  /\ Cardinality(Line) \in Nat /\ Cardinality(Line) <= TicketMod
           /\ TicketMod \in Nat \ {0}
           /\ freed \in Tickets /\ order \in Tickets /\ ticket \in [Threads -> Tickets]
           /\ order = Wrapped(freed + Cardinality(Line))
           /\ \A t \in Threads : Ahead(t) = Wrapped(ticket[t] - freed) /\ Ahead(t) \in Tickets
  <1>1. /\ Cardinality(Line) \in Nat /\ Cardinality(Line) <= Cardinality(Threads)
        /\ Cardinality(Threads) \in Nat
    BY CallersCount, CallersAssumption, FS_CardinalityType DEF Line
  <1>2. Cardinality(Line) <= TicketMod /\ TicketMod \in Nat \ {0}
    BY <1>1, TicketsAssumption
  <1>3. freed \in Tickets /\ order \in Tickets /\ ticket \in [Threads -> Tickets]
    BY DEF MutexInv, MutexTypeOK
  <1>4. order = Wrapped(freed + Cardinality(Line))
    <2>1. freed + Cardinality(Line) \in Int /\ -TicketMod <= freed + Cardinality(Line)
          /\ freed + Cardinality(Line) < 2 * TicketMod
      BY <1>1, <1>2, <1>3 DEF Tickets
    <2> QED BY <2>1, WrapsOnce DEF MutexInv, MutexLine
  <1>5. ASSUME NEW t \in Threads
        PROVE  Ahead(t) = Wrapped(ticket[t] - freed) /\ Ahead(t) \in Tickets
    <2>1. ticket[t] - freed \in Int /\ -TicketMod <= ticket[t] - freed
          /\ ticket[t] - freed < 2 * TicketMod
      BY <1>2, <1>3 DEF Tickets
    <2> QED BY <2>1, WrapsOnce DEF Ahead
  <1> QED BY <1>1, <1>2, <1>3, <1>4, <1>5

(* Steps that neither join nor leave the line. *)
LEMMA LineStays ==
    ASSUME MutexInv, NEW t \in Threads, NEW where \in MutexPlaces, Goto(t, where),
           UNCHANGED <<freed, order, ticket>>,
           pc[t] \in {"wait", "held", "unlock", "release"}
              <=> where \in {"wait", "held", "unlock", "release"},
           where \in {"held", "unlock", "release"}
              => pc[t] \in {"held", "unlock", "release"} \/ ticket[t] = freed,
           NEW word \in Tickets \X Tickets,
           raw' = [raw EXCEPT ![t] = word] \/ (raw' = raw /\ where # "try"),
           where = "try" => word[1] = word[2]
    PROVE  MutexInv'
  <1>1. pc \in [Threads -> MutexPlaces] /\ raw \in [Threads -> Tickets \X Tickets]
    BY DEF MutexInv, MutexTypeOK
  <1>2. pc' = [pc EXCEPT ![t] = where]
    BY DEF Goto
  <1>3. MutexTypeOK'
    BY <1>1, <1>2 DEF MutexInv, MutexTypeOK
  <1>4. TryLoaded'
    BY <1>1, <1>2 DEF MutexInv, TryLoaded, At
  <1>5. Line' = Line
    BY <1>1, <1>2 DEF Line, Callers
  <1>6. \A u \in Holders' : u \in Holders \/ (u = t /\ ticket[t] = freed)
    BY <1>1, <1>2 DEF Holders, Callers
  <1>7. ticket[t] = freed => Ahead(t) = 0
    BY LineUnwrapped DEF Wrapped, Tickets
  <1>8. \A u \in Threads : Ahead(u)' = Ahead(u)
    BY DEF Ahead
  <1>9. Line \subseteq Threads /\ Holders' \subseteq Threads
    BY DEF Line, Holders, Callers
  <1>10. MutexLine'
    BY <1>5, <1>6, <1>7, <1>8, <1>9 DEF MutexInv, MutexLine
  <1> QED BY <1>3, <1>4, <1>10 DEF MutexInv

(* One more ticket in the line. *)
LEMMA LineGrows ==
    ASSUME MutexInv, NEW t \in Threads, t \notin Line, NEW next \in {"wait", "held"},
           TakesTicket(t, next), next = "held" => freed = order
    PROVE  MutexInv'
  <1> DEFINE n == Cardinality(Line)
  <1>1. /\ pc \in [Threads -> MutexPlaces] /\ raw \in [Threads -> Tickets \X Tickets]
        /\ ticket \in [Threads -> Tickets] /\ freed \in Tickets /\ order \in Tickets
    BY DEF MutexInv, MutexTypeOK
  <1>2. /\ pc' = [pc EXCEPT ![t] = next] /\ raw' = [raw EXCEPT ![t] = <<0, 0>>]
        /\ ticket' = [ticket EXCEPT ![t] = order] /\ freed' = freed
        /\ order' = (order + 1) % TicketMod
    BY DEF TakesTicket, Goto, Drop, Plus1
  <1>3. TicketMod \in Nat \ {0} /\ Cardinality(Threads) <= TicketMod
    BY TicketsAssumption
  <1>4. Line' = Line \cup {t}
    BY <1>1, <1>2 DEF Line, Callers
  <1>5. Line \subseteq Threads /\ Line' \subseteq Threads
    BY DEF Line, Callers
  <1>6. IsFiniteSet(Line) /\ IsFiniteSet(Line') /\ n \in Nat /\ Cardinality(Threads) \in Nat
    BY <1>5, CallersAssumption, FS_Subset, FS_CardinalityType
  <1>7. Cardinality(Line') = n + 1
    BY <1>4, <1>6, FS_AddElement
  <1>8. n + 1 <= TicketMod
    BY <1>3, <1>5, <1>6, <1>7, CallersAssumption, FS_Subset
  <1> HIDE DEF n
  <1>9. order = Wrapped(freed + n)
    BY LineUnwrapped DEF n
  <1>10. order' = Wrapped(order + 1) /\ order' \in Tickets
    <2>1. order + 1 \in Int /\ -TicketMod <= order + 1 /\ order + 1 < 2 * TicketMod
      BY <1>1, <1>3 DEF Tickets
    <2> QED BY <1>2, <2>1, WrapsOnce
  <1>11. order' = (freed + (n + 1)) % TicketMod
    <2>1. freed + (n + 1) \in Int /\ -TicketMod <= freed + (n + 1)
          /\ freed + (n + 1) < 2 * TicketMod
      BY <1>1, <1>3, <1>6, <1>8 DEF Tickets
    <2>2. (freed + (n + 1)) % TicketMod = Wrapped(freed + (n + 1))
      BY <2>1, WrapsOnce
    <2> QED BY <1>1, <1>3, <1>6, <1>8, <1>9, <1>10, <2>2 DEF Wrapped, Tickets
  <1>12. Ahead(t)' = n
    <2>1. order - freed \in Int /\ -TicketMod <= order - freed
          /\ order - freed < 2 * TicketMod
      BY <1>1, <1>3 DEF Tickets
    <2>2. (order - freed) % TicketMod = Wrapped(order - freed)
      BY <2>1, WrapsOnce
    <2>3. Ahead(t)' = (order - freed) % TicketMod
      BY <1>1, <1>2 DEF Ahead
    <2> QED BY <1>1, <1>3, <1>6, <1>8, <1>9, <2>2, <2>3 DEF Wrapped, Tickets
  <1>13. \A u \in Threads \ {t} : Ahead(u)' = Ahead(u) /\ Ahead(u) \in Int
    BY <1>1, <1>2, LineUnwrapped DEF Ahead, Tickets
  <1>14. next = "held" => n = 0
    BY <1>1, <1>3, <1>6, <1>8, <1>9 DEF Wrapped, Tickets
  <1>15. \A u \in Holders' : u \in Holders \/ (u = t /\ next = "held")
    BY <1>1, <1>2 DEF Holders, Callers
  <1>16. Holders \subseteq Line
    BY DEF Holders, Line, Callers
  <1>17. /\ \A u \in Line : Ahead(u) < n
         /\ \A u, v \in Line : Ahead(u) = Ahead(v) => u = v
         /\ \A u \in Holders : Ahead(u) = 0
    BY DEF MutexInv, MutexLine, n
  <1>18. \A u \in Line' : Ahead(u)' < n + 1
    BY <1>4, <1>5, <1>6, <1>12, <1>13, <1>17
  <1>19. \A u, v \in Line' : Ahead(u)' = Ahead(v)' => u = v
    <2> SUFFICES ASSUME NEW u \in Line', NEW v \in Line', Ahead(u)' = Ahead(v)' PROVE u = v
      OBVIOUS
    <2>1. CASE u \in Line /\ v \in Line
      BY <2>1, <1>5, <1>13, <1>17
    <2>2. CASE u \in Line /\ v = t
      <3>1. v = t /\ u \in Threads \ {t} /\ u \in Line
        BY <2>2, <1>5
      <3>2. Ahead(u)' = Ahead(t)'
        BY <3>1
      <3> QED BY <3>1, <3>2, <1>6, <1>12, <1>13, <1>17
    <2>3. CASE u = t /\ v \in Line
      <3>1. u = t /\ v \in Threads \ {t} /\ v \in Line
        BY <2>3, <1>5
      <3>2. Ahead(v)' = Ahead(t)'
        BY <3>1
      <3> QED BY <3>1, <3>2, <1>6, <1>12, <1>13, <1>17
    <2> QED BY <1>4, <2>1, <2>2, <2>3
  <1>20. \A u \in Holders' : Ahead(u)' = 0
    BY <1>5, <1>12, <1>13, <1>14, <1>15, <1>16, <1>17
  <1>21. MutexLine'
    BY <1>2, <1>7, <1>11, <1>18, <1>19, <1>20 DEF MutexLine
  <1>22. MutexTypeOK'
    <2>1. <<0, 0>> \in Tickets \X Tickets
      BY <1>3 DEF Tickets
    <2> QED BY <1>1, <1>2, <1>10, <2>1 DEF MutexTypeOK, MutexPlaces
  <1>23. TryLoaded'
    BY <1>1, <1>2 DEF MutexInv, TryLoaded, At
  <1> QED BY <1>21, <1>22, <1>23 DEF MutexInv

(* The holder's ticket is released. *)
LEMMA LineMoves ==
    ASSUME MutexInv, NEW t \in Holders, freed' = Plus1(freed), order' = order, Leaves(t)
    PROVE  MutexInv'
  <1> DEFINE n == Cardinality(Line)
  <1>0. t \in Threads /\ t \in Line
    BY DEF Holders, Line, Callers
  <1>1. /\ pc \in [Threads -> MutexPlaces] /\ raw \in [Threads -> Tickets \X Tickets]
        /\ ticket \in [Threads -> Tickets] /\ freed \in Tickets /\ order \in Tickets
    BY DEF MutexInv, MutexTypeOK
  <1>2. /\ pc' = [pc EXCEPT ![t] = "idle"] /\ raw' = [raw EXCEPT ![t] = <<0, 0>>]
        /\ ticket' = [ticket EXCEPT ![t] = 0]
    BY DEF Leaves, Goto, Drop
  <1>3. TicketMod \in Nat \ {0}
    BY TicketsAssumption
  <1>4. Line' = Line \ {t}
    BY <1>1, <1>2 DEF Line, Callers
  <1>5. Line \subseteq Threads
    BY DEF Line, Callers
  <1>6. IsFiniteSet(Line) /\ n \in Nat
    BY <1>5, CallersAssumption, FS_Subset, FS_CardinalityType
  <1>7. Cardinality(Line') = n - 1
    BY <1>0, <1>4, <1>6, FS_RemoveElement
  <1>8. n >= 1 /\ n <= TicketMod
    <2>1. n # 0
      BY <1>0, <1>6, FS_EmptySet
    <2> QED BY <1>6, <2>1, LineUnwrapped
  <1> HIDE DEF n
  <1>9. order = Wrapped(freed + n)
    BY LineUnwrapped DEF n
  <1>10. freed' = Wrapped(freed + 1) /\ freed' \in Tickets
    <2>1. freed + 1 \in Int /\ -TicketMod <= freed + 1 /\ freed + 1 < 2 * TicketMod
      BY <1>1, <1>3 DEF Tickets
    <2> QED BY <2>1, WrapsOnce DEF Plus1
  <1>11. order' = (freed' + (n - 1)) % TicketMod
    <2>1. freed' + (n - 1) \in Int /\ -TicketMod <= freed' + (n - 1)
          /\ freed' + (n - 1) < 2 * TicketMod
      BY <1>3, <1>6, <1>8, <1>10 DEF Tickets
    <2>2. (freed' + (n - 1)) % TicketMod = Wrapped(freed' + (n - 1))
      BY <2>1, WrapsOnce
    <2> QED BY <1>1, <1>3, <1>6, <1>8, <1>9, <1>10, <2>2 DEF Wrapped, Tickets
  <1>12. /\ \A u \in Line : Ahead(u) < n
         /\ \A u, v \in Line : Ahead(u) = Ahead(v) => u = v
         /\ \A u \in Holders : Ahead(u) = 0
    BY DEF MutexInv, MutexLine, n
  <1>13. \A u \in Threads : Ahead(u) \in Tickets /\ Ahead(u) = Wrapped(ticket[u] - freed)
    BY LineUnwrapped
  <1>14. ASSUME NEW u \in Line, u # t
         PROVE  Ahead(u) >= 1 /\ Ahead(u)' = Ahead(u) - 1
    <2>1. Ahead(u) # 0
      BY <1>0, <1>12, <1>14
    <2>2. u \in Threads /\ Ahead(u) >= 1
      BY <1>5, <1>13, <2>1, <1>3 DEF Tickets
    <2>3. ticket'[u] = ticket[u] /\ ticket[u] \in Tickets
      BY <1>1, <1>2, <1>14, <2>2
    <2>4. ticket[u] - freed' \in Int /\ -TicketMod <= ticket[u] - freed'
          /\ ticket[u] - freed' < 2 * TicketMod
      BY <1>3, <1>10, <2>3 DEF Tickets
    <2>5. Ahead(u)' = Wrapped(ticket[u] - freed')
      BY <2>3, <2>4, WrapsOnce DEF Ahead
    <2>6. Ahead(u) = Wrapped(ticket[u] - freed)
      BY <1>13, <2>2
    <2> HIDE DEF Ahead
    <2> QED BY <1>1, <1>3, <1>10, <2>2, <2>3, <2>5, <2>6 DEF Wrapped, Tickets
  <1>15. \A u \in Line' : u \in Line /\ u # t /\ u \in Threads
    BY <1>4, <1>5
  <1>16. Holders' = {}
    <2> SUFFICES ASSUME NEW u \in Holders' PROVE FALSE
      OBVIOUS
    <2>1. u \in Holders /\ u # t /\ u \in Line
      BY <1>0, <1>1, <1>2 DEF Holders, Line, Callers
    <2>2. Ahead(u) = 0 /\ Ahead(t) = 0
      BY <2>1, <1>12
    <2> QED BY <1>0, <1>12, <2>1, <2>2
  <1>17. \A u \in Line' : Ahead(u)' < n - 1
    <2> SUFFICES ASSUME NEW u \in Line' PROVE Ahead(u)' < n - 1
      OBVIOUS
    <2>1. Ahead(u) < n /\ Ahead(u)' = Ahead(u) - 1 /\ Ahead(u) \in Int
      BY <1>12, <1>13, <1>14, <1>15 DEF Tickets
    <2> QED BY <2>1, <1>6
  <1>18. \A u, v \in Line' : Ahead(u)' = Ahead(v)' => u = v
    <2> SUFFICES ASSUME NEW u \in Line', NEW v \in Line', Ahead(u)' = Ahead(v)' PROVE u = v
      OBVIOUS
    <2>1. /\ Ahead(u)' = Ahead(u) - 1 /\ Ahead(u) \in Int
          /\ Ahead(v)' = Ahead(v) - 1 /\ Ahead(v) \in Int
      BY <1>13, <1>14, <1>15 DEF Tickets
    <2>2. Ahead(u)' = Ahead(v)'
      OBVIOUS
    <2>3. Ahead(u) - 1 = Ahead(v) - 1
      BY <2>1, <2>2
    <2>4. Ahead(u) = Ahead(v)
      BY <2>1, <2>3
    <2> QED BY <1>12, <1>15, <2>4
  <1>19. MutexLine'
    BY <1>7, <1>11, <1>16, <1>17, <1>18 DEF MutexLine
  <1>20. MutexTypeOK'
    <2>1. <<0, 0>> \in Tickets \X Tickets /\ 0 \in Tickets
      BY <1>3 DEF Tickets
    <2> QED BY <1>1, <1>2, <1>10, <2>1 DEF MutexTypeOK, MutexPlaces
  <1>21. TryLoaded'
    BY <1>1, <1>2 DEF MutexInv, TryLoaded, At
  <1> QED BY <1>19, <1>20, <1>21 DEF MutexInv

LEMMA MutexStep == MutexInv /\ [MutexNext]_mutexVars => MutexInv'
  <1> SUFFICES ASSUME MutexInv, [MutexNext]_mutexVars PROVE MutexInv'
    OBVIOUS
  <1>1. /\ pc \in [Threads -> MutexPlaces] /\ raw \in [Threads -> Tickets \X Tickets]
        /\ freed \in Tickets /\ order \in Tickets
    BY DEF MutexInv, MutexTypeOK
  <1>2. 0 \in Tickets /\ <<0, 0>> \in Tickets \X Tickets /\ <<freed, order>> \in Tickets \X Tickets
    BY <1>1, TicketsAssumption DEF Tickets
  <1>3. CASE UNCHANGED mutexVars
    BY <1>3 DEF mutexVars, MutexInv, MutexTypeOK, MutexLine, TryLoaded, At, Line, Holders,
                Callers, Ahead
  <1>4. CASE cellSyncMutexInitialize
    <2>1. NobodyCalls /\ UNCHANGED <<raw, ticket, pc>> /\ freed' = 0 /\ order' = 0
      BY <1>4 DEF cellSyncMutexInitialize
    <2>2. Line' = {} /\ Holders' = {}
      BY <2>1 DEF NobodyCalls, Line, Holders, Callers
    <2>3. 0 % TicketMod = 0
      BY TicketsAssumption, TicketsWrap
    <2>4. MutexLine'
      BY <2>1, <2>2, <2>3, FS_EmptySet DEF MutexLine
    <2>5. MutexTypeOK' /\ TryLoaded'
      BY <2>1, <1>2 DEF MutexInv, MutexTypeOK, TryLoaded, At
    <2> QED BY <2>4, <2>5 DEF MutexInv
  <1>5. ASSUME NEW t \in Threads, NEW next \in {"lock", "idle", "unlock"}, Fails(t, next),
               pc[t] \in {"swap", "try", "release"}, pc[t] = "release" <=> next = "unlock"
        PROVE  MutexInv'
    BY <1>1, <1>2, <1>5, LineStays DEF Fails, Drop, MutexPlaces
  <1>6. ASSUME NEW t \in Threads, MutexCall(t) PROVE MutexInv'
    <2>1. CASE cellSyncMutexLock(t)
      BY <2>1, <1>2, LineStays DEF cellSyncMutexLock, Moves, At, MutexPlaces
    <2>2. CASE cellSyncMutexTryLock(t)
      BY <2>2, <1>2, LineStays DEF cellSyncMutexTryLock, Moves, At, Load, MutexPlaces
    <2>3. CASE cellSyncMutexUnlock(t)
      BY <2>3, <1>2, LineStays DEF cellSyncMutexUnlock, Moves, At, MutexPlaces
    <2> QED BY <1>6, <2>1, <2>2, <2>3 DEF MutexCall
  <1>7. ASSUME NEW t \in Threads, MutexRun(t) PROVE MutexInv'
    <2>1. CASE LockLoads(t)
      BY <2>1, <1>2, LineStays DEF LockLoads, Moves, At, Load, MutexPlaces
    <2>2. CASE LockTakes(t)
      <3>1. CASE TakesTicket(t, "wait")
        <4>1. t \notin Line
          BY <2>2 DEF LockTakes, At, Line, Callers
        <4> QED BY <3>1, <4>1, LineGrows
      <3>2. CASE Fails(t, "lock")
        BY <2>2, <3>2, <1>5 DEF LockTakes, At
      <3> QED BY <2>2, <3>1, <3>2 DEF LockTakes
    <2>3. CASE LockServed(t)
      BY <2>3, <1>2, LineStays DEF LockServed, Moves, At, MutexPlaces
    <2>4. CASE TryTakes(t)
      <3>1. CASE TakesTicket(t, "held")
        <4>1. t \notin Line
          BY <2>4 DEF TryTakes, At, Line, Callers
        <4>2. raw[t][1] = raw[t][2] /\ raw[t] = <<freed, order>>
          BY <2>4, <3>1 DEF TryTakes, MutexInv, TryLoaded, TakesTicket, Swaps
        <4>3. freed = order
          BY <4>2
        <4> QED BY <3>1, <4>1, <4>3, LineGrows
      <3>2. CASE Fails(t, "idle")
        BY <2>4, <3>2, <1>5 DEF TryTakes, At
      <3> QED BY <2>4, <3>1, <3>2 DEF TryTakes
    <2>5. CASE UnlockLoads(t)
      BY <2>5, <1>2, LineStays DEF UnlockLoads, Moves, At, Load, MutexPlaces
    <2>6. CASE Releases(t)
      <3>1. t \in Holders /\ pc[t] = "release"
        BY <2>6 DEF Releases, At, Holders, Callers
      <3>2. CASE freed' = Plus1(freed) /\ Leaves(t) /\ UNCHANGED order
        BY <3>1, <3>2, LineMoves
      <3>3. CASE Fails(t, "unlock")
        BY <3>1, <3>3, <1>5
      <3> QED BY <2>6, <3>2, <3>3 DEF Releases
    <2> QED BY <1>7, <2>1, <2>2, <2>3, <2>4, <2>5, <2>6 DEF MutexRun
  <1> QED BY <1>3, <1>4, <1>6, <1>7 DEF MutexNext

(* Whatever swaps fail, and as often as the counters wrap around, every    *)
(* ticket between m_freed and m_order belongs to one thread in the line.   *)
THEOREM MutexKeepsLine == MutexSpec => []MutexLine
  <1>1. MutexInv => MutexLine
    BY DEF MutexInv
  <1> QED BY <1>1, MutexInitial, MutexStep, PTL DEF MutexSpec

(* The ticket mutex excludes, for any number of callers up to the number   *)
(* of tickets: two holders would both have the served ticket.              *)
THEOREM MutexExcludes == MutexSpec => []MutexExclusive
  <1>1. MutexLine => MutexExclusive
    <2>1. Holders \subseteq Line
      BY DEF Holders, Line, Callers
    <2> QED BY <2>1 DEF MutexLine, MutexExclusive
  <1> QED BY <1>1, MutexKeepsLine, PTL

----------------------------------------------------------------------------
(* The lightweight mutex: exclusion. *)

(* Whoever has a lock is not about to take or to give the count.  *)
LwmIdleHolders == \A t \in Threads : holds[t] > 0 => pc[t] \notin {"got", "stamp", "give"}

(* lwcond_wait puts back as many locks as its caller had. *)
LwmBacks == \A t \in Threads : back[t].rc = back[t].locks

LwmOwned == LwmTypeOK /\ LwmExclusive /\ LwmIdleHolders /\ LwmBacks

(* All of it holds until the recursive path lets a thread without a lock in. *)
LwmHolds == LwmTypeOK /\ (~crossed => LwmOwned)

LEMMA LwmOwnedInitial == LwmInit => LwmHolds
  <1> SUFFICES ASSUME LwmInit PROVE LwmHolds
    OBVIOUS
  <1>1. LwmTypeOK
    <2>1. crossed \in BOOLEAN
      BY DEF LwmInit
    <2> QED BY <2>1, LwmAssumption DEF LwmInit, LwmTypeOK, LwmPlaces, Free, NobodyCalls
  <1>2. LwmExclusive /\ LwmIdleHolders /\ LwmBacks
    BY DEF LwmInit, LwmExclusive, LwmIdleHolders, LwmBacks, LwmHolders, Free, NobodyCalls, Callers
  <1> QED BY <1>1, <1>2 DEF LwmHolds, LwmOwned

LEMMA LwmTyped == LwmTypeOK /\ [LwmNext]_lwmVars => LwmTypeOK'
  <1> SUFFICES ASSUME LwmTypeOK, [LwmNext]_lwmVars PROVE LwmTypeOK'
    OBVIOUS
  <1> DEFINE Back == [own : Threads \cup {NoOwner}, rc : 0 .. MaxRecur, locks : Nat]
  <1>1. /\ pc \in [Threads -> LwmPlaces] /\ holds \in [Threads -> Nat] /\ waiters \in Int
        /\ back \in [Threads -> Back] /\ crossed \in BOOLEAN
        /\ recur \in 0 .. MaxRecur /\ cnt \in {0, 1} /\ owner \in Threads \cup {NoOwner}
    BY DEF LwmTypeOK
  <1>2. MaxRecur \in Nat \ {0} /\ Free \in Back
    BY LwmAssumption DEF Free
  <1>3. ASSUME NEW t \in Threads, NEW to \in LwmPlaces, Goto(t, to),
               waiters' \in Int, cnt' \in {0, 1}, UNCHANGED <<owner, recur, back, holds, crossed>>
        PROVE  LwmTypeOK'
    BY <1>1, <1>3 DEF LwmTypeOK, Goto
  <1>4. CASE UNCHANGED lwmVars
    BY <1>1, <1>4 DEF lwmVars, LwmTypeOK
  <1>5. CASE sys_lwmutex_create
    BY <1>1, <1>2, <1>5 DEF sys_lwmutex_create, Words, LwmTypeOK, LwmPlaces
  <1>6. ASSUME NEW t \in Threads, Relocks(t) PROVE LwmTypeOK'
    <2>1. crossed' \in BOOLEAN
      BY <1>1, <1>6, Zenon DEF Relocks
    <2> QED BY <1>1, <1>2, <1>6, <2>1 DEF Relocks, LwmTypeOK
  <1>7. ASSUME NEW t \in Threads, LwmCall(t) PROVE LwmTypeOK'
    <2>1. CASE sys_lwmutex_lock(t) \/ sys_lwmutex_trylock(t)
      BY <1>1, <1>3, <1>6, <2>1
      DEF sys_lwmutex_lock, sys_lwmutex_trylock, lwm_try, Step, Moves, LwmPlaces
    <2>2. CASE sys_lwmutex_unlock(t)
      BY <1>1, <1>2, <2>2 DEF sys_lwmutex_unlock, Words, Goto, LwmTypeOK, LwmPlaces
    <2>3. CASE sys_lwcond_wait(t)
      <3>1. [own |-> owner, rc |-> IF recur = 0 THEN 1 ELSE recur, locks |-> holds[t]] \in Back
        BY <1>1, <1>2
      <3> QED BY <1>1, <1>2, <2>3, <3>1 DEF sys_lwcond_wait, Words, Goto, LwmTypeOK, LwmPlaces
    <2>4. CASE \E u \in Threads : HandsOver(t, u)
      BY <1>1, <2>4 DEF HandsOver, LwmTypeOK
    <2>5. CASE Exits(t)
      BY <1>1, <2>5 DEF Exits, Moves, Goto, LwmTypeOK, LwmPlaces
    <2> QED BY <1>7, <2>1, <2>2, <2>3, <2>4, <2>5 DEF LwmCall
  <1>8. ASSUME NEW t \in Threads, LwmRun(t) PROVE LwmTypeOK'
    <2>1. CASE Stamps(t)
      BY <1>1, <1>2, <2>1 DEF Stamps, Words, Moves, Goto, LwmTypeOK, LwmPlaces
    <2>2. CASE Spins(t) \/ WaitTries(t) \/ WaitCounts(t) \/ WaitEnds(t)
      BY <1>1, <1>3, <2>2
      DEF Spins, WaitTries, WaitCounts, WaitEnds, lwm_try, Step, Moves, LwmPlaces
    <2>3. CASE WaitSleeps(t) \/ SleepEnds(t) \/ WaitWakes(t)
      BY <1>1, <1>3, <2>3 DEF WaitSleeps, SleepEnds, WaitWakes, Step, Moves, LwmPlaces
    <2>4. CASE ReleaseGives(t) \/ ReleaseLooks(t) \/ ReleasePasses(t)
      BY <1>1, <1>3, <2>4
      DEF ReleaseGives, ReleaseLooks, ReleasePasses, Released, Step, Moves, LwmPlaces
    <2>5. CASE ReleaseWakes(t)
      BY <1>1, <2>5 DEF ReleaseWakes, Released, Asleep, Callers, Goto, LwmTypeOK, LwmPlaces
    <2> QED BY <1>8, <2>1, <2>2, <2>3, <2>4, <2>5 DEF LwmRun
  <1> QED BY <1>4, <1>5, <1>7, <1>8 DEF LwmNext

(* Who holds is a matter of each thread by itself. *)
Has(t) == holds[t] > 0 \/ pc[t] \in {"got", "stamp", "give"}

LEMMA HoldersApart ==
    /\ LwmExclusive <=> /\ \A t, u \in Threads : Has(t) /\ Has(u) => t = u
                        /\ \A t \in Threads : Has(t) => cnt = 0
                        /\ \A t \in Threads : holds[t] > 0 => recur = holds[t]
    /\ LwmExclusive' <=> /\ \A t, u \in Threads : Has(t)' /\ Has(u)' => t = u
                         /\ \A t \in Threads : Has(t)' => cnt' = 0
                         /\ \A t \in Threads : holds'[t] > 0 => recur' = holds'[t]
  <1>1. /\ \A t : t \in LwmHolders <=> t \in Threads /\ Has(t)
        /\ \A t : t \in LwmHolders' <=> t \in Threads /\ Has(t)'
    BY DEF LwmHolders, Callers, Has
  <1> QED BY <1>1 DEF LwmExclusive

(* Steps that touch neither the count nor what anybody holds. *)
LEMMA LwmPasses ==
    ASSUME LwmOwned, NEW t \in Threads, NEW to \in LwmPlaces, Goto(t, to),
           UNCHANGED <<cnt, owner, recur, back, holds, crossed>>, waiters' \in Int,
           pc[t] \in {"got", "stamp", "give"} <=> to \in {"got", "stamp", "give"}
    PROVE  LwmOwned'
  <1>1. pc' = [pc EXCEPT ![t] = to] /\ pc \in [Threads -> LwmPlaces]
    BY DEF Goto, LwmOwned, LwmTypeOK
  <1>2. \A u \in Threads : Has(u)' <=> Has(u)
    BY <1>1 DEF Has
  <1>3. LwmExclusive'
    BY <1>2, HoldersApart DEF LwmOwned
  <1>4. LwmTypeOK' /\ LwmIdleHolders' /\ LwmBacks'
    BY <1>1 DEF LwmOwned, LwmTypeOK, LwmIdleHolders, LwmBacks
  <1> QED BY <1>3, <1>4 DEF LwmOwned

(* Only one thread finds the count, and then nobody else has the mutex. *)
LEMMA LwmTakes ==
    ASSUME LwmOwned, NEW t \in Threads, NEW to \in {"stamp", "got"}, lwm_try(t, to)
    PROVE  LwmOwned'
  <1>1. /\ pc' = [pc EXCEPT ![t] = to] /\ pc \in [Threads -> LwmPlaces]
        /\ cnt = 1 /\ cnt' = 0 /\ UNCHANGED <<waiters, owner, recur, back, holds, crossed>>
    BY DEF Goto, LwmOwned, LwmTypeOK, lwm_try
  <1>2. \A u \in Threads : ~Has(u)
    BY <1>1, HoldersApart DEF LwmOwned
  <1>3. \A u \in Threads : Has(u)' => u = t
    BY <1>1, <1>2 DEF Has
  <1>4. LwmExclusive'
    BY <1>1, <1>3, HoldersApart DEF LwmOwned
  <1>5. LwmTypeOK' /\ LwmIdleHolders' /\ LwmBacks'
    BY <1>1, <1>2 DEF LwmOwned, LwmTypeOK, LwmIdleHolders, LwmBacks, LwmPlaces, Has
  <1> QED BY <1>4, <1>5 DEF LwmOwned

LEMMA LwmOwnedStep == LwmOwned /\ [LwmNext]_lwmVars /\ ~crossed' => LwmOwned'
  <1> SUFFICES ASSUME LwmOwned, [LwmNext]_lwmVars, ~crossed' PROVE LwmOwned'
    OBVIOUS
  <1>0. LwmTypeOK'
    BY LwmTyped DEF LwmOwned
  <1>1. /\ pc \in [Threads -> LwmPlaces] /\ holds \in [Threads -> Nat] /\ waiters \in Int
        /\ back \in [Threads -> [own : Threads \cup {NoOwner}, rc : 0 .. MaxRecur, locks : Nat]]
        /\ recur \in 0 .. MaxRecur /\ cnt \in {0, 1} /\ owner \in Threads \cup {NoOwner}
    BY DEF LwmOwned, LwmTypeOK
  <1>2. /\ \A t, u \in Threads : Has(t) /\ Has(u) => t = u
        /\ \A t \in Threads : Has(t) => cnt = 0
        /\ \A t \in Threads : holds[t] > 0 => 
              recur = holds[t] /\ pc[t] \notin {"got", "stamp", "give"}
        /\ \A t \in Threads : back[t].rc = back[t].locks
    BY HoldersApart DEF LwmOwned, LwmIdleHolders, LwmBacks
  <1>3. MaxRecur \in Nat \ {0} /\ NoOwner \notin Threads
    BY LwmAssumption
  <1>4. CASE UNCHANGED lwmVars
    BY <1>4 DEF lwmVars, LwmOwned, LwmTypeOK, LwmExclusive, LwmIdleHolders, LwmBacks,
                    LwmHolders, Callers
  <1>5. CASE sys_lwmutex_create
    <2>1. /\ \A t \in Threads : holds'[t] = 0 /\ pc'[t] = "idle"
          /\ pc' = [t \in Threads |-> "idle"] /\ cnt' = 1 /\ owner' = NoOwner /\ recur' = 0
          /\ UNCHANGED <<waiters, back, holds>>
      BY <1>5 DEF sys_lwmutex_create, Words
    <2>2. \A t \in Threads : ~Has(t)'
      BY <2>1 DEF Has
    <2>3. LwmExclusive'
      BY <2>1, <2>2, HoldersApart
    <2> QED BY <1>0, <1>2, <2>1, <2>3 DEF LwmOwned, LwmIdleHolders, LwmBacks
  <1>6. ASSUME NEW t \in Threads, Relocks(t) PROVE LwmOwned'
    <2>1. /\ pc' = pc /\ recur' = recur + 1 /\ recur < MaxRecur /\ owner = t /\ holds[t] > 0
          /\ holds' = [holds EXCEPT ![t] = @ + 1] /\ UNCHANGED <<cnt, waiters, owner, back>>
      <3>1. holds[t] # 0
        BY <1>6, Zenon DEF Relocks
      <3> QED BY <1>1, <1>6, <3>1 DEF Relocks, IsOwner
    <2>2. \A u \in Threads : Has(u)' => u = t
      BY <1>1, <1>2, <2>1 DEF Has
    <2>3. Has(t)
      BY <2>1 DEF Has
    <2>4. LwmExclusive'
      BY <1>1, <1>2, <2>1, <2>2, <2>3, HoldersApart DEF Has
    <2> QED BY <1>0, <1>1, <1>2, <2>1, <2>4 DEF LwmOwned, LwmIdleHolders, LwmBacks
  <1>7. ASSUME NEW t \in Threads, LwmCall(t) PROVE LwmOwned'
    <2>1. CASE sys_lwmutex_lock(t)
      <3>1. CASE cnt = 0 /\ Step(t, "idle", "spin")
        BY <1>1, <3>1, LwmPasses DEF Step, Moves, At, LwmPlaces
      <3> QED BY <2>1, <3>1, <1>6, LwmTakes DEF sys_lwmutex_lock
    <2>2. CASE sys_lwmutex_trylock(t)
      BY <2>2, <1>6, LwmTakes DEF sys_lwmutex_trylock
    <2>3. CASE sys_lwmutex_unlock(t)
      <3>1. /\ pc[t] = "idle" /\ holds[t] > 0 /\ holds' = [holds EXCEPT ![t] = @ - 1]
            /\ UNCHANGED <<cnt, waiters, back>> /\ recur = holds[t] /\ Has(t)
        BY <2>3, <1>2 DEF sys_lwmutex_unlock, At, Has
      <3>2. \A u \in Threads : u # t => ~Has(u) /\ holds[u] = 0
        BY <3>1, <1>1, <1>2 DEF Has
      <3>3. CASE recur > 1 /\ owner' = owner /\ recur' = recur - 1 /\ pc' = pc
        <4>1. \A u \in Threads : Has(u)' => u = t
          BY <1>1, <3>1, <3>2, <3>3 DEF Has
        <4>2. LwmExclusive'
          BY <1>1, <1>2, <3>1, <3>2, <3>3, <4>1, HoldersApart
        <4> QED BY <1>0, <1>1, <1>2, <3>1, <3>3, <4>2 DEF LwmOwned, LwmIdleHolders, LwmBacks
      <3>4. CASE recur <= 1 /\ owner' = NoOwner /\ recur' = 0 /\ pc' = [pc EXCEPT ![t] = "give"]
        <4>1. \A u \in Threads : (Has(u)' => u = t) /\ holds'[u] = 0
          BY <1>1, <3>1, <3>2, <3>4 DEF Has
        <4>2. LwmExclusive'
          BY <1>1, <1>2, <3>1, <4>1, HoldersApart
        <4> QED BY <1>0, <1>1, <1>2, <3>1, <4>1, <4>2 DEF LwmOwned, LwmIdleHolders, LwmBacks
      <3> QED BY <2>3, <3>3, <3>4 DEF sys_lwmutex_unlock, Words, Goto
    <2>4. CASE sys_lwcond_wait(t)
      <3>1. /\ pc[t] = "idle" /\ holds[t] > 0 /\ holds' = [holds EXCEPT ![t] = 0] /\ Has(t)
            /\ pc' = [pc EXCEPT ![t] = "give"] /\ owner' = NoOwner /\ recur' = 0
            /\ back' = [back EXCEPT ![t] = [own |-> owner, rc |-> recur, locks |-> holds[t]]]
            /\ recur = holds[t] /\ UNCHANGED <<cnt, waiters>>
        <4>1. recur = holds[t] /\ recur # 0
          BY <1>1, <1>2, <2>4 DEF sys_lwcond_wait
        <4> QED BY <2>4, <4>1 DEF sys_lwcond_wait, At, Words, Goto, Has
      <3>2. \A u \in Threads : u # t => ~Has(u) /\ holds[u] = 0
        BY <3>1, <1>1, <1>2 DEF Has
      <3>3. \A u \in Threads : (Has(u)' => u = t) /\ holds'[u] = 0
        BY <1>1, <3>1, <3>2 DEF Has
      <3>4. LwmExclusive'
        BY <1>1, <1>2, <3>1, <3>3, HoldersApart
      <3> QED BY <1>0, <1>1, <1>2, <3>1, <3>3, <3>4 DEF LwmOwned, LwmIdleHolders, LwmBacks
    <2>5. ASSUME NEW u \in Threads, HandsOver(t, u) PROVE LwmOwned'
      <3>1. /\ pc[t] = "idle" /\ pc[u] = "idle" /\ t # u /\ holds[t] > 0 /\ Has(t)
            /\ holds' = [holds EXCEPT ![u] = @ + holds[t], ![t] = 0]
            /\ UNCHANGED <<cnt, waiters, owner, recur, back, pc>>
        BY <2>5 DEF HandsOver, At, Has
      <3>2. \A v \in Threads : v # t => ~Has(v) /\ holds[v] = 0
        BY <3>1, <1>1, <1>2 DEF Has
      <3>3. \A v \in Threads : (Has(v)' => v = u) /\ (v # u => holds'[v] = 0)
        BY <1>1, <3>1, <3>2 DEF Has
      <3>4. holds'[u] = holds[t] /\ recur = holds[t]
        BY <1>1, <1>2, <3>1, <3>2
      <3>5. LwmExclusive'
        BY <1>1, <1>2, <3>1, <3>3, <3>4, HoldersApart
      <3> QED BY <1>0, <1>1, <1>2, <3>1, <3>3, <3>5 DEF LwmOwned, LwmIdleHolders, LwmBacks
    <2>6. CASE Exits(t)
      <3>1. /\ pc[t] = "idle" /\ holds[t] > 0 /\ holds' = [holds EXCEPT ![t] = 0]
            /\ pc' = [pc EXCEPT ![t] = "dead"] /\ UNCHANGED <<cnt, waiters, owner, recur, back>>
        BY <2>6 DEF Exits, Moves, Goto, At
      <3>2. \A v \in Threads : (Has(v)' => Has(v)) /\ (holds'[v] > 0 => holds'[v] = holds[v])
        BY <1>1, <3>1 DEF Has
      <3>3. LwmExclusive'
        BY <1>2, <3>1, <3>2, HoldersApart
      <3> QED BY <1>0, <1>1, <1>2, <3>1, <3>2, <3>3 DEF LwmOwned, LwmIdleHolders, LwmBacks
    <2> QED BY <1>7, <2>1, <2>2, <2>3, <2>4, <2>5, <2>6 DEF LwmCall
  <1>8. ASSUME NEW t \in Threads, LwmRun(t) PROVE LwmOwned'
    <2>1. CASE Stamps(t)
      <3>1. pc[t] = "stamp" /\ pc' = [pc EXCEPT ![t] = "idle"] /\ Has(t)
            /\ UNCHANGED <<cnt, waiters>> /\ back' = [back EXCEPT ![t] = Free]
        BY <2>1 DEF Stamps, Moves, At, Goto, Has
      <3>2. PICK n \in Nat : recur' = n /\ holds' = [holds EXCEPT ![t] = n]
        BY <2>1, <1>1, <1>2, <1>3, <3>1 DEF Stamps, Words
      <3>3. \A u \in Threads : u # t => ~Has(u) /\ holds[u] = 0
        BY <3>1, <1>1, <1>2 DEF Has
      <3>4. \A u \in Threads : (Has(u)' => u = t) /\ (u # t => holds'[u] = 0)
        BY <1>1, <3>1, <3>2, <3>3 DEF Has
      <3>5. LwmExclusive'
        BY <1>1, <1>2, <3>1, <3>2, <3>4, HoldersApart
      <3>6. Free.rc = Free.locks
        BY DEF Free
      <3> QED BY <1>0, <1>1, <1>2, <3>1, <3>4, <3>5, <3>6 DEF LwmOwned, LwmIdleHolders, LwmBacks
    <2>2. CASE Spins(t)
      <3>1. CASE cnt = 0 /\ Step(t, "spin", "enter")
        BY <1>1, <1>2, <3>1, LwmPasses DEF Step, Moves, At, LwmPlaces
      <3> QED BY <2>2, <3>1, LwmTakes DEF Spins
    <2>3. CASE WaitCounts(t)
      BY <1>1, <1>2, <2>3, LwmPasses DEF WaitCounts, Moves, At, LwmPlaces
    <2>4. CASE WaitTries(t)
      <3>1. CASE cnt = 0 /\ Step(t, "retry", "failed")
        BY <1>1, <1>2, <3>1, LwmPasses DEF Step, Moves, At, LwmPlaces
      <3> QED BY <2>4, <3>1, LwmTakes DEF WaitTries
    <2>5. CASE WaitSleeps(t)
      BY <1>1, <1>2, <2>5, LwmPasses DEF WaitSleeps, Step, Moves, At, LwmPlaces
    <2>6. CASE SleepEnds(t)
      BY <1>1, <1>2, <2>6, LwmPasses DEF SleepEnds, Step, Moves, At, LwmPlaces
    <2>7. CASE WaitWakes(t)
      BY <1>1, <1>2, <2>7, LwmPasses DEF WaitWakes, Step, Moves, At, LwmPlaces
    <2>8. CASE ReleaseGives(t)
      <3>1. /\ pc[t] = "give" /\ pc' = [pc EXCEPT ![t] = "look"] /\ cnt' = 1 /\ Has(t)
            /\ UNCHANGED <<waiters, owner, recur, back, holds, crossed>>
        BY <2>8 DEF ReleaseGives, Moves, At, Goto, Has
      <3>2. \A u \in Threads : u # t => ~Has(u)
        BY <3>1, <1>2
      <3>3. \A u \in Threads : ~Has(u)' /\ holds[u] = 0
        BY <1>1, <1>2, <3>1, <3>2 DEF Has
      <3>4. LwmExclusive'
        BY <1>1, <3>1, <3>3, HoldersApart
      <3> QED BY <1>0, <1>2, <3>1, <3>3, <3>4 DEF LwmOwned, LwmIdleHolders, LwmBacks
    <2>9. CASE ReleaseLooks(t)
      BY <1>1, <1>2, <2>9, LwmPasses DEF ReleaseLooks, Released, Step, Moves, At, LwmPlaces
    <2>10. CASE ReleasePasses(t)
      BY <1>1, <1>2, <2>10, LwmPasses DEF ReleasePasses, Step, Moves, At, LwmPlaces
    <2>11. CASE ReleaseWakes(t)
      <3>1. pc[t] = "wake" /\ Released(t) \in {"spin", "idle"}
            /\ UNCHANGED <<cnt, waiters, owner, recur, back, holds, crossed>>
        BY <2>11 DEF ReleaseWakes, At, Released
      <3>2. CASE Asleep = {} /\ Goto(t, Released(t))
        BY <1>1, <1>2, <3>1, <3>2, LwmPasses DEF LwmPlaces
      <3>3. ASSUME NEW u \in Asleep, pc' = [pc EXCEPT ![t] = Released(t), ![u] = "awake"]
            PROVE  LwmOwned'
        <4>1. u \in Threads /\ pc[u] = "asleep"
          BY DEF Asleep, Callers
        <4>2. \A v \in Threads : Has(v)' <=> Has(v)
          BY <1>1, <3>1, <3>3, <4>1 DEF Has
        <4>3. LwmExclusive'
          BY <3>1, <4>2, HoldersApart DEF LwmOwned
        <4>4. \A v \in Threads : holds[v] > 0 => pc'[v] \notin {"got", "stamp", "give"}
          BY <1>1, <1>2, <3>1, <3>3, <4>1
        <4> QED BY <1>0, <1>2, <3>1, <4>3, <4>4 DEF LwmOwned, LwmIdleHolders, LwmBacks
      <3> QED BY <2>11, <3>2, <3>3 DEF ReleaseWakes
    <2>12. CASE WaitEnds(t)
      <3>1. waiters' \in Int
        BY <1>1, <2>12 DEF WaitEnds
      <3> QED BY <1>1, <1>2, <2>12, <3>1, LwmPasses DEF WaitEnds, Moves, At, LwmPlaces
    <2> QED BY <1>8, <2>1, <2>2, <2>3, <2>4, <2>5, <2>6, <2>7, <2>8, <2>9, <2>10, <2>11, <2>12
            DEF LwmRun
  <1> QED BY <1>4, <1>5, <1>7, <1>8 DEF LwmNext

LEMMA LwmHoldsStep == LwmHolds /\ [LwmNext]_lwmVars => LwmHolds'
  <1> SUFFICES ASSUME LwmHolds, [LwmNext]_lwmVars PROVE LwmHolds'
    OBVIOUS
  <1>1. LwmTypeOK'
    BY LwmTyped DEF LwmHolds
  <1>2. ASSUME ~crossed' PROVE ~crossed
    <2>1. ASSUME NEW t \in Threads, Relocks(t) PROVE ~crossed
      BY <1>2, <2>1, Zenon DEF Relocks
    <2> QED BY <1>2, <2>1 DEF LwmNext, LwmCall, LwmRun, lwmVars, sys_lwmutex_create, sys_lwmutex_lock,
               sys_lwmutex_trylock, sys_lwmutex_unlock, sys_lwcond_wait, HandsOver, Exits, Stamps,
               Spins, WaitCounts, WaitTries, WaitSleeps, SleepEnds, WaitWakes, WaitEnds, ReleaseGives,
               ReleaseLooks, ReleasePasses, ReleaseWakes, lwm_try, Step
  <1>3. ASSUME ~crossed' PROVE LwmOwned'
    BY <1>2, <1>3, LwmOwnedStep DEF LwmHolds
  <1> QED BY <1>1, <1>3 DEF LwmHolds

(* Whoever unlocks the lightweight mutex, at most one thread has it, it is *)
(* not free meanwhile, and recursive_count is what the guest still owes,   *)
(* through any hand-overs, until the recursive path of lock or trylock     *)
(* lets in a giver that the owner word still names.                        *)
THEOREM LwmExcludes == LwmSpec => []LwmExclusiveUntilCrossed
  <1>1. LwmHolds => LwmExclusiveUntilCrossed
    BY DEF LwmHolds, LwmOwned, LwmExclusiveUntilCrossed
  <1> QED BY <1>1, LwmOwnedInitial, LwmHoldsStep, PTL DEF LwmSpec

----------------------------------------------------------------------------
(* The lightweight mutex: no lost wake. *)

InSlowPath == {"retry", "failed", "asleep", "awake", "got", "late"}

LwmCounted == waiters = Cardinality(Callers(InSlowPath))

(* A locker that did not see the count is seen by the release that gave it. *)
LwmSeen ==
    cnt = 1 => \A t \in Threads : pc[t] = "failed" => \E u \in Threads : pc[u] \in {"look", "through"}

(* A sleeper beside a free mutex. *)
LwmCovered ==
    cnt = 1 => \A t \in Threads : pc[t] = "asleep" =>
        \E u \in Threads : pc[u] \in {"look", "through", "wake", "awake", "retry"}

LwmWaits == LwmTypeOK /\ LwmCounted /\ LwmSeen /\ LwmCovered

LEMMA LwmWaitsInitial == LwmInit => LwmWaits
  <1> SUFFICES ASSUME LwmInit PROVE LwmWaits
    OBVIOUS
  <1>1. \A t \in Threads : pc[t] = "idle"
    BY DEF LwmInit, NobodyCalls
  <1>2. Callers(InSlowPath) = {} /\ LwmSeen /\ LwmCovered
    BY <1>1 DEF InSlowPath, Callers, LwmSeen, LwmCovered
  <1>3. LwmTypeOK
    BY LwmOwnedInitial DEF LwmHolds
  <1> QED BY <1>2, <1>3, FS_EmptySet DEF LwmInit, LwmWaits, LwmCounted

(* Steps of one thread, by the places they lead from and to. *)
LEMMA LwmMoves ==
    ASSUME LwmWaits, LwmTypeOK', NEW t \in Threads, NEW to \in LwmPlaces, Goto(t, to),
           waiters' = waiters + (IF to \in InSlowPath THEN 1 ELSE 0)
                              - (IF pc[t] \in InSlowPath THEN 1 ELSE 0),
           cnt' = 1 => cnt = 1 \/ to = "look",
           cnt' = 1 /\ to \in {"failed", "asleep"} => pc[t] = "failed" /\ to = "asleep",
           cnt' = 1 /\ pc[t] = "look" => to = "through" \/ waiters = 0,
           cnt' = 1 /\ pc[t] = "through" => to = "wake" /\ \A u \in Threads : pc[u] # "failed",
           cnt' = 1 /\ pc[t] = "wake" => \A u \in Threads : pc[u] # "asleep",
           cnt' = 1 /\ pc[t] = "awake" => to = "retry",
           cnt' = 1 => pc[t] # "retry"
    PROVE  LwmWaits'
  <1>1. pc' = [pc EXCEPT ![t] = to] /\ pc \in [Threads -> LwmPlaces] /\ waiters \in Int
    BY DEF Goto, LwmWaits, LwmTypeOK
  <1>2. LwmCounted'
    <2>1. Cardinality(Callers(InSlowPath)') =
             Cardinality(Callers(InSlowPath)) + (IF to \in InSlowPath THEN 1 ELSE 0)
                                              - (IF pc[t] \in InSlowPath THEN 1 ELSE 0)
      BY <1>1, GotoCounts
    <2>2. Callers(InSlowPath') = Callers(InSlowPath) /\ InSlowPath' = InSlowPath
      BY DEF InSlowPath
    <2> QED BY <2>1, <2>2 DEF LwmWaits, LwmCounted
  <1>3. waiters = 0 => \A u \in Threads : pc[u] \notin InSlowPath
    <2>1. waiters = 0 => Callers(InSlowPath) = {}
      BY CallersCount DEF LwmWaits, LwmCounted
    <2> QED BY <2>1 DEF Callers
  <1>4. LwmSeen'
    <2> SUFFICES ASSUME cnt' = 1, NEW u \in Threads, pc'[u] = "failed"
                 PROVE  \E v \in Threads : pc'[v] \in {"look", "through"}
      BY DEF LwmSeen
    <2>1. u # t /\ pc[u] = "failed"
      BY <1>1
    <2>2. CASE to = "look"
      BY <1>1, <2>2
    <2>3. CASE to # "look"
      <3>1. PICK v \in Threads : pc[v] \in {"look", "through"}
        BY <2>1, <2>3 DEF LwmWaits, LwmSeen
      <3>2. CASE v # t
        BY <1>1, <3>1, <3>2
      <3>3. CASE v = t
        BY <1>1, <1>3, <2>1, <3>1, <3>3 DEF InSlowPath
      <3> QED BY <3>2, <3>3
    <2> QED BY <2>2, <2>3
  <1>5. LwmCovered'
    <2> SUFFICES ASSUME cnt' = 1, NEW u \in Threads, pc'[u] = "asleep"
                 PROVE  \E v \in Threads : pc'[v] \in {"look", "through", "wake", "awake", "retry"}
      BY DEF LwmCovered
    <2>1. CASE to = "look"
      BY <1>1, <2>1
    <2>2. CASE to # "look"
      <3>1. PICK v \in Threads : pc[v] \in {"look", "through", "wake", "awake", "retry"}
        BY <1>1, <2>2 DEF LwmWaits, LwmSeen, LwmCovered
      <3>2. CASE v # t
        BY <1>1, <3>1, <3>2
      <3>3. CASE v = t
        <4>1. u # t /\ pc[u] = "asleep"
          BY <1>1, <3>1, <3>3
        <4> QED BY <1>1, <1>3, <3>1, <3>3, <4>1 DEF InSlowPath
      <3> QED BY <3>2, <3>3
    <2> QED BY <2>1, <2>2
  <1> QED BY <1>2, <1>4, <1>5 DEF LwmWaits

LEMMA LwmWaitsStep == LwmWaits /\ [LwmNext]_lwmVars => LwmWaits'
  <1> SUFFICES ASSUME LwmWaits, [LwmNext]_lwmVars PROVE LwmWaits'
    OBVIOUS
  <1>1. pc \in [Threads -> LwmPlaces] /\ waiters \in Int /\ cnt \in {0, 1} /\ LwmTypeOK'
    BY LwmTyped DEF LwmWaits, LwmTypeOK
  <1>2. ASSUME UNCHANGED <<pc, cnt, waiters>> PROVE LwmWaits'
    BY <1>1, <1>2 DEF LwmWaits, LwmCounted, LwmSeen, LwmCovered, Callers, InSlowPath
  <1>3. CASE UNCHANGED lwmVars
    BY <1>2, <1>3 DEF lwmVars
  <1>4. CASE sys_lwmutex_create
    <2>1. \A t \in Threads : pc[t] \in {"idle", "dead"} /\ pc'[t] = "idle"
      BY <1>4 DEF sys_lwmutex_create, Callers
    <2>2. Callers(InSlowPath) = {} /\ Callers(InSlowPath)' = {} /\ waiters' = waiters
      BY <1>4, <2>1 DEF Callers, InSlowPath, sys_lwmutex_create
    <2>3. LwmSeen' /\ LwmCovered'
      BY <2>1 DEF LwmSeen, LwmCovered
    <2> QED BY <1>1, <2>2, <2>3 DEF LwmWaits, LwmCounted
  <1>5. ASSUME NEW t \in Threads, NEW to \in {"stamp", "got"}, lwm_try(t, to),
               to = "got" <=> pc[t] \in InSlowPath
        PROVE  LwmWaits'
    BY <1>1, <1>5, LwmMoves DEF lwm_try, LwmPlaces, InSlowPath
  <1>6. ASSUME NEW t \in Threads, LwmCall(t) PROVE LwmWaits'
    <2>1. CASE Relocks(t) \/ \E u \in Threads : HandsOver(t, u)
      BY <1>2, <2>1 DEF Relocks, HandsOver
    <2>2. CASE sys_lwmutex_lock(t)
      <3>1. CASE Calls(t) /\ lwm_try(t, "stamp")
        BY <1>5, <3>1 DEF Calls, At, InSlowPath
      <3>2. CASE cnt = 0 /\ Step(t, "idle", "spin")
        BY <1>1, <3>2, LwmMoves DEF Step, Moves, At, LwmPlaces, InSlowPath
      <3> QED BY <2>1, <2>2, <3>1, <3>2 DEF sys_lwmutex_lock
    <2>3. CASE sys_lwmutex_trylock(t)
      BY <1>5, <2>1, <2>3 DEF sys_lwmutex_trylock, Calls, At, InSlowPath
    <2>4. CASE sys_lwmutex_unlock(t)
      <3>1. CASE pc' = pc
        BY <1>2, <2>4, <3>1 DEF sys_lwmutex_unlock
      <3>2. CASE Goto(t, "give")
        BY <1>1, <2>4, <3>2, LwmMoves DEF sys_lwmutex_unlock, At, LwmPlaces, InSlowPath
      <3> QED BY <2>4, <3>1, <3>2 DEF sys_lwmutex_unlock
    <2>5. CASE sys_lwcond_wait(t)
      BY <1>1, <2>5, LwmMoves DEF sys_lwcond_wait, At, LwmPlaces, InSlowPath
    <2>6. CASE Exits(t)
      BY <1>1, <2>6, LwmMoves DEF Exits, Moves, At, LwmPlaces, InSlowPath
    <2> QED BY <1>6, <2>1, <2>2, <2>3, <2>4, <2>5, <2>6 DEF LwmCall
  <1>7. ASSUME NEW t \in Threads, LwmRun(t) PROVE LwmWaits'
    <2>1. CASE Stamps(t)
      BY <1>1, <2>1, LwmMoves DEF Stamps, Moves, At, LwmPlaces, InSlowPath
    <2>2. CASE Spins(t)
      <3>1. CASE lwm_try(t, "stamp")
        BY <1>5, <2>2, <3>1 DEF Spins, At, InSlowPath
      <3>2. CASE cnt = 0 /\ Step(t, "spin", "enter")
        BY <1>1, <3>2, LwmMoves DEF Step, Moves, At, LwmPlaces, InSlowPath
      <3> QED BY <2>2, <3>1, <3>2 DEF Spins
    <2>3. CASE WaitCounts(t)
      BY <1>1, <2>3, LwmMoves DEF WaitCounts, Moves, At, LwmPlaces, InSlowPath
    <2>4. CASE WaitTries(t)
      <3>1. CASE lwm_try(t, "got")
        BY <1>5, <2>4, <3>1 DEF WaitTries, At, InSlowPath
      <3>2. CASE cnt = 0 /\ Step(t, "retry", "failed")
        BY <1>1, <3>2, LwmMoves DEF Step, Moves, At, LwmPlaces, InSlowPath
      <3> QED BY <2>4, <3>1, <3>2 DEF WaitTries
    <2>5. CASE WaitSleeps(t)
      BY <1>1, <2>5, LwmMoves DEF WaitSleeps, Step, Moves, At, LwmPlaces, InSlowPath
    <2>6. CASE SleepEnds(t)
      BY <1>1, <2>6, LwmMoves DEF SleepEnds, Step, Moves, At, LwmPlaces, InSlowPath
    <2>7. CASE WaitWakes(t)
      BY <1>1, <2>7, LwmMoves DEF WaitWakes, Step, Moves, At, LwmPlaces, InSlowPath
    <2>8. CASE WaitEnds(t)
      BY <1>1, <2>8, LwmMoves DEF WaitEnds, Moves, At, LwmPlaces, InSlowPath
    <2>9. CASE ReleaseGives(t)
      BY <1>1, <2>9, LwmMoves DEF ReleaseGives, Moves, At, LwmPlaces, InSlowPath
    <2>10. CASE ReleaseLooks(t)
      BY <1>1, <2>10, LwmMoves DEF ReleaseLooks, Released, Step, Moves, At, LwmPlaces, InSlowPath
    <2>11. CASE ReleasePasses(t)
      <3>1. \A u \in Threads : pc[u] # "failed"
        BY <2>11 DEF ReleasePasses, LkFree, Callers
      <3> QED BY <1>1, <2>11, <3>1, LwmMoves DEF ReleasePasses, Step, Moves, At, LwmPlaces, InSlowPath
    <2>12. CASE ReleaseWakes(t)
      <3>1. pc[t] = "wake" /\ Released(t) \in {"spin", "idle"} /\ UNCHANGED <<cnt, waiters>>
        BY <2>12 DEF ReleaseWakes, At, Released
      <3>2. CASE Asleep = {} /\ Goto(t, Released(t))
        <4>1. \A u \in Threads : pc[u] # "asleep"
          BY <3>2 DEF Asleep, Callers
        <4> QED BY <1>1, <3>1, <3>2, <4>1, LwmMoves DEF LwmPlaces, InSlowPath
      <3>3. ASSUME NEW u \in Asleep, pc' = [pc EXCEPT ![t] = Released(t), ![u] = "awake"]
            PROVE  LwmWaits'
        <4>1. u \in Threads /\ pc[u] = "asleep" /\ u # t
          BY <3>1 DEF Asleep, Callers
        <4>2. \A v \in Threads : pc'[v] \in InSlowPath <=> pc[v] \in InSlowPath
          BY <1>1, <3>1, <3>3, <4>1 DEF InSlowPath
        <4>3. LwmCounted'
          <5>1. Callers(InSlowPath)' = Callers(InSlowPath)
            BY <4>2 DEF Callers, InSlowPath
          <5> QED BY <3>1, <5>1 DEF LwmWaits, LwmCounted
        <4>4. LwmCovered'
          BY <1>1, <3>1, <3>3, <4>1 DEF LwmCovered
        <4>5. LwmSeen'
          BY <1>1, <3>1, <3>3, <4>1 DEF LwmWaits, LwmSeen
        <4> QED BY <1>1, <4>3, <4>4, <4>5 DEF LwmWaits
      <3> QED BY <2>12, <3>2, <3>3 DEF ReleaseWakes
    <2> QED BY <1>7, <2>1, <2>2, <2>3, <2>4, <2>5, <2>6, <2>7, <2>8, <2>9, <2>10, <2>11, <2>12
            DEF LwmRun
  <1> QED BY <1>3, <1>4, <1>6, <1>7 DEF LwmNext

(* No locker sleeps on beside a free mutex: it has counted itself before   *)
(* its last try, so the release that it did not see sees it, and goes      *)
(* through lk before it wakes.                                             *)
THEOREM LwmLosesNoWake == LwmSpec => []LwmNoLostWake
  <1>1. LwmWaits => LwmNoLostWake
    BY DEF LwmWaits, LwmCovered, LwmNoLostWake, Asleep, Callers
  <1> QED BY <1>1, LwmWaitsInitial, LwmWaitsStep, PTL DEF LwmSpec

----------------------------------------------------------------------------
(* The barrier. *)

BarrierTypeOK ==
    /\ arrived \in Nat /\ phase \in Nat /\ stale \in BOOLEAN
    /\ rounds \in [Threads -> Nat] /\ old \in [Threads -> Nat]
    /\ pc \in [Threads -> {"idle", "reset", "advance", "notified", "waiting"}]

(* The thread that arrived last and has not advanced the phase yet; the    *)
(* rounds in which everybody has arrived, and who is in the one after.     *)
Openers == Callers({"reset", "advance"})
Round   == phase + (IF Openers = {} THEN 0 ELSE 1)
Early   == {t \in Threads : rounds[t] = Round + 1}

(* One thread at a time opens the barrier, and nobody is two rounds ahead. *)
RoundsInv ==
    /\ \A t, u \in Openers : t = u
    /\ \A t \in Threads : rounds[t] \in {Round, Round + 1}
    /\ \A t \in Callers({"idle", "reset", "advance"}) : rounds[t] = Round

(* arrived counts the threads in the next round, except that between the   *)
(* last arrival and the reset it counts everybody, and nobody can leave.   *)
ArrivedInv ==
    IF Callers({"reset"}) = {} THEN arrived = Cardinality(Early)
    ELSE arrived = total /\ Early = {} /\ Callers({"idle"}) = {}

(* A thread in Wait is at most one round ahead of the phase it loaded.     *)
PhaseInv ==
    \A t \in Threads : At(t, "waiting") => rounds[t] <= old[t] + 1 /\ old[t] <= phase

BarrierInv == BarrierTypeOK /\ (~stale => RoundsInv /\ ArrivedInv /\ PhaseInv)

LEMMA BarrierInitial == BarrierInit => BarrierInv
  <1> SUFFICES ASSUME BarrierInit PROVE BarrierInv
    OBVIOUS
  <1>1. Openers = {} /\ Callers({"reset"}) = {}
    BY DEF BarrierInit, NobodyCalls, Openers, Callers
  <1>2. Round = 0 /\ Early = {}
    BY <1>1 DEF BarrierInit, Round, Early
  <1>3. BarrierTypeOK
    BY DEF BarrierInit, BarrierTypeOK, NobodyCalls
  <1>4. ArrivedInv
    BY <1>1, <1>2, FS_EmptySet DEF BarrierInit, ArrivedInv
  <1> QED BY <1>1, <1>2, <1>3, <1>4
        DEF BarrierInit, BarrierInv, RoundsInv, PhaseInv, NobodyCalls, At, Callers

(* When one more makes everybody, the others have all arrived. *)
LEMMA EveryoneArrived ==
    ASSUME BarrierInv, ~stale, NEW t \in Threads, At(t, "idle")
    PROVE  /\ Callers({"reset"}) = {} /\ arrived = Cardinality(Early)
           /\ t \notin Early /\ IsFiniteSet(Early)
           /\ Cardinality(Early \cup {t}) = arrived + 1
           /\ LastArrives => Early \cup {t} = Threads
  <1>1. Callers({"reset"}) = {} /\ arrived = Cardinality(Early)
    BY DEF BarrierInv, ArrivedInv, Callers, At
  <1>2. t \notin Early
    BY DEF BarrierInv, BarrierTypeOK, RoundsInv, Early, Callers, At, Round
  <1>3. Early \subseteq Threads /\ IsFiniteSet(Early)
    BY CallersAssumption, FS_Subset DEF Early
  <1>4. Cardinality(Early \cup {t}) = arrived + 1 /\ IsFiniteSet(Early \cup {t})
    BY <1>1, <1>2, <1>3, FS_AddElement
  <1>5. ASSUME LastArrives PROVE Early \cup {t} = Threads
    <2>1. Cardinality(Early \cup {t}) <= Cardinality(Threads)
      BY <1>3, CallersAssumption, FS_Subset
    <2>2. Cardinality(Early \cup {t}) = Cardinality(Threads)
      BY <2>1, <1>4, <1>5, CallersAssumption, FS_CardinalityType
      DEF LastArrives, total, BarrierInv, BarrierTypeOK
    <2> QED BY <2>2, <1>3, CallersAssumption, FS_Subset
  <1> QED BY <1>1, <1>2, <1>3, <1>4, <1>5

LEMMA BarrierStep == BarrierInv /\ [BarrierNext]_barrierVars => BarrierInv'
  <1> SUFFICES ASSUME BarrierInv, [BarrierNext]_barrierVars PROVE BarrierInv'
    OBVIOUS
  <1> USE DEF BarrierTypeOK, At, Goto, Moves
  <1>10. BarrierTypeOK'
    <2>0. BarrierTypeOK
      BY DEF BarrierInv
    <2>1. ASSUME NEW t \in Threads, cellSyncBarrierNotify(t) PROVE BarrierTypeOK'
      BY <2>0, <2>1 DEF cellSyncBarrierNotify
    <2>2. ASSUME NEW t \in Threads, NotifyResets(t) \/ NotifyAdvances(t) PROVE BarrierTypeOK'
      BY <2>0, <2>2 DEF NotifyResets, NotifyAdvances
    <2>3. ASSUME NEW t \in Threads, cellSyncBarrierWait(t) PROVE BarrierTypeOK'
      BY <2>0, <2>3 DEF cellSyncBarrierWait
    <2>4. ASSUME NEW t \in Threads, WaitReturns(t) \/ cellSyncBarrierTryWait(t)
          PROVE  BarrierTypeOK'
      BY <2>0, <2>4 DEF WaitReturns, cellSyncBarrierTryWait
    <2>5. CASE UNCHANGED barrierVars
      BY <2>0, <2>5 DEF barrierVars
    <2> QED BY <2>1, <2>2, <2>3, <2>4, <2>5 DEF BarrierNext, BarrierRun
  <1>11. ASSUME ~stale' PROVE ~stale
    BY <1>11 DEF BarrierNext, BarrierRun, barrierVars, cellSyncBarrierNotify, NotifyResets,
                 NotifyAdvances, cellSyncBarrierWait, WaitReturns, cellSyncBarrierTryWait
  <1> SUFFICES ASSUME ~stale' PROVE BarrierInv'
    BY <1>10 DEF BarrierInv
  <1>0. BarrierTypeOK /\ RoundsInv /\ ArrivedInv /\ PhaseInv /\ ~stale
    BY <1>11 DEF BarrierInv
  <1>1. ASSUME NEW t \in Threads, cellSyncBarrierNotify(t), LastArrives PROVE BarrierInv'
    <2>1. /\ Early \cup {t} = Threads /\ Callers({"reset"}) = {} /\ arrived = Cardinality(Early)
          /\ Cardinality(Early \cup {t}) = arrived + 1 /\ t \notin Early
      BY <1>0, <1>1, EveryoneArrived DEF cellSyncBarrierNotify
    <2>2. Openers = {}
      <3>1. \A u \in Openers : rounds[u] = Round /\ u # t
        BY <1>0, <1>1 DEF RoundsInv, Openers, Callers, cellSyncBarrierNotify
      <3> QED BY <3>1, <2>1, <1>0 DEF Early, Openers, Callers, Round
    <2>3. BarrierTypeOK'
      BY <1>0, <1>1 DEF cellSyncBarrierNotify
    <2>4. Openers' = {t} /\ Callers({"reset"})' = {t}
      BY <1>0, <1>1, <2>1, <2>2 DEF cellSyncBarrierNotify, Openers, Callers
    <2>5. Round = phase /\ Round' = Round + 1
      BY <2>2, <2>4, <1>1, <1>0 DEF Round, cellSyncBarrierNotify
    <2>6. rounds[t] = Round /\ \A u \in Threads : rounds'[u] = Round'
      BY <1>0, <1>1, <2>1, <2>5 DEF RoundsInv, Early, Callers, cellSyncBarrierNotify
    <2>7. \A u \in Threads : pc'[u] # "idle"
      BY <1>0, <1>1, <2>1, <2>5 DEF RoundsInv, Early, Callers, cellSyncBarrierNotify
    <2>8. RoundsInv'
      BY <2>4, <2>6, <2>3, <2>5, <1>0 DEF RoundsInv, Callers
    <2>9. ArrivedInv'
      <3>1. Early' = {} /\ Callers({"idle"})' = {}
        BY <2>6, <2>7, <2>3, <2>5, <1>0 DEF Early, Callers
      <3> QED BY <3>1, <2>4, <2>1, <1>1 DEF ArrivedInv, total, cellSyncBarrierNotify
    <2>10. PhaseInv'
      BY <1>0, <1>1, <2>5, <2>6, <2>7 DEF PhaseInv, cellSyncBarrierNotify
    <2> QED BY <2>3, <2>8, <2>9, <2>10 DEF BarrierInv
  <1>2. ASSUME NEW t \in Threads, cellSyncBarrierNotify(t), ~LastArrives PROVE BarrierInv'
    <2>1. /\ Callers({"reset"}) = {} /\ arrived = Cardinality(Early)
          /\ Cardinality(Early \cup {t}) = arrived + 1
      BY <1>0, <1>2, EveryoneArrived DEF cellSyncBarrierNotify
    <2>2. BarrierTypeOK'
      BY <1>0, <1>2 DEF cellSyncBarrierNotify
    <2>3. Openers' = Openers /\ Callers({"reset"})' = {}
      BY <1>0, <1>2, <2>1 DEF cellSyncBarrierNotify, Openers, Callers
    <2>4. Round' = Round /\ Round \in Nat
      BY <2>3, <1>2, <1>0 DEF Round, cellSyncBarrierNotify
    <2>5. rounds[t] = Round
      BY <1>0, <1>2 DEF RoundsInv, Callers, cellSyncBarrierNotify
    <2>6. Early' = Early \cup {t}
      BY <1>0, <1>2, <2>4, <2>5 DEF Early, cellSyncBarrierNotify
    <2>7. RoundsInv'
      BY <1>0, <1>2, <2>3, <2>4, <2>5 DEF RoundsInv, Callers, cellSyncBarrierNotify
    <2>8. ArrivedInv'
      BY <2>1, <2>3, <2>6, <1>2 DEF ArrivedInv, cellSyncBarrierNotify
    <2>9. PhaseInv'
      BY <1>0, <1>2 DEF PhaseInv, cellSyncBarrierNotify
    <2> QED BY <2>2, <2>7, <2>8, <2>9 DEF BarrierInv
  <1>3. ASSUME NEW t \in Threads, NotifyResets(t) PROVE BarrierInv'
    <2>1. BarrierTypeOK'
      BY <1>0, <1>3 DEF NotifyResets
    <2>2. t \in Callers({"reset"}) /\ Early = {} /\ Callers({"idle"}) = {}
      BY <1>0, <1>3 DEF NotifyResets, Callers, ArrivedInv
    <2>3. Openers = {t} /\ Openers' = {t} /\ Callers({"reset"})' = {}
      BY <1>0, <1>3 DEF NotifyResets, Openers, Callers, RoundsInv
    <2>4. Round' = Round /\ Early' = Early
      BY <2>3, <1>3 DEF Round, Early, NotifyResets
    <2>5. RoundsInv'
      BY <1>0, <1>3, <2>3, <2>4 DEF RoundsInv, Callers, NotifyResets
    <2>6. ArrivedInv'
      BY <2>2, <2>3, <2>4, <1>3, FS_EmptySet DEF ArrivedInv, NotifyResets
    <2>7. PhaseInv'
      BY <1>0, <1>3 DEF PhaseInv, NotifyResets
    <2> QED BY <2>1, <2>5, <2>6, <2>7 DEF BarrierInv
  <1>4. ASSUME NEW t \in Threads, NotifyAdvances(t) PROVE BarrierInv'
    <2>1. BarrierTypeOK'
      BY <1>0, <1>4 DEF NotifyAdvances
    <2>2. Openers = {t} /\ Callers({"reset"}) = {} /\ Openers' = {} /\ Callers({"reset"})' = {}
      BY <1>0, <1>4 DEF NotifyAdvances, Openers, Callers, RoundsInv
    <2>3. Round' = Round
      BY <2>2, <1>4, <1>0 DEF Round, NotifyAdvances
    <2>4. Early' = Early
      BY <2>3, <1>4 DEF Early, NotifyAdvances
    <2>5. RoundsInv'
      BY <1>0, <1>4, <2>2, <2>3 DEF RoundsInv, Callers, NotifyAdvances
    <2>6. ArrivedInv'
      BY <1>0, <2>2, <2>4, <1>4 DEF ArrivedInv, NotifyAdvances
    <2>7. PhaseInv'
      BY <1>0, <1>4 DEF PhaseInv, NotifyAdvances
    <2> QED BY <2>1, <2>5, <2>6, <2>7 DEF BarrierInv
  <1>5. ASSUME NEW t \in Threads, cellSyncBarrierWait(t) PROVE BarrierInv'
    <2>1. BarrierTypeOK'
      BY <1>0, <1>5 DEF cellSyncBarrierWait
    <2>2. /\ Openers' = Openers /\ Callers({"reset"})' = Callers({"reset"})
          /\ Callers({"idle"})' = Callers({"idle"})
      BY <1>0, <1>5 DEF cellSyncBarrierWait, Openers, Callers
    <2>3. Round' = Round /\ Early' = Early
      BY <2>2, <1>5 DEF Round, Early, cellSyncBarrierWait
    <2>5. RoundsInv'
      BY <1>0, <1>5, <2>2, <2>3 DEF RoundsInv, Callers, cellSyncBarrierWait
    <2>6. ArrivedInv'
      BY <1>0, <2>2, <2>3, <1>5 DEF ArrivedInv, total, cellSyncBarrierWait
    <2>7. PhaseInv'
      <3>1. \A u \in Openers : pc[u] = "advance" => rounds[t] <= rounds[u]
        <4>1. ~Overtakes(t)
          BY <1>5, Zenon DEF cellSyncBarrierWait
        <4> QED BY <4>1, <1>0 DEF Overtakes, Openers, Callers
      <3>2. rounds[t] <= phase + 1
        BY <1>0, <3>1 DEF RoundsInv, ArrivedInv, Round, Early, Openers, Callers
      <3> QED BY <1>0, <1>5, <3>2 DEF PhaseInv, cellSyncBarrierWait
    <2> QED BY <2>1, <2>5, <2>6, <2>7 DEF BarrierInv
  <1>6. ASSUME NEW t \in Threads, pc[t] \in {"notified", "waiting"}, Goto(t, "idle"),
               UNCHANGED <<arrived, phase, rounds, old, stale>>,
               rounds[t] = Round, Callers({"reset"}) = {}
        PROVE  BarrierInv'
    <2>1. BarrierTypeOK'
      BY <1>0, <1>6
    <2>2. Openers' = Openers /\ Callers({"reset"})' = {}
      BY <1>0, <1>6 DEF Openers, Callers
    <2>3. Round' = Round /\ Early' = Early
      BY <2>2, <1>6 DEF Round, Early
    <2>5. RoundsInv'
      BY <1>0, <1>6, <2>2, <2>3 DEF RoundsInv, Callers
    <2>6. ArrivedInv'
      BY <1>0, <2>2, <2>3, <1>6 DEF ArrivedInv
    <2>7. PhaseInv'
      BY <1>0, <1>6 DEF PhaseInv
    <2> QED BY <2>1, <2>5, <2>6, <2>7 DEF BarrierInv
  <1>7. ASSUME NEW t \in Threads, WaitReturns(t) PROVE BarrierInv'
    <2>1. rounds[t] <= phase
      BY <1>0, <1>7 DEF PhaseInv, WaitReturns
    <2>2. Openers = {} /\ rounds[t] = Round
      BY <1>0, <2>1 DEF RoundsInv, Round
    <2>3. Callers({"reset"}) = {}
      BY <2>2 DEF Openers, Callers
    <2> QED BY <1>6, <1>7, <2>1, <2>2, <2>3 DEF WaitReturns
  <1>8. ASSUME NEW t \in Threads, cellSyncBarrierTryWait(t) PROVE BarrierInv'
    <2>1. Callers({"reset"}) = {}
      <3>1. total # 0
        BY CallersAssumption, FS_EmptySet DEF total
      <3> QED BY <3>1, <1>0, <1>8 DEF ArrivedInv, cellSyncBarrierTryWait
    <2>2. Early = {}
      <3>1. Cardinality(Early) = 0
        BY <2>1, <1>0, <1>8 DEF ArrivedInv, cellSyncBarrierTryWait
      <3>2. IsFiniteSet(Early)
        BY CallersAssumption, FS_Subset DEF Early
      <3> QED BY <3>1, <3>2, FS_EmptySet
    <2>3. rounds[t] = Round
      BY <1>0, <2>2 DEF RoundsInv, Early
    <2> QED BY <1>6, <1>8, <2>1, <2>3 DEF cellSyncBarrierTryWait
  <1>9. CASE UNCHANGED barrierVars
    BY <1>9, <1>0 DEF barrierVars, BarrierInv, RoundsInv, ArrivedInv, PhaseInv,
                      Round, Early, Openers, Callers, total
  <1> QED BY <1>1, <1>2, <1>3, <1>4, <1>5, <1>7, <1>8, <1>9 DEF BarrierNext, BarrierRun

(* The invariant along which the barrier's rounds stay apart, whichever of *)
(* Wait and TryWait a thread uses in a round: between the reset of arrived *)
(* and the advance of phase TryWait lets threads into the next round, and  *)
(* all is well until one of them loads the phase there in a Wait.          *)
THEOREM BarrierInvariant == BarrierSpec => []BarrierInv
  BY BarrierInitial, BarrierStep, PTL DEF BarrierSpec

(* The load of the phase in Wait before an earlier round's advance is the  *)
(* only way in which a thread of any number gets through a round that not  *)
(* everybody has entered (cellSyncBarrierNotify, Wait and TryWait).        *)
THEOREM BarrierKeepsRounds == BarrierSpec => []BarrierHoldsUntilStale
  <1>1. BarrierInv => BarrierHoldsUntilStale
    <2> SUFFICES ASSUME BarrierInv, ~stale, NEW t \in Threads, NEW u \in Threads, At(t, "idle")
                 PROVE  rounds[t] <= rounds[u]
      BY DEF BarrierHolds, BarrierHoldsUntilStale
    <2>1. Round \in Nat
      BY DEF BarrierInv, BarrierTypeOK, Round
    <2> QED BY <2>1 DEF BarrierInv, RoundsInv, BarrierTypeOK, Callers, At
  <1> QED BY <1>1, BarrierInvariant, PTL
=============================================================================
