------------------------- MODULE SysSemaphoreProofs -------------------------
(***************************************************************************)
(* For every number of threads and semaphores: the counts of               *)
(* sys_semaphore.c stay in range and no wake-up of a sleeping waiter is    *)
(* lost.                                                                   *)
(*                                                                         *)
(* The argument counts.  One thread moves in a step, so the size of each   *)
(* set of threads (and of the set of pending tokens) changes by what that  *)
(* thread contributes (lemma Moved); after that every action is arithmetic *)
(* on a handful of integers.                                               *)
(***************************************************************************)
EXTENDS SysSemaphore, FiniteSetTheorems, TLAPS

(* The inductive invariant. *)

TargetInv ==
    \A t \in Threads :
        /\ ~Idle(t) => tgt[t] \in Semaphores
        /\ pc[t] = "post" => count[t] \in Counts

(* The tokens that posts have yet to release: one pair for each. *)
Pending(s) ==
    {p \in Threads \X (1 .. IntMax) :
        pc[p[1]] = "release" /\ tgt[p[1]] = s /\ p[2] <= wake[p[1]]}

(* As many of the threads in the wait loop as there are units for are      *)
(* awake, or have a token, or are owed one.                                *)
TokensSuffice(s) ==
    LET coming == tokens[s] + Cardinality(Pending(s)) + Cardinality(Awake(s)) IN
        \/ value[s] <= coming
        \/ Cardinality(Asleep(s)) + Cardinality(Awake(s)) <= coming

WakeInv == \A s \in Semaphores : active[s] /\ ~tainted[s] => TokensSuffice(s)

(* Everything above at once, inductive. *)
IInv == TypeOK /\ TargetInv /\ WaitersCounted /\ WakeInv

----------------------------------------------------------------------------
(* Next, one disjunct per action. *)
Step(t) ==
    \/ \E s \in Semaphores, max_val \in MaxValues, made \in BOOLEAN :
          \E initial \in 0 .. max_val : sys_semaphore_create(t, s, initial, max_val, made)
    \/ \E s \in Semaphores : \E sleeping \in SUBSET Asleep(s) :
          sys_semaphore_destroy(t, s, sleeping)
    \/ \E s \in Semaphores, timed \in BOOLEAN : sys_semaphore_wait(t, s, timed)
    \/ \E s \in Semaphores : sys_semaphore_trywait(t, s)
    \/ \E s \in Semaphores, n \in Counts : sys_semaphore_post(t, s, n)
    \/ WaitTakes(t) \/ WaitExpires(t) \/ WaitParks(t) \/ WaitUnparks(t)
    \/ TryEnds(t) \/ PostRefused(t) \/ PostAdds(t) \/ PostReleases(t)
    \/ WaitTokenTaken(t) \/ WaitSliceOver(t) \/ DeadlinePasses(t)

(* Every step of the system is one of these actions of one thread. *)
LEMMA NextIsStep == Next <=> \E t \in Threads : Step(t)
BY Zenon DEF Next, Call, Run, Step

(* A call finds its semaphore in range wherever it is, and every variable  *)
(* keeps its type.                                                         *)
LEMMA TypeStep ==
    ASSUME TypeOK, TargetInv, NEW t \in Threads, Step(t)
    PROVE  TypeOK' /\ TargetInv'
<1> USE BoundsAssumption DEF TypeOK, TargetInv, PcValues, Idle, Go, Return, Holds, slotVars, locals
<1>1. CASE \E s \in Semaphores, max_val \in MaxValues, made \in BOOLEAN :
              \E initial \in 0 .. max_val : sys_semaphore_create(t, s, initial, max_val, made)
  BY <1>1 DEF sys_semaphore_create
<1>2. CASE \E s \in Semaphores : \E sleeping \in SUBSET Asleep(s) :
              sys_semaphore_destroy(t, s, sleeping)
  BY <1>2 DEF sys_semaphore_destroy
<1>3. CASE \E s \in Semaphores, timed \in BOOLEAN : sys_semaphore_wait(t, s, timed)
  BY <1>3 DEF sys_semaphore_wait
<1>4. CASE \E s \in Semaphores : sys_semaphore_trywait(t, s)
  BY <1>4 DEF sys_semaphore_trywait
<1>5. CASE \E s \in Semaphores, n \in Counts : sys_semaphore_post(t, s, n)
  BY <1>5 DEF sys_semaphore_post
<1>6. CASE WaitTakes(t)
  <2>1. tgt[t] \in Semaphores
    BY <1>6 DEF WaitTakes, Entering
  <2>2. PICK s \in Semaphores : s = tgt[t]
    BY <2>1
  <2>3. value' \in [Semaphores -> Int]
    BY <1>6, <2>2 DEF WaitTakes, Entering
  <2>4. QED
    BY <1>6, <2>3 DEF WaitTakes, Entering
<1>7. CASE WaitExpires(t)
  BY <1>7 DEF WaitExpires, Entering
<1>8. CASE WaitParks(t)
  <2>1. tgt[t] \in Semaphores
    BY <1>8 DEF WaitParks, Entering
  <2>2. PICK s \in Semaphores : s = tgt[t]
    BY <2>1
  <2>3. waiters' \in [Semaphores -> Nat]
    BY <1>8, <2>2 DEF WaitParks, Entering
  <2>4. QED
    BY <1>8, <2>3 DEF WaitParks, Entering
<1>9. CASE WaitUnparks(t)
  <2>1. tgt[t] \in Semaphores
    BY <1>9 DEF WaitUnparks
  <2>2. PICK s \in Semaphores : s = tgt[t]
    BY <2>1
  <2>3. waiters' \in [Semaphores -> Nat]
    BY <1>9, <2>2 DEF WaitUnparks
  <2>4. QED
    BY <1>9, <2>3 DEF WaitUnparks
<1>10. CASE TryEnds(t)
  <2>1. tgt[t] \in Semaphores
    BY <1>10 DEF TryEnds
  <2>2. PICK s \in Semaphores : s = tgt[t]
    BY <2>1
  <2>3. value' \in [Semaphores -> Int]
    BY <1>10, <2>2 DEF TryEnds
  <2>4. QED
    BY <1>10, <2>3 DEF TryEnds
<1>11. CASE PostRefused(t)
  BY <1>11 DEF PostRefused
<1>12. CASE PostAdds(t)
  <2> DEFINE s == tgt[t]
             w == WakeCount(count[t], waiters[s])
  <2>1. s \in Semaphores /\ count[t] \in 1 .. IntMax /\ waiters[s] \in Nat /\ value[s] \in Int
    BY <1>12 DEF PostAdds
  <2>2. w \in 0 .. IntMax
    <3>1. CASE count[t] < waiters[s]
      BY <2>1, <3>1 DEF WakeCount
    <3>2. CASE ~(count[t] < waiters[s])
      BY <2>1, <3>2 DEF WakeCount
    <3>3. QED
      BY <3>1, <3>2
  <2>3. Wrap32(value[s] + count[t]) \in Int
    BY <2>1 DEF Wrap32
  <2> HIDE DEF w
  <2>4. QED
    BY <1>12, <2>1, <2>2, <2>3 DEF PostAdds, w
<1>13. CASE PostReleases(t)
  <2>1. tgt[t] \in Semaphores
    BY <1>13 DEF PostReleases
  <2>2. PICK s \in Semaphores : s = tgt[t]
    BY <2>1
  <2>3. tokens' \in [Semaphores -> Nat]
    BY <1>13, <2>2 DEF PostReleases
  <2>4. QED
    BY <1>13, <2>3 DEF PostReleases
<1>14. CASE WaitTokenTaken(t)
  <2>1. tgt[t] \in Semaphores
    BY <1>14 DEF WaitTokenTaken
  <2>2. PICK s \in Semaphores : s = tgt[t]
    BY <2>1
  <2>3. tokens' \in [Semaphores -> Nat]
    BY <1>14, <2>2 DEF WaitTokenTaken
  <2>4. QED
    BY <1>14, <2>3 DEF WaitTokenTaken
<1>15. CASE WaitSliceOver(t)
  BY <1>15 DEF WaitSliceOver
<1>16. CASE DeadlinePasses(t)
  BY <1>16 DEF DeadlinePasses
<1>17. QED
  BY <1>1, <1>2, <1>3, <1>4, <1>5, <1>6, <1>7, <1>8, <1>9, <1>10, <1>11, <1>12, <1>13,
     <1>14, <1>15, <1>16 DEF Step

----------------------------------------------------------------------------
Bit(b) == IF b THEN 1 ELSE 0

(* The sets of threads inside sys_semaphore_wait and the tokens owed are   *)
(* finite.                                                                 *)
LEMMA SetsFinite ==
    ASSUME NEW s
    PROVE  /\ IsFiniteSet(Asleep(s)) /\ IsFiniteSet(Asleep(s) \cup Woken(s))
           /\ IsFiniteSet(Awake(s)) /\ IsFiniteSet(Pending(s))
<1>1. Asleep(s) \in SUBSET Threads /\ Asleep(s) \cup Woken(s) \in SUBSET Threads
      /\ Awake(s) \in SUBSET Threads
  BY Zenon DEF Asleep, Woken, Awake
<1>2. IsFiniteSet(Threads \X (1 .. IntMax))
  <2>1. IsFiniteSet(1 .. IntMax)
    BY BoundsAssumption, FS_Interval
  <2>2. QED
    BY <2>1, ThreadsAssumption, FS_Product
<1>3. Pending(s) \in SUBSET (Threads \X (1 .. IntMax))
  BY Zenon DEF Pending
<1>4. IsFiniteSet(Pending(s))
  BY <1>2, <1>3, FS_Subset
<1>5. \A T \in SUBSET Threads : IsFiniteSet(T)
  BY ThreadsAssumption, FS_Subset
<1>6. QED
  BY <1>1, <1>4, <1>5

(* A set that differs from another at most in x has the size that x's      *)
(* coming or going gives it.                                               *)
LEMMA OneMember ==
    ASSUME NEW S, NEW T, NEW x, IsFiniteSet(S), IsFiniteSet(T),
           \A y : y # x => (y \in S <=> y \in T)
    PROVE  Cardinality(T) = Cardinality(S) + Bit(x \in T) - Bit(x \in S)
<1>1. Cardinality(S) \in Nat /\ Cardinality(T) \in Nat
  BY FS_CardinalityType
<1>2. CASE x \in T
  <2>1. T = S \cup {x}
    BY <1>2
  <2>2. Cardinality(T) = IF x \in S THEN Cardinality(S) ELSE Cardinality(S) + 1
    BY <2>1, FS_AddElement
  <2>3. QED
    BY <1>1, <1>2, <2>2 DEF Bit
<1>3. CASE x \notin T
  <2>1. T = S \ {x}
    BY <1>3
  <2>2. Cardinality(T) = IF x \in S THEN Cardinality(S) - 1 ELSE Cardinality(S)
    BY <2>1, FS_RemoveElement
  <2>3. QED
    BY <1>1, <1>3, <2>2 DEF Bit
<1>4. QED
  BY <1>2, <1>3

(* The pairs of one thread are as many as the tokens it is to release. *)
LEMMA PairsOf ==
    ASSUME NEW t, NEW n \in Nat
    PROVE  IsFiniteSet({t} \X (1 .. n)) /\ Cardinality({t} \X (1 .. n)) = n
<1>1. IsFiniteSet({t}) /\ Cardinality({t}) = 1
  BY FS_Singleton
<1>2. IsFiniteSet(1 .. n) /\ Cardinality(1 .. n) = n
  BY FS_Interval
<1>3. Cardinality({t} \X (1 .. n)) = 1 * n
  BY <1>1, <1>2, FS_Product
<1>4. QED
  BY <1>1, <1>2, <1>3, FS_Product, SMTT(20)

(* The tokens pending on a semaphore without those of thread t. *)
Rest(t, s) == {p \in Pending(s) : p[1] # t}

Owes(t, s) == IF pc[t] = "release" /\ tgt[t] = s THEN wake[t] ELSE 0

(* The tokens pending are those of t and those of the others. *)
LEMMA PendingSplit ==
    ASSUME TypeOK, NEW t \in Threads, NEW s
    PROVE  /\ IsFiniteSet(Rest(t, s))
           /\ Cardinality(Pending(s)) = Cardinality(Rest(t, s)) + Owes(t, s)
<1>1. IsFiniteSet(Pending(s)) /\ Rest(t, s) \in SUBSET Pending(s)
  BY SetsFinite DEF Rest
<1>2. IsFiniteSet(Rest(t, s)) /\ Cardinality(Rest(t, s)) \in Nat
  BY <1>1, FS_Subset, FS_CardinalityType
<1>3. CASE pc[t] = "release" /\ tgt[t] = s
  <2>1. wake[t] \in 0 .. IntMax /\ wake[t] \in Nat
    BY BoundsAssumption DEF TypeOK
  <2> DEFINE own == {t} \X (1 .. wake[t])
  <2>2. IsFiniteSet(own) /\ Cardinality(own) = wake[t]
    BY <2>1, PairsOf
  <2>3. Pending(s) = Rest(t, s) \cup own
    BY <1>3, <2>1, BoundsAssumption DEF Pending, Rest
  <2>4. Rest(t, s) \cap own = {}
    BY DEF Rest
  <2>5. Cardinality(Rest(t, s) \cap own) = 0
    BY <2>4, FS_EmptySet
  <2> HIDE DEF own
  <2>6. Cardinality(Pending(s)) = Cardinality(Rest(t, s)) + wake[t] - 0
    BY <1>2, <2>2, <2>3, <2>5, FS_Union
  <2>7. QED
    BY <1>2, <1>3, <2>1, <2>6 DEF Owes
<1>4. CASE ~(pc[t] = "release" /\ tgt[t] = s)
  <2>1. Pending(s) = Rest(t, s)
    BY <1>4 DEF Pending, Rest
  <2>2. QED
    BY <1>2, <1>4, <2>1 DEF Owes
<1>5. QED
  BY <1>2, <1>3, <1>4

PendingSizes ==
    \A t \in Threads, s \in Semaphores :
        /\ IsFiniteSet(Asleep(s)) /\ IsFiniteSet(Asleep(s) \cup Woken(s)) /\ IsFiniteSet(Awake(s))
        /\ IsFiniteSet(Rest(t, s))
        /\ Cardinality(Pending(s)) = Cardinality(Rest(t, s)) + Owes(t, s)

(* The same for this state and the next one. *)
LEMMA Sizes == TypeOK /\ TypeOK' => PendingSizes /\ PendingSizes'
<1>1. TypeOK => PendingSizes
  BY SetsFinite, PendingSplit DEF PendingSizes
<1>2. QED
  BY <1>1, PTL

(* What thread t adds to the three sets of threads of semaphore s. *)
IsAsleep(t, s)  == Bit(pc[t] = "asleep" /\ tgt[t] = s)
IsCounted(t, s) == Bit(pc[t] \in {"asleep", "woken"} /\ tgt[t] = s)
IsAwake(t, s)   == Bit(pc[t] \in {"woken", "again"} /\ tgt[t] = s)

OnlyMoves(t) ==
    \A u \in Threads : u # t => pc'[u] = pc[u] /\ tgt'[u] = tgt[u] /\ wake'[u] = wake[u]

(* When only thread t moves, each size changes by what t contributes. *)
LEMMA Moved ==
    ASSUME TypeOK, TypeOK', NEW t \in Threads, NEW s \in Semaphores,
           OnlyMoves(t)
    PROVE  /\ Cardinality(Asleep(s)') = Cardinality(Asleep(s)) + IsAsleep(t, s)' - IsAsleep(t, s)
           /\ Cardinality((Asleep(s) \cup Woken(s))') =
                 Cardinality(Asleep(s) \cup Woken(s)) + IsCounted(t, s)' - IsCounted(t, s)
           /\ Cardinality(Awake(s)') = Cardinality(Awake(s)) + IsAwake(t, s)' - IsAwake(t, s)
           /\ Cardinality(Pending(s)') = Cardinality(Pending(s)) + Owes(t, s)' - Owes(t, s)
           /\ Cardinality(Asleep(s)) \in Nat /\ Cardinality(Awake(s)) \in Nat
           /\ Cardinality(Pending(s)) \in Nat /\ Cardinality(Asleep(s) \cup Woken(s)) \in Nat
           /\ Cardinality(Asleep(s)) <= Cardinality(Asleep(s) \cup Woken(s))
           /\ Cardinality((Asleep(s) \cup Woken(s))') \in Nat /\ Cardinality(Awake(s)') \in Nat
<1>1. /\ IsFiniteSet(Asleep(s)) /\ IsFiniteSet(Asleep(s) \cup Woken(s)) /\ IsFiniteSet(Awake(s))
      /\ IsFiniteSet(Asleep(s)') /\ IsFiniteSet((Asleep(s) \cup Woken(s))')
      /\ IsFiniteSet(Awake(s)') /\ IsFiniteSet(Rest(t, s))
      /\ Cardinality(Pending(s)) = Cardinality(Rest(t, s)) + Owes(t, s)
      /\ Cardinality(Pending(s)') = Cardinality(Rest(t, s)') + Owes(t, s)'
  BY Sizes DEF PendingSizes
<1>2. Cardinality(Asleep(s)') = Cardinality(Asleep(s)) + IsAsleep(t, s)' - IsAsleep(t, s)
  <2>1. \A y : y # t => (y \in Asleep(s) <=> y \in Asleep(s)')
    BY DEF OnlyMoves, Asleep
  <2>2. (t \in Asleep(s) <=> pc[t] = "asleep" /\ tgt[t] = s)
        /\ (t \in Asleep(s)' <=> pc'[t] = "asleep" /\ tgt'[t] = s)
    BY DEF Asleep
  <2>3. Cardinality(Asleep(s)') = Cardinality(Asleep(s)) + Bit(t \in Asleep(s)')
                                                       - Bit(t \in Asleep(s))
    BY <1>1, <2>1, OneMember
  <2>4. QED
    BY <2>2, <2>3 DEF IsAsleep, Bit
<1>3. Cardinality((Asleep(s) \cup Woken(s))') =
         Cardinality(Asleep(s) \cup Woken(s)) + IsCounted(t, s)' - IsCounted(t, s)
  <2> DEFINE S == Asleep(s) \cup Woken(s)
  <2>1. \A y : y # t => (y \in S <=> y \in S')
    BY DEF OnlyMoves, Asleep, Woken
  <2>2. (t \in S <=> pc[t] \in {"asleep", "woken"} /\ tgt[t] = s)
        /\ (t \in S' <=> pc'[t] \in {"asleep", "woken"} /\ tgt'[t] = s)
    BY DEF Asleep, Woken
  <2>3. Cardinality(S') = Cardinality(S) + Bit(t \in S') - Bit(t \in S)
    BY <1>1, <2>1, OneMember
  <2>4. QED
    BY <2>2, <2>3 DEF IsCounted, Bit
<1>4. Cardinality(Awake(s)') = Cardinality(Awake(s)) + IsAwake(t, s)' - IsAwake(t, s)
  <2>1. \A y : y # t => (y \in Awake(s) <=> y \in Awake(s)')
    BY DEF OnlyMoves, Awake
  <2>2. (t \in Awake(s) <=> pc[t] \in {"woken", "again"} /\ tgt[t] = s)
        /\ (t \in Awake(s)' <=> pc'[t] \in {"woken", "again"} /\ tgt'[t] = s)
    BY DEF Awake
  <2>3. Cardinality(Awake(s)') = Cardinality(Awake(s)) + Bit(t \in Awake(s)')
                                                     - Bit(t \in Awake(s))
    BY <1>1, <2>1, OneMember
  <2>4. QED
    BY <2>2, <2>3 DEF IsAwake, Bit
<1>5. Rest(t, s)' = Rest(t, s)
  BY DEF OnlyMoves, Rest, Pending
<1>6. Owes(t, s) \in Nat /\ Owes(t, s)' \in Nat
  BY BoundsAssumption DEF TypeOK, Owes
<1>7. Cardinality(Rest(t, s)) \in Nat
  BY <1>1, FS_CardinalityType
<1>8. Cardinality(Pending(s)') = Cardinality(Pending(s)) + Owes(t, s)' - Owes(t, s)
  BY <1>1, <1>5, <1>6, <1>7
<1>9. /\ Cardinality(Asleep(s)) \in Nat /\ Cardinality(Awake(s)) \in Nat
      /\ Cardinality(Asleep(s) \cup Woken(s)) \in Nat
      /\ Cardinality((Asleep(s) \cup Woken(s))') \in Nat /\ Cardinality(Awake(s)') \in Nat
  BY <1>1, FS_CardinalityType
<1>10. Cardinality(Pending(s)) \in Nat
  BY <1>1, <1>6, <1>7
<1>11. Cardinality(Asleep(s)) <= Cardinality(Asleep(s) \cup Woken(s))
  BY <1>1, FS_Subset
<1>12. QED
  BY <1>2, <1>3, <1>4, <1>8, <1>9, <1>10, <1>11

(* A step moves one thread's call only: no syscall touches another's. *)
LEMMA OthersStill ==
    ASSUME TypeOK, NEW t \in Threads, Step(t)
    PROVE  OnlyMoves(t)
<1> USE DEF TypeOK, OnlyMoves, Go, Return, slotVars, locals
<1>1. CASE \E z \in Semaphores, max_val \in MaxValues, made \in BOOLEAN :
              \E initial \in 0 .. max_val : sys_semaphore_create(t, z, initial, max_val, made)
  BY <1>1 DEF sys_semaphore_create
<1>2. CASE \E z \in Semaphores : \E sleeping \in SUBSET Asleep(z) :
              sys_semaphore_destroy(t, z, sleeping)
  BY <1>2 DEF sys_semaphore_destroy
<1>3. CASE \E z \in Semaphores, timed \in BOOLEAN : sys_semaphore_wait(t, z, timed)
  BY <1>3 DEF sys_semaphore_wait
<1>4. CASE \E z \in Semaphores : sys_semaphore_trywait(t, z)
  BY <1>4 DEF sys_semaphore_trywait
<1>5. CASE \E z \in Semaphores, n \in Counts : sys_semaphore_post(t, z, n)
  BY <1>5 DEF sys_semaphore_post
<1>6. CASE WaitTakes(t)
  BY <1>6 DEF WaitTakes
<1>7. CASE WaitExpires(t)
  BY <1>7 DEF WaitExpires
<1>8. CASE WaitParks(t)
  BY <1>8 DEF WaitParks
<1>9. CASE WaitUnparks(t)
  BY <1>9 DEF WaitUnparks
<1>10. CASE TryEnds(t)
  BY <1>10 DEF TryEnds
<1>11. CASE PostRefused(t)
  BY <1>11 DEF PostRefused
<1>12. CASE PostAdds(t)
  BY <1>12 DEF PostAdds
<1>13. CASE PostReleases(t)
  BY <1>13 DEF PostReleases
<1>14. CASE WaitTokenTaken(t)
  BY <1>14 DEF WaitTokenTaken
<1>15. CASE WaitSliceOver(t)
  BY <1>15 DEF WaitSliceOver
<1>16. CASE DeadlinePasses(t)
  BY <1>16 DEF DeadlinePasses
<1>17. QED
  BY <1>1, <1>2, <1>3, <1>4, <1>5, <1>6, <1>7, <1>8,
     <1>9, <1>10, <1>11, <1>12, <1>13, <1>14, <1>15, <1>16 DEF Step

Counted(s) ==
    /\ ~tainted[s] => waiters[s] = Cardinality(Asleep(s) \cup Woken(s))
    /\ active[s] /\ ~tainted[s] => TokensSuffice(s)

(* Every action keeps waiters exact and leaves enough tokens on the way. *)
LEMMA CountStep ==
    ASSUME IInv, TypeOK', NEW t \in Threads, Step(t), NEW s \in Semaphores
    PROVE  Counted(s)'
<1>1. TypeOK /\ TargetInv /\ Counted(s)
  BY DEF IInv, WaitersCounted, WakeInv, Counted
<1>2. OnlyMoves(t)
  BY <1>1, OthersStill
<1> DEFINE a  == Cardinality(Asleep(s))
           c  == Cardinality(Asleep(s) \cup Woken(s))
           w  == Cardinality(Awake(s))
           p  == Cardinality(Pending(s))
<1>3. /\ a' = a + IsAsleep(t, s)' - IsAsleep(t, s) /\ c' = c + IsCounted(t, s)' - IsCounted(t, s)
      /\ w' = w + IsAwake(t, s)' - IsAwake(t, s) /\ p' = p + Owes(t, s)' - Owes(t, s)
      /\ a \in Nat /\ c \in Nat /\ w \in Nat /\ p \in Nat /\ a <= c
      /\ c' \in Nat /\ w' \in Nat
  BY <1>1, <1>2, Moved
<1>4. /\ ~tainted[s] => waiters[s] = c
      /\ active[s] /\ ~tainted[s] => value[s] <= tokens[s] + p + w \/ a + w <= tokens[s] + p + w
  BY <1>1 DEF Counted, TokensSuffice
<1>5. SUFFICES /\ ~tainted'[s] => waiters'[s] = c'
               /\ active'[s] /\ ~tainted'[s] =>
                    value'[s] <= tokens'[s] + p' + w' \/ a' + w' <= tokens'[s] + p' + w'
  BY DEF Counted, TokensSuffice
<1> HIDE DEF a, c, w, p
<1>6. /\ value[s] \in Int /\ waiters[s] \in Nat /\ tokens[s] \in Nat /\ wake[t] \in Nat
  BY <1>1, BoundsAssumption DEF TypeOK
<1> USE DEF IsAsleep, IsCounted, IsAwake, Owes, Bit, TypeOK, TargetInv, Idle, Go, Return,
            slotVars, locals
<1>7. CASE \E z \in Semaphores, max_val \in MaxValues, made \in BOOLEAN :
              \E initial \in 0 .. max_val : sys_semaphore_create(t, z, initial, max_val, made)
  <2>1. PICK z \in Semaphores, max_val \in MaxValues, made \in BOOLEAN :
                \E initial \in 0 .. max_val : sys_semaphore_create(t, z, initial, max_val, made)
    BY <1>7
  <2>2. a' = a /\ c' = c /\ w' = w /\ p' = p
    BY <1>1, <1>3, <1>6, <2>1 DEF sys_semaphore_create
  <2>3. CASE s = z
    <3>1. /\ waiters'[s] = 0 /\ tokens'[s] = 0
          /\ ~tainted'[s] => ~tainted[s] /\ ~(waiters[s] > 0)
      BY <1>1, <2>1, <2>3 DEF sys_semaphore_create
    <3>2. ~tainted'[s] => c = 0 /\ a = 0
      BY <1>3, <1>4, <1>6, <3>1
    <3>3. QED
      BY <1>3, <2>2, <3>1, <3>2
  <2>4. CASE s # z
    <3>1. /\ waiters'[s] = waiters[s] /\ tokens'[s] = tokens[s] /\ value'[s] = value[s]
          /\ active'[s] = active[s] /\ tainted'[s] = tainted[s]
      BY <1>1, <2>1, <2>4 DEF sys_semaphore_create
    <3>2. QED
      BY <1>4, <2>2, <3>1
  <2>5. QED
    BY <2>3, <2>4
<1>8. CASE \E z \in Semaphores : \E sleeping \in SUBSET Asleep(z) :
              sys_semaphore_destroy(t, z, sleeping)
  BY <1>1, <1>3, <1>4, <1>6, <1>8 DEF sys_semaphore_destroy
<1>9. CASE \E z \in Semaphores, timed \in BOOLEAN : sys_semaphore_wait(t, z, timed)
  BY <1>1, <1>3, <1>4, <1>6, <1>9 DEF sys_semaphore_wait
<1>10. CASE \E z \in Semaphores : sys_semaphore_trywait(t, z)
  BY <1>1, <1>3, <1>4, <1>6, <1>10 DEF sys_semaphore_trywait
<1>11. CASE \E z \in Semaphores, n \in Counts : sys_semaphore_post(t, z, n)
  BY <1>1, <1>3, <1>4, <1>6, <1>11 DEF sys_semaphore_post
<1>12. CASE WaitTakes(t)
  BY <1>1, <1>3, <1>4, <1>6, <1>12 DEF WaitTakes, Entering
<1>13. CASE WaitExpires(t)
  <2>1. /\ waiters'[s] = waiters[s] /\ tokens'[s] = tokens[s] /\ value'[s] = value[s]
        /\ active'[s] = active[s] /\ tainted'[s] = tainted[s]
    BY <1>13 DEF WaitExpires
  <2>2. a' = a /\ c' = c /\ p' = p
    BY <1>1, <1>3, <1>6, <1>13 DEF WaitExpires, Entering
  <2>3. CASE s = tgt[t]
    <3>1. value[s] <= 0 /\ w' \in {w, w - 1} /\ w' >= 0
      BY <1>1, <1>3, <1>13, <2>3 DEF WaitExpires, Entering
    <3>2. QED
      BY <1>3, <1>4, <1>6, <2>1, <2>2, <3>1
  <2>4. CASE s # tgt[t]
    <3>1. w' = w
      BY <1>1, <1>3, <1>13, <2>4 DEF WaitExpires, Entering
    <3>2. QED
      BY <1>4, <2>1, <2>2, <3>1
  <2>5. QED
    BY <2>3, <2>4
<1>14. CASE WaitParks(t)
  <2>1. /\ tokens'[s] = tokens[s] /\ value'[s] = value[s]
        /\ active'[s] = active[s] /\ tainted'[s] = tainted[s]
    BY <1>14 DEF WaitParks
  <2>2. p' = p
    BY <1>1, <1>3, <1>6, <1>14 DEF WaitParks, Entering
  <2>3. CASE s = tgt[t]
    <3>1. value[s] <= 0 /\ w' >= 0 /\ w' \in {w, w - 1} /\ c' = c + 1
      BY <1>1, <1>3, <1>14, <2>3 DEF WaitParks, Entering
    <3>2. waiters'[s] = waiters[s] + 1
      BY <1>1, <1>14, <2>3 DEF WaitParks
    <3>3. QED
      BY <1>3, <1>4, <1>6, <2>1, <2>2, <3>1, <3>2
  <2>4. CASE s # tgt[t]
    <3>1. a' = a /\ c' = c /\ w' = w
      BY <1>1, <1>3, <1>14, <2>4 DEF WaitParks, Entering
    <3>2. waiters'[s] = waiters[s]
      BY <1>1, <1>14, <2>4 DEF WaitParks
    <3>3. QED
      BY <1>4, <2>1, <2>2, <3>1, <3>2
  <2>5. QED
    BY <2>3, <2>4
<1>15. CASE WaitUnparks(t)
  <2>1. /\ tokens'[s] = tokens[s] /\ value'[s] = value[s]
        /\ active'[s] = active[s] /\ tainted'[s] = tainted[s]
    BY <1>15 DEF WaitUnparks
  <2>2. a' = a /\ p' = p /\ w' = w
    BY <1>1, <1>3, <1>6, <1>15 DEF WaitUnparks
  <2>3. CASE s = tgt[t]
    <3>1. c' = c - 1 /\ c' >= 0
      BY <1>1, <1>3, <1>15, <2>3 DEF WaitUnparks
    <3>2. waiters'[s] = IF waiters[s] > 0 THEN waiters[s] - 1 ELSE waiters[s]
      BY <1>1, <1>15, <2>3 DEF WaitUnparks
    <3>3. QED
      BY <1>3, <1>4, <1>6, <2>1, <2>2, <3>1, <3>2
  <2>4. CASE s # tgt[t]
    <3>1. c' = c
      BY <1>1, <1>3, <1>15, <2>4 DEF WaitUnparks
    <3>2. waiters'[s] = waiters[s]
      BY <1>1, <1>15, <2>4 DEF WaitUnparks
    <3>3. QED
      BY <1>4, <2>1, <2>2, <3>1, <3>2
  <2>5. QED
    BY <2>3, <2>4
<1>16. CASE TryEnds(t)
  BY <1>1, <1>3, <1>4, <1>6, <1>16 DEF TryEnds
<1>17. CASE PostRefused(t)
  BY <1>1, <1>3, <1>4, <1>6, <1>17 DEF PostRefused
<1>18. CASE PostAdds(t)
  <2>1. /\ tokens'[s] = tokens[s] /\ waiters'[s] = waiters[s]
        /\ active'[s] = active[s] /\ tainted'[s] = tainted[s]
    BY <1>18 DEF PostAdds
  <2>2. a' = a /\ c' = c /\ w' = w
    BY <1>1, <1>3, <1>18 DEF PostAdds
  <2>3. count[t] \in Nat
    BY <1>1, <1>18, BoundsAssumption DEF PostAdds
  <2>4. CASE s = tgt[t]
    <3> DEFINE n == WakeCount(count[t], waiters[s])
    <3>1. wake'[t] = n /\ pc'[t] = "release" /\ tgt'[t] = s /\ pc[t] = "post"
          /\ value'[s] = Wrap32(value[s] + count[t])
      BY <1>1, <1>18, <2>4 DEF PostAdds
    <3>2. Wrap32(value[s] + count[t]) <= value[s] + count[t]
          /\ Wrap32(value[s] + count[t]) \in Int
      BY <1>6, <2>3, BoundsAssumption DEF Wrap32
    <3>3. n \in Nat /\ (n = count[t] \/ n = waiters[s])
      BY <1>6, <2>3 DEF WakeCount
    <3> HIDE DEF n
    <3>4. p' = p + n
      BY <1>3, <3>1, <3>3
    <3>5. a \in Nat /\ w \in Nat /\ c \in Nat /\ p \in Nat /\ a <= c
      BY <1>3
    <3>6. CASE n = count[t]
      BY <1>4, <1>6, <2>1, <2>2, <2>3, <3>1, <3>2, <3>4, <3>5, <3>6
    <3>7. CASE n = waiters[s]
      BY <1>4, <1>6, <2>1, <2>2, <3>1, <3>2, <3>4, <3>5, <3>7
    <3>8. QED
      BY <3>3, <3>6, <3>7
  <2>5. CASE s # tgt[t]
    <3>1. value'[s] = value[s] /\ p' = p
      BY <1>1, <1>3, <1>18, <2>5 DEF PostAdds
    <3>2. QED
      BY <1>4, <2>1, <2>2, <3>1
  <2>6. QED
    BY <2>4, <2>5
<1>19. CASE PostReleases(t)
  BY <1>1, <1>3, <1>4, <1>6, <1>19 DEF PostReleases
<1>20. CASE WaitTokenTaken(t)
  BY <1>1, <1>3, <1>4, <1>6, <1>20 DEF WaitTokenTaken
<1>21. CASE WaitSliceOver(t)
  BY <1>1, <1>3, <1>4, <1>6, <1>21 DEF WaitSliceOver
<1>22. CASE DeadlinePasses(t)
  BY <1>1, <1>3, <1>4, <1>6, <1>22 DEF DeadlinePasses
<1>23. QED
  BY <1>7, <1>8, <1>9, <1>10, <1>11, <1>12, <1>13, <1>14,
     <1>15, <1>16, <1>17, <1>18, <1>19, <1>20, <1>21, <1>22 DEF Step

(* The table starts empty, with no call under way. *)
LEMMA InitInv == Init => IInv
<1> SUFFICES ASSUME Init PROVE IInv
  OBVIOUS
<1>1. TypeOK /\ TargetInv
  BY BoundsAssumption DEF Init, TypeOK, TargetInv, PcValues, Idle
<1>2. \A s \in Semaphores : Asleep(s) \cup Woken(s) = {}
  BY DEF Init, Asleep, Woken
<1>3. WaitersCounted
  BY <1>2, FS_EmptySet DEF Init, WaitersCounted
<1>4. WakeInv
  BY DEF Init, WakeInv
<1>5. QED
  BY <1>1, <1>3, <1>4 DEF IInv

(* Every step of every thread keeps the invariant. *)
LEMMA NextInv == IInv /\ [Next]_vars => IInv'
<1> SUFFICES ASSUME IInv, [Next]_vars PROVE IInv'
  OBVIOUS
<1>1. CASE Next
  <2>1. PICK t \in Threads : Step(t)
    BY <1>1, NextIsStep
  <2>2. TypeOK' /\ TargetInv'
    BY <2>1, TypeStep DEF IInv
  <2>3. \A s \in Semaphores : Counted(s)'
    BY <2>1, <2>2, CountStep
  <2>4. WaitersCounted' /\ WakeInv'
    BY <2>3 DEF Counted, WaitersCounted, WakeInv
  <2>5. QED
    BY <2>2, <2>4 DEF IInv
<1>2. CASE UNCHANGED vars
  BY <1>2 DEF vars, slotVars, locals, IInv, TypeOK, TargetInv, Idle, WaitersCounted, WakeInv,
              TokensSuffice, Asleep, Woken, Awake, Pending
<1>3. QED
  BY <1>1, <1>2

(* The inductive invariant holds in every reachable state. *)
THEOREM Invariance == Spec => []IInv
<1>1. QED
  BY InitInv, NextInv, PTL DEF Spec

(* Every variable of sys_semaphore.c keeps its type, waiters above zero    *)
(* included.                                                               *)
THEOREM TypeCorrectness == Spec => []TypeOK
<1>1. IInv => TypeOK
  BY DEF IInv
<1>2. QED
  BY <1>1, Invariance, PTL

(* waiters is the number of threads in sys_semaphore_wait's sleep, on      *)
(* every slot that was not recycled under a waiter.                        *)
THEOREM WaitersExact == Spec => []WaitersCounted
<1>1. IInv => WaitersCounted
  BY DEF IInv
<1>2. QED
  BY <1>1, Invariance, PTL

(* Enough tokens on the way means that a sleeper beside a unit nobody      *)
(* awake will take has a token, or a post that still owes it one.          *)
LEMMA TokensWake ==
    ASSUME TypeOK, NEW s \in Semaphores, TokensSuffice(s)
    PROVE  WakeOwed(s)
<1> SUFFICES ASSUME Asleep(s) # {}, value[s] > Cardinality(Awake(s)), ~(tokens[s] > 0)
             PROVE  Releasing(s) # {}
  BY DEF WakeOwed
<1>1. /\ IsFiniteSet(Asleep(s)) /\ IsFiniteSet(Awake(s)) /\ IsFiniteSet(Pending(s))
  BY SetsFinite
<1>2. /\ Cardinality(Asleep(s)) \in Nat /\ Cardinality(Awake(s)) \in Nat
      /\ Cardinality(Pending(s)) \in Nat /\ Cardinality(Asleep(s)) # 0
  BY <1>1, FS_CardinalityType, FS_EmptySet
<1>3. tokens[s] = 0 /\ value[s] \in Int
  BY DEF TypeOK
<1>4. Cardinality(Pending(s)) # 0
  BY <1>2, <1>3 DEF TokensSuffice
<1>5. PICK q : q \in Pending(s)
  BY <1>1, <1>4, FS_EmptySet
<1>6. q[1] \in Threads /\ q[2] \in 1 .. IntMax /\ q[2] <= wake[q[1]]
      /\ pc[q[1]] = "release" /\ tgt[q[1]] = s
  BY <1>5 DEF Pending
<1>7. wake[q[1]] > 0
  BY <1>6, BoundsAssumption DEF TypeOK
<1>8. QED
  BY <1>6, <1>7 DEF Releasing

(* No post's wake-up is lost, for any number of waiters, posters, tokens   *)
(* left over and timeouts, on every slot not recycled under a waiter.      *)
THEOREM NoWakeupLost == Spec => []NoLostWake
<1>1. IInv => NoLostWake
  <2> SUFFICES ASSUME IInv, NEW s \in Semaphores, ~tainted[s] PROVE WakeOwed(s)
    BY DEF NoLostWake
  <2>1. CASE active[s]
    BY <2>1, TokensWake DEF IInv, WakeInv
  <2>2. CASE ~active[s]
    BY <2>2 DEF WakeOwed
  <2>3. QED
    BY <2>1, <2>2
<1>2. QED
  BY <1>1, Invariance, PTL

----------------------------------------------------------------------------
(* A step keeps value between 0 and max_value when no addition overflows. *)
LEMMA ValueStep ==
    ASSUME NoOverflow, TypeOK, TargetInv, ValueInRange, NEW t \in Threads, Step(t)
    PROVE  ValueInRange'
<1> USE DEF TypeOK, ValueInRange, Go, Return, slotVars, locals
<1>1. CASE \E z \in Semaphores, max_val \in MaxValues, made \in BOOLEAN :
              \E initial \in 0 .. max_val : sys_semaphore_create(t, z, initial, max_val, made)
  BY <1>1, BoundsAssumption DEF sys_semaphore_create
<1>2. CASE \E z \in Semaphores : \E sleeping \in SUBSET Asleep(z) :
              sys_semaphore_destroy(t, z, sleeping)
  BY <1>2, BoundsAssumption DEF sys_semaphore_destroy
<1>3. CASE \E z \in Semaphores, timed \in BOOLEAN : sys_semaphore_wait(t, z, timed)
  BY <1>3, BoundsAssumption DEF sys_semaphore_wait
<1>4. CASE \E z \in Semaphores : sys_semaphore_trywait(t, z)
  BY <1>4, BoundsAssumption DEF sys_semaphore_trywait
<1>5. CASE \E z \in Semaphores, n \in Counts : sys_semaphore_post(t, z, n)
  BY <1>5, BoundsAssumption DEF sys_semaphore_post
<1>6. CASE WaitTakes(t)
  <2>1. PICK z \in Semaphores : z = tgt[t]
    BY <1>6 DEF WaitTakes, TargetInv, Idle, Entering
  <2>2. QED
    BY <1>6, <2>1, BoundsAssumption DEF WaitTakes
<1>7. CASE WaitExpires(t)
  BY <1>7 DEF WaitExpires
<1>8. CASE WaitParks(t)
  BY <1>8 DEF WaitParks
<1>9. CASE WaitUnparks(t)
  BY <1>9 DEF WaitUnparks
<1>10. CASE TryEnds(t)
  <2>1. PICK z \in Semaphores : z = tgt[t]
    BY <1>10 DEF TryEnds, TargetInv, Idle, Entering
  <2>2. QED
    BY <1>10, <2>1, BoundsAssumption DEF TryEnds
<1>11. CASE PostRefused(t)
  BY <1>11 DEF PostRefused
<1>12. CASE PostAdds(t)
  <2>1. PICK z \in Semaphores : z = tgt[t]
    BY <1>12 DEF PostAdds, TargetInv, Idle
  <2>2. /\ value'  = [value EXCEPT ![z] = Wrap32(value[z] + count[t])]
        /\ max_value' = max_value
        /\ Wrap32(value[z] + count[t]) <= max_value[z]
    BY <1>12, <2>1 DEF PostAdds
  <2>3. count[t] \in Counts
    BY <1>12 DEF PostAdds, TargetInv
  <2>4. /\ value[z] \in Int /\ count[t] \in 1 .. IntMax
        /\ 0 <= value[z] /\ value[z] <= max_value[z]
    BY <2>3, BoundsAssumption
  <2>5. CASE max_value[z] = 0
    <3>1. value[z] + count[t] <= IntMax
      BY <2>4, <2>5, BoundsAssumption
    <3>2. QED
      BY <2>2, <2>4, <3>1, BoundsAssumption DEF Wrap32
  <2>6. CASE max_value[z] # 0
    <3>1. max_value[z] \in MaxValues
      BY <2>6
    <3>2. PICK m \in MaxValues, n \in Counts : m = max_value[z] /\ n = count[t]
      BY <2>3, <3>1
    <3>3. m + n <= IntMax /\ m \in Int /\ n \in Int
      BY NoOverflow, BoundsAssumption DEF NoOverflow
    <3>4. value[z] + count[t] <= IntMax
      BY <2>4, <3>2, <3>3, BoundsAssumption
    <3>5. QED
      BY <2>2, <2>4, <3>4, BoundsAssumption DEF Wrap32
  <2>7. QED
    BY <2>5, <2>6
<1>13. CASE PostReleases(t)
  BY <1>13 DEF PostReleases
<1>14. CASE WaitTokenTaken(t)
  BY <1>14 DEF WaitTokenTaken
<1>15. CASE WaitSliceOver(t)
  BY <1>15 DEF WaitSliceOver
<1>16. CASE DeadlinePasses(t)
  BY <1>16 DEF DeadlinePasses
<1>17. QED
  BY <1>1, <1>2, <1>3, <1>4, <1>5, <1>6, <1>7, <1>8,
     <1>9, <1>10, <1>11, <1>12, <1>13, <1>14, <1>15, <1>16 DEF Step

(* "At all times 0 <= value <= max_value must hold", provided that no      *)
(* max_value plus a posted count passes INT32_MAX.                         *)
THEOREM ValueBounded ==
    ASSUME NoOverflow
    PROVE  Spec => []ValueInRange
<1>1. Init => ValueInRange
  BY DEF Init, ValueInRange
<1>2. IInv /\ ValueInRange /\ [Next]_vars => ValueInRange'
  <2> SUFFICES ASSUME IInv, ValueInRange, [Next]_vars PROVE ValueInRange'
    OBVIOUS
  <2>1. CASE Next
    BY <2>1, NextIsStep, ValueStep DEF IInv
  <2>2. CASE UNCHANGED vars
    BY <2>2 DEF vars, slotVars, ValueInRange
  <2>3. QED
    BY <2>1, <2>2
<1>3. QED
  BY <1>1, <1>2, Invariance, PTL DEF Spec
=============================================================================
