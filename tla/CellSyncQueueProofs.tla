------------------------- MODULE CellSyncQueueProofs -------------------------
(***************************************************************************)
(* Proofs about the two queues of cellSync, for any threads, values and    *)
(* depth: who owns the flags, that no copy of an element overlaps another, *)
(* and that both queues implement SyncFifo.                                *)
(***************************************************************************)
EXTENDS CellSyncProofs, CellSyncQueue, CellSyncLFQueue, SequenceTheorems

----------------------------------------------------------------------------
(* Slots and sequences. *)

(* The slot of a place that is at most one turn of the ring ahead. *)
Wrap(x) == x % Depth

LEMMA Wraps ==
    \A x \in 0 .. (2 * Depth - 1) : /\ Wrap(x) = IF x < Depth THEN x ELSE x - Depth
                                    /\ Wrap(x) \in Slots
  <1> SUFFICES ASSUME NEW x \in 0 .. (2 * Depth - 1)
               PROVE  Wrap(x) = IF x < Depth THEN x ELSE x - Depth
    BY QueueAssumption DEF Slots
  <1>1. PICK c \in Nat \ {0} : c = Depth
    BY QueueAssumption
  <1>2. x < c => x % c = x
    BY <1>1, SMT
  <1>3. c <= x /\ x < 2 * c => x % c = x - c
    BY <1>1, SMT
  <1> QED BY <1>1, <1>2, <1>3 DEF Wrap

(* Places less than a turn apart are different slots. *)
LEMMA WrapsApart ==
    ASSUME NEW x \in 0 .. (2 * Depth - 1), NEW y \in 0 .. (2 * Depth - 1), x < y, y < x + Depth
    PROVE  Wrap(x) # Wrap(y)
  BY Wraps, QueueAssumption

(* The n elements from a place on. *)
Window(f, x, n) == [i \in 1 .. n |-> f[Wrap(x + i - 1)]]

(* Windows of the same elements are the same. *)
LEMMA WindowKept ==
    ASSUME NEW f, NEW g, NEW x \in Int, NEW y \in Int, NEW n \in Int,
           \A k \in 0 .. (n - 1) : f[Wrap(x + k)] = g[Wrap(y + k)]
    PROVE  Window(f, x, n) = Window(g, y, n)
  <1>1. \A i \in 1 .. n : i - 1 \in 0 .. (n - 1) /\ x + (i - 1) = x + i - 1 /\ y + (i - 1) = y + i - 1
    OBVIOUS
  <1>2. \A i \in 1 .. n : f[Wrap(x + i - 1)] = g[Wrap(y + i - 1)]
    BY <1>1
  <1> QED BY <1>2 DEF Window

LEMMA WindowSeq ==
    ASSUME NEW S, NEW f \in [Slots -> S], NEW x \in Nat, NEW n \in Nat, x + n <= 2 * Depth
    PROVE  Window(f, x, n) \in Seq(S) /\ Len(Window(f, x, n)) = n
  <1>1. \A i \in 1 .. n : x + i - 1 \in 0 .. (2 * Depth - 1)
    BY QueueAssumption
  <1>2. \A i \in 1 .. n : f[Wrap(x + i - 1)] \in S
    BY <1>1, Wraps
  <1> QED BY <1>2 DEF Window

LEMMA WindowGrows ==
    ASSUME NEW S, NEW f \in [Slots -> S], NEW x \in Nat, NEW n \in Nat, x + n + 1 <= 2 * Depth
    PROVE  Window(f, x, n + 1) = Append(Window(f, x, n), f[Wrap(x + n)])
  <1> DEFINE w == Window(f, x, n)
             v == f[Wrap(x + n)]
             z == Window(f, x, n + 1)
  <1>0. /\ \A i \in 1 .. n : w[i] = f[Wrap(x + i - 1)]
        /\ \A i \in 1 .. (n + 1) : z[i] = f[Wrap(x + i - 1)]
    BY DEF Window
  <1>1. w \in Seq(S) /\ Len(w) = n
    <2>1. x + n <= 2 * Depth
      BY QueueAssumption
    <2> QED BY <2>1, WindowSeq, Zenon
  <1>2. z \in Seq(S) /\ Len(z) = n + 1
    <2>1. n + 1 \in Nat /\ x + (n + 1) <= 2 * Depth
      BY QueueAssumption
    <2> QED BY <2>1, WindowSeq, Zenon
  <1>3. x + (n + 1) - 1 = x + n
    OBVIOUS
  <1>4. v \in S
    BY Wraps, QueueAssumption
  <1> HIDE DEF w, z, v
  <1>5. z[n + 1] = v /\ \A i \in 1 .. n : z[i] = w[i]
    BY <1>0, <1>3 DEF v
  <1>6. z = Append(w, v)
    BY <1>1, <1>2, <1>4, <1>5
  <1> QED BY <1>6 DEF w, z, v

LEMMA WindowShrinks ==
    ASSUME NEW S, NEW f \in [Slots -> S], NEW x \in Nat, NEW n \in Nat \ {0}, x + n <= 2 * Depth
    PROVE  /\ Head(Window(f, x, n)) = f[Wrap(x)]
           /\ Tail(Window(f, x, n)) = Window(f, x + 1, n - 1)
  <1> DEFINE w == Window(f, x, n)
             z == Window(f, x + 1, n - 1)
  <1>0. /\ \A i \in 1 .. n : w[i] = f[Wrap(x + i - 1)]
        /\ \A i \in 1 .. (n - 1) : z[i] = f[Wrap(x + 1 + i - 1)]
    BY DEF Window
  <1>1. w \in Seq(S) /\ Len(w) = n
    <2>1. n \in Nat
      OBVIOUS
    <2> QED BY <2>1, WindowSeq, Zenon
  <1>2. z \in Seq(S) /\ Len(z) = n - 1
    <2>1. n - 1 \in Nat /\ x + 1 \in Nat /\ (x + 1) + (n - 1) <= 2 * Depth
      BY QueueAssumption
    <2> QED BY <2>1, WindowSeq, Zenon
  <1>3. \A i \in 1 .. (n - 1) : i + 1 \in 1 .. n /\ x + 1 + i - 1 = x + (i + 1) - 1
    OBVIOUS
  <1>4. x + 1 - 1 = x
    OBVIOUS
  <1> HIDE DEF w, z
  <1>5. \A i \in 1 .. (n - 1) : z[i] = w[i + 1]
    BY <1>0, <1>3, Zenon
  <1>6. Head(w) = f[Wrap(x)]
    BY <1>0, <1>1, <1>4
  <1>7. Tail(w) = z
    BY <1>1, <1>2, <1>5
  <1> QED BY <1>6, <1>7 DEF w, z

(* A flag that counts who is at some places has at most one owner. *)
LEMMA OneOwner ==
    ASSUME NEW places, NEW n \in {0, 1}, n = Cardinality(Callers(places))
    PROVE  /\ n = 0 => Callers(places) = {}
           /\ \A t \in Callers(places) : Callers(places) = {t} /\ n = 1
  <1>1. n = 0 <=> Callers(places) = {}
    BY CallersCount
  <1>2. n = 1 => \E x : Callers(places) = {x}
    BY CallersCount, FS_Singleton
  <1> QED BY <1>1, <1>2

----------------------------------------------------------------------------
(* CellSyncQueue. *)

(* The place of the oldest element, before the wrap. *)
First == next + Depth - count

(* A push has the newest place, and its element is not NoValue. *)
PushInv ==
    \A t \in Pushers :
        /\ count >= 1 /\ pos[t] = Wrap(next + Depth - 1)
        /\ elem[t] \in Values
        /\ At(t, "pushed") => slots[pos[t]] = elem[t]

(* A pop has the place before the oldest, which no push may take, a peek   *)
(* the oldest, which must not be one that is being pushed.                 *)
TakeInv ==
    \A t \in Takers :
        \/ count < Depth /\ pos[t] = Wrap(First - 1)
        \/ Ready >= 1 /\ pos[t] = Wrap(First)

QueueInv == QueueTypeOK /\ QueueFlags /\ PushInv /\ TakeInv

PushSide == {"push", "pushed", "zero"}
TakeSide == {"take", "taken", "clear", "zero"}

(* What the flags say: who has one has it alone. *)
LEMMA QueueOwners ==
    ASSUME QueueInv
    PROVE  /\ popping = Cardinality(Callers(TakeSide)) /\ pushing = Cardinality(Callers(PushSide))
           /\ \A t \in Threads : pc[t] \in TakeSide => popping = 1
           /\ \A t \in Threads : pc[t] \in PushSide => pushing = 1
           /\ \A t, u \in Threads : pc[t] \in TakeSide /\ pc[u] \in TakeSide => t = u
           /\ \A t, u \in Threads : pc[t] \in PushSide /\ pc[u] \in PushSide => t = u
           /\ \A t \in Threads : pc[t] \in {"push", "pushed"} => Ready = count - 1
           /\ pushing = 0 => Ready = count
           /\ \A t \in Threads : pc[t] = "zero" => Ready = count
           /\ Ready \in Int /\ count - 1 <= Ready /\ Ready <= count
  <1>1. popping = Cardinality(Callers(TakeSide)) /\ pushing = Cardinality(Callers(PushSide))
    <2>1. /\ Callers(TakeSide) = Takers \cup Callers({"clear", "zero"})
          /\ Callers(PushSide) = Pushers \cup Callers({"zero"})
      BY DEF Callers, Takers, Pushers, TakeSide, PushSide
    <2> QED BY <2>1 DEF QueueInv, QueueFlags
  <1>2. popping \in {0, 1} /\ pushing \in {0, 1} /\ count \in Nat
    BY QueueAssumption DEF QueueInv, QueueTypeOK
  <1>3. /\ popping = 0 => Callers(TakeSide) = {}
        /\ \A t \in Callers(TakeSide) : Callers(TakeSide) = {t} /\ popping = 1
    BY <1>1, <1>2, OneOwner
  <1>4. /\ pushing = 0 => Callers(PushSide) = {}
        /\ \A t \in Callers(PushSide) : Callers(PushSide) = {t} /\ pushing = 1
    BY <1>1, <1>2, OneOwner
  <1>5. \A t \in Threads : \A P : t \in Callers(P) <=> pc[t] \in P
    BY DEF Callers
  <1>6. Pushers \subseteq Callers(PushSide)
    BY DEF Callers, Pushers, PushSide
  <1>7. \A t \in Threads : pc[t] \in {"push", "pushed"} => Pushers = {t}
    <2> SUFFICES ASSUME NEW t \in Threads, pc[t] \in {"push", "pushed"} PROVE Pushers = {t}
      OBVIOUS
    <2>1. t \in Callers(PushSide) /\ t \in Pushers
      BY DEF Callers, Pushers, PushSide
    <2> QED BY <2>1, <1>4, <1>6
  <1>8. (Callers(PushSide) = {} => Pushers = {}) /\ \A t \in Threads : pc[t] = "zero" => Pushers = {}
    <2>1. ASSUME NEW t \in Threads, pc[t] = "zero" PROVE Pushers = {}
      <3>1. Callers(PushSide) = {t} /\ t \notin Pushers
        BY <1>4, <2>1 DEF Callers, Pushers, PushSide
      <3> QED BY <3>1, <1>6
    <2> QED BY <1>6, <2>1
  <1>9. /\ Pushers = {} => Cardinality(Pushers) = 0
        /\ \A t \in Threads : Pushers = {t} => Cardinality(Pushers) = 1
    BY FS_EmptySet, FS_Singleton
  <1>10. Pushers = {} \/ \E t \in Threads : pc[t] \in {"push", "pushed"}
    BY DEF Pushers, Callers
  <1>11. /\ \A t \in Threads : pc[t] \in TakeSide => popping = 1
         /\ \A t \in Threads : pc[t] \in PushSide => pushing = 1
         /\ \A t, u \in Threads : pc[t] \in TakeSide /\ pc[u] \in TakeSide => t = u
         /\ \A t, u \in Threads : pc[t] \in PushSide /\ pc[u] \in PushSide => t = u
    BY <1>3, <1>4, <1>5, Zenon
  <1>12. /\ \A t \in Threads : pc[t] \in {"push", "pushed"} => Ready = count - 1
         /\ pushing = 0 => Ready = count
         /\ \A t \in Threads : pc[t] = "zero" => Ready = count
         /\ Ready \in Int /\ count - 1 <= Ready /\ Ready <= count
    BY <1>2, <1>4, <1>7, <1>8, <1>9, <1>10 DEF Ready
  <1> QED BY <1>1, <1>11, <1>12

LEMMA QueueInitial == QueueInit => QueueInv
  <1> SUFFICES ASSUME QueueInit PROVE QueueInv
    OBVIOUS
  <1>1. Pushers = {} /\ Takers = {} /\ Callers({"zero"}) = {} /\ Callers({"clear", "zero"}) = {}
    BY DEF QueueInit, NobodyCalls, Callers, Pushers, Takers
  <1>2. QueueTypeOK
    BY QueueAssumption DEF QueueInit, QueueTypeOK, NobodyCalls, Slots
  <1>3. Takers \cup Callers({"clear", "zero"}) = {} /\ Pushers \cup Callers({"zero"}) = {}
    BY <1>1
  <1>4. QueueFlags
    BY <1>3, FS_EmptySet DEF QueueInit, QueueFlags
  <1> QED BY <1>1, <1>2, <1>4 DEF QueueInv, PushInv, TakeInv

(* One for a place among others. *)
Among(where, places) == IF where \in places THEN 1 ELSE 0

(* The flags follow the thread that moves. *)
LEMMA FlagsFollow ==
    ASSUME QueueInv, NEW t \in Threads, NEW where, Goto(t, where), count' \in Int,
           popping' = popping + Among(where, TakeSide) - Among(pc[t], TakeSide),
           pushing' = pushing + Among(where, PushSide) - Among(pc[t], PushSide)
    PROVE  /\ QueueFlags'
           /\ Ready' = count' - (count - Ready) - Among(where, {"push", "pushed"})
                                                + Among(pc[t], {"push", "pushed"})
  <1> DEFINE P == {"idle", "push", "pushed", "take", "taken", "clear", "zero"}
  <1>1. pc \in [Threads -> P]
    BY DEF QueueInv, QueueTypeOK
  <1> HIDE DEF P
  <1>2. popping = Cardinality(Callers(TakeSide)) /\ pushing = Cardinality(Callers(PushSide))
    BY QueueOwners
  <1>3. \A places : Cardinality(Callers(places)') =
                      Cardinality(Callers(places)) + Among(where, places) - Among(pc[t], places)
    BY <1>1, GotoCounts DEF Among
  <1>4. /\ Callers(TakeSide)' = Takers' \cup Callers({"clear", "zero"})'
        /\ Callers(PushSide)' = Pushers' \cup Callers({"zero"})'
    BY DEF Callers, Takers, Pushers, TakeSide, PushSide
  <1>5. QueueFlags'
    <2>1. popping' = Cardinality(Callers(TakeSide)') /\ pushing' = Cardinality(Callers(PushSide)')
      BY <1>2, <1>3, Zenon
    <2> QED BY <1>4, <2>1 DEF QueueFlags
  <1>6. Cardinality(Pushers') = Cardinality(Pushers) + Among(where, {"push", "pushed"})
                                                     - Among(pc[t], {"push", "pushed"})
    BY <1>3, Zenon DEF Pushers
  <1>7. Cardinality(Pushers) \in Int /\ count \in Int
    BY CallersCount, QueueAssumption DEF Pushers, QueueInv, QueueTypeOK
  <1>8. Among(where, {"push", "pushed"}) \in Int /\ Among(pc[t], {"push", "pushed"}) \in Int
    BY DEF Among
  <1> QED BY <1>5, <1>6, <1>7, <1>8 DEF Ready

LEMMA Sides ==
    /\ Among("idle", TakeSide) = 0 /\ Among("idle", PushSide) = 0
    /\ Among("push", TakeSide) = 0 /\ Among("push", PushSide) = 1
    /\ Among("pushed", TakeSide) = 0 /\ Among("pushed", PushSide) = 1
    /\ Among("take", TakeSide) = 1 /\ Among("take", PushSide) = 0
    /\ Among("taken", TakeSide) = 1 /\ Among("taken", PushSide) = 0
    /\ Among("clear", TakeSide) = 1 /\ Among("clear", PushSide) = 0
    /\ Among("zero", TakeSide) = 1 /\ Among("zero", PushSide) = 1
    /\ Among("push", {"push", "pushed"}) = 1 /\ Among("pushed", {"push", "pushed"}) = 1
    /\ \A p \in {"idle", "take", "taken", "clear", "zero"} : Among(p, {"push", "pushed"}) = 0
  BY DEF Among, PushSide, TakeSide

(* What a thread's step leaves of the others. *)
LEMMA OthersStay ==
    ASSUME QueueInv, NEW t \in Threads, NEW where, Goto(t, where)
    PROVE  /\ pc'[t] = where /\ \A u \in Threads \ {t} : pc'[u] = pc[u]
           /\ Pushers' = (IF where \in {"push", "pushed"} THEN Pushers \cup {t} ELSE Pushers \ {t})
           /\ Takers' = (IF where \in {"take", "taken"} THEN Takers \cup {t} ELSE Takers \ {t})
  BY DEF QueueInv, QueueTypeOK, Goto, Pushers, Takers, Callers

LEMMA PushBeginsKeeps ==
    ASSUME QueueInv, NEW t \in Threads, NEW v \in Values, PushBegins(t, v)
    PROVE  /\ QueueInv'
           /\ Ready' = Ready
           /\ \A k \in 0 .. (count - 1) : Wrap(First' + k) = Wrap(First + k)
  <1> USE DEF PushBegins, At, Moves
  <1>1. /\ QueueTypeOK /\ QueueFlags /\ PushInv /\ TakeInv
        /\ Depth \in Nat \ {0} /\ next \in 0 .. (Depth - 1) /\ count \in 0 .. Depth
        /\ popping \in {0, 1} /\ pushing = 0 /\ count + popping < Depth
        /\ Goto(t, "push") /\ pc[t] = "idle"
    BY QueueAssumption DEF QueueInv, QueueTypeOK, Slots, HasRoom
  <1>2. /\ next' \in 0 .. (Depth - 1) /\ count' = count + 1
        /\ next' = IF next = Depth - 1 THEN 0 ELSE next + 1
    BY <1>1
  <1>3. /\ QueueFlags'
        /\ Ready' = count' - (count - Ready) - 1
    <2>1. /\ popping' = popping + 0 - 0 /\ pushing' = pushing + 1 - 0
          /\ count' \in Int /\ count \in Int /\ Ready \in Int
      BY <1>1, <1>2, QueueOwners
    <2>2. /\ QueueFlags'
          /\ Ready' = count' - (count - Ready) - 1 + 0
      BY <1>1, <2>1, Sides, FlagsFollow
    <2> QED BY <2>1, <2>2
  <1>4. Pushers = {} /\ Ready = count
    BY <1>1, QueueOwners DEF Pushers, Callers, PushSide
  <1>5. QueueTypeOK'
    BY <1>1, <1>2 DEF QueueTypeOK, Slots, Set, Goto
  <1>6. Wrap(next' + Depth - 1) = next
    <2>1. next' + Depth - 1 \in 0 .. (2 * Depth - 1)
      BY <1>1, <1>2
    <2> QED BY <1>1, <1>2, <2>1, Wraps
  <1>7. PushInv'
    <2>1. Pushers' = {t} /\ pc'[t] = "push"
      BY <1>1, <1>4, OthersStay
    <2>2. pos'[t] = next /\ elem'[t] = v
      BY <1>1 DEF QueueTypeOK, Set
    <2> QED BY <1>1, <1>2, <1>6, <2>1, <2>2 DEF PushInv
  <1>8. \A k \in (0 - popping) .. (count - 1) : Wrap(First' + k) = Wrap(First + k)
    <2> TAKE k \in (0 - popping) .. (count - 1)
    <2>1. PICK a \in 0 .. (2 * Depth - 1), b \in 0 .. (2 * Depth - 1) : a = First + k /\ b = First' + k
      BY <1>1, <1>2 DEF First
    <2>2. /\ Wrap(a) = IF a < Depth THEN a ELSE a - Depth
          /\ Wrap(b) = IF b < Depth THEN b ELSE b - Depth
      BY Wraps
    <2>3. Wrap(a) = Wrap(b)
      BY <1>1, <1>2, <2>1, <2>2 DEF First
    <2> QED BY <2>1, <2>3
  <1>9. TakeInv'
    <2> SUFFICES ASSUME NEW u \in Takers'
                 PROVE  \/ count' < Depth /\ pos'[u] = Wrap(First' - 1)
                        \/ Ready' >= 1 /\ pos'[u] = Wrap(First')
      BY DEF TakeInv
    <2>1. u \in Takers /\ u # t /\ u \in Threads
      BY <1>1, OthersStay DEF Takers, Callers
    <2>2. popping = 1 /\ pos'[u] = pos[u]
      BY <1>1, <2>1, QueueOwners DEF Takers, Callers, TakeSide, QueueTypeOK, Set
    <2>3. CASE count < Depth /\ pos[u] = Wrap(First - 1)
      <3>1. Wrap(First' + (0 - 1)) = Wrap(First + (0 - 1))
        BY <1>1, <1>8, <2>2
      <3>2. First' + (0 - 1) = First' - 1 /\ First + (0 - 1) = First - 1
        BY <1>1, <1>2 DEF First
      <3> QED BY <1>1, <1>2, <2>2, <2>3, <3>1, <3>2
    <2>4. CASE Ready >= 1 /\ pos[u] = Wrap(First)
      <3>1. Wrap(First' + 0) = Wrap(First + 0)
        BY <1>1, <1>4, <1>8, <2>2, <2>4
      <3>2. First' + 0 = First' /\ First + 0 = First
        BY <1>1, <1>2 DEF First
      <3> QED BY <1>1, <1>2, <1>3, <1>4, <2>2, <2>4, <3>1, <3>2
    <2> QED BY <1>1, <2>1, <2>3, <2>4 DEF TakeInv
  <1> QED BY <1>1, <1>2, <1>3, <1>4, <1>5, <1>7, <1>8, <1>9 DEF QueueInv

(* The types, and what an operation on its way knows. *)
LEMMA QueueKnows ==
    ASSUME QueueInv
    PROVE  /\ QueueTypeOK /\ PushInv /\ TakeInv
           /\ Depth \in Nat \ {0} /\ next \in 0 .. (Depth - 1) /\ count \in 0 .. Depth
           /\ popping \in {0, 1} /\ pushing \in {0, 1} /\ Ready \in Int
           /\ First \in Int /\ Depth - count <= First /\ First = next + Depth - count
  BY QueueAssumption, QueueOwners DEF QueueInv, QueueTypeOK, Slots, First

(* No thread writes the slot that another one reads. *)
LEMMA SlotsApart == QueueInv => QueueSlotsApart
  <1> SUFFICES ASSUME QueueInv, NEW t \in Pushers, NEW u \in Takers PROVE pos[t] # pos[u]
    BY DEF QueueSlotsApart
  <1>1. /\ count >= 1 /\ pos[t] = Wrap(next + Depth - 1) /\ Ready = count - 1
        /\ \/ count < Depth /\ pos[u] = Wrap(First - 1)
           \/ Ready >= 1 /\ pos[u] = Wrap(First)
    BY QueueKnows, QueueOwners DEF PushInv, TakeInv, Pushers, Callers
  <1>2. CASE count < Depth /\ pos[u] = Wrap(First - 1)
    <2>1. PICK x \in 0 .. (2 * Depth - 1), y \in 0 .. (2 * Depth - 1) :
              x = First - 1 /\ y = next + Depth - 1 /\ x < y /\ y < x + Depth
      BY <1>1, <1>2, QueueKnows
    <2> QED BY <1>1, <1>2, <2>1, WrapsApart
  <1>3. CASE Ready >= 1 /\ pos[u] = Wrap(First)
    <2>1. PICK x \in 0 .. (2 * Depth - 1), y \in 0 .. (2 * Depth - 1) :
              x = First /\ y = next + Depth - 1 /\ x < y /\ y < x + Depth
      BY <1>1, <1>3, QueueKnows
    <2> QED BY <1>1, <1>3, <2>1, WrapsApart
  <1> QED BY <1>1, <1>2, <1>3

LEMMA PushCopiesKeeps ==
    ASSUME QueueInv, NEW t \in Threads, PushCopies(t)
    PROVE  /\ QueueInv' /\ Ready' = Ready /\ First' = First
           /\ \A k \in 0 .. (Ready - 1) : slots'[Wrap(First + k)] = slots[Wrap(First + k)]
           /\ \A u \in Takers : slots'[pos[u]] = slots[pos[u]]
  <1> USE DEF PushCopies, At, Moves
  <1>1. Goto(t, "pushed") /\ pc[t] = "push" /\ UNCHANGED <<next, count, popping, pushing, pos, elem>>
    BY DEF ctrl
  <1>2. /\ t \in Pushers /\ Ready = count - 1 /\ count >= 1
        /\ pos[t] = Wrap(next + Depth - 1) /\ elem[t] \in Values /\ pos[t] \in Slots
    BY <1>1, QueueOwners, QueueKnows DEF Pushers, Callers, PushInv, QueueTypeOK
  <1>3. QueueFlags' /\ Ready' = Ready
    <2>1. /\ popping' = popping + 0 - 0 /\ pushing' = pushing + 1 - 1
          /\ count' \in Int /\ count \in Int /\ Ready \in Int
      BY <1>1, QueueKnows
    <2>2. QueueFlags' /\ Ready' = count' - (count - Ready) - 1 + 1
      BY <1>1, <2>1, Sides, FlagsFollow
    <2> QED BY <1>1, <2>1, <2>2
  <1>4. QueueTypeOK' /\ First' = First
    BY <1>1, <1>2, QueueKnows DEF QueueTypeOK, Goto, First
  <1>5. Pushers' = Pushers /\ Takers' = Takers
    BY <1>1, <1>2, OthersStay DEF Takers, Callers
  <1>6. Pushers = {t}
    BY <1>1, QueueOwners DEF Pushers, Callers, PushSide
  <1>7. slots'[pos[t]] = elem[t] /\ \A i \in Slots \ {pos[t]} : slots'[i] = slots[i]
    BY <1>2, QueueKnows DEF QueueTypeOK
  <1>8. PushInv'
    BY <1>1, <1>2, <1>5, <1>6, <1>7 DEF PushInv
  <1>9. TakeInv'
    BY <1>1, <1>3, <1>4, <1>5, QueueKnows DEF TakeInv
  <1>10. ASSUME NEW k \in 0 .. (Ready - 1) PROVE slots'[Wrap(First + k)] = slots[Wrap(First + k)]
    <2>1. PICK x \in 0 .. (2 * Depth - 1), y \in 0 .. (2 * Depth - 1) :
              x = First + k /\ y = next + Depth - 1 /\ x < y /\ y < x + Depth
      BY <1>2, <1>10, QueueKnows
    <2>2. Wrap(x) # pos[t] /\ Wrap(x) \in Slots
      BY <1>2, <2>1, Wraps, WrapsApart
    <2> QED BY <1>7, <2>1, <2>2
  <1>11. ASSUME NEW u \in Takers PROVE slots'[pos[u]] = slots[pos[u]]
    <2>1. pos[u] # pos[t] /\ pos[u] \in Slots
      BY <1>2, <1>11, SlotsApart, QueueKnows DEF QueueSlotsApart, QueueTypeOK, Takers, Callers
    <2> QED BY <1>7, <2>1
  <1> QED BY <1>3, <1>4, <1>8, <1>9, <1>10, <1>11 DEF QueueInv

LEMMA PushEndsKeeps ==
    ASSUME QueueInv, NEW t \in Threads, PushEnds(t)
    PROVE  /\ QueueInv' /\ First' = First /\ Ready = count - 1 /\ Ready' = Ready + 1
           /\ elem[t] \in Values /\ slots[Wrap(First + Ready)] = elem[t]
  <1> USE DEF PushEnds, At, Moves
  <1>1. Goto(t, "idle") /\ pc[t] = "pushed" /\ UNCHANGED <<next, count, popping, slots>>
    OBVIOUS
  <1>2. /\ t \in Pushers /\ Ready = count - 1 /\ count >= 1 /\ pushing = 1
        /\ pos[t] = Wrap(next + Depth - 1) /\ elem[t] \in Values /\ slots[pos[t]] = elem[t]
    BY <1>1, QueueOwners, QueueKnows DEF Pushers, Callers, PushInv, PushSide
  <1>3. QueueFlags' /\ Ready' = Ready + 1
    <2>1. /\ popping' = popping + 0 - 0 /\ pushing' = pushing + 0 - 1
          /\ count' \in Int /\ count \in Int /\ Ready \in Int
      BY <1>1, <1>2, QueueKnows
    <2>2. QueueFlags' /\ Ready' = count' - (count - Ready) - 0 + 1
      BY <1>1, <2>1, Sides, FlagsFollow
    <2> QED BY <1>1, <2>1, <2>2
  <1>4. QueueTypeOK' /\ First' = First
    BY <1>1, QueueKnows DEF QueueTypeOK, Goto, First, Set, Slots
  <1>5. Pushers = {t}
    BY <1>1, QueueOwners DEF Pushers, Callers, PushSide
  <1>6. Pushers' = {} /\ Takers' = Takers /\ t \notin Takers
    BY <1>1, <1>5, OthersStay DEF Takers, Callers
  <1>7. PushInv'
    BY <1>6 DEF PushInv
  <1>8. TakeInv'
    <2>1. \A u \in Takers : pos'[u] = pos[u]
      BY <1>6, QueueKnows DEF QueueTypeOK, Set, Takers, Callers
    <2> QED BY <1>1, <1>3, <1>4, <1>6, <2>1, QueueKnows DEF TakeInv
  <1>9. First + Ready = next + Depth - 1
    BY <1>2, QueueKnows
  <1> QED BY <1>2, <1>3, <1>4, <1>7, <1>8, <1>9 DEF QueueInv

LEMMA TakeBeginsKeeps ==
    ASSUME QueueInv, NEW t \in Threads, NEW what, TakeBegins(t, what)
    PROVE  /\ QueueInv' /\ Ready >= 1 /\ pc'[t] = "take" /\ pos'[t] = Wrap(First)
           /\ IF what = "pop" THEN First' = First + 1 /\ Ready' = Ready - 1
                              ELSE First' = First /\ Ready' = Ready
  <1> USE DEF TakeBegins, At, Moves
  <1>1. /\ Goto(t, "take") /\ pc[t] = "idle" /\ UNCHANGED <<next, pushing, slots, elem>>
        /\ popping = 0 /\ count > pushing /\ pos'[t] = Wrap(First) /\ pos' = Set(pos, t, Wrap(First))
        /\ count' = IF what = "pop" THEN count - 1 ELSE count
    BY QueueKnows DEF HasElement, Wrap, First, Set, QueueTypeOK
  <1>2. Ready >= 1 /\ (Pushers = {} \/ (count >= 2 /\ Ready = count - 1))
    <2>1. Pushers = {} \/ \E u \in Threads : pc[u] \in {"push", "pushed"}
      BY DEF Pushers, Callers
    <2>2. \A u \in Threads : pc[u] \in {"push", "pushed"} => pushing = 1 /\ Ready = count - 1
      BY QueueOwners DEF PushSide
    <2>3. /\ pushing = 0 => Ready = count
          /\ count - 1 <= Ready /\ Ready \in Int
      BY QueueOwners
    <2>4. count \in Int /\ pushing \in {0, 1} /\ count > pushing
      BY <1>1, QueueKnows
    <2>5. Ready >= 1
      BY <2>3, <2>4
    <2>6. ASSUME NEW u \in Threads, pc[u] \in {"push", "pushed"} PROVE count >= 2 /\ Ready = count - 1
      BY <2>2, <2>4, <2>6
    <2> QED BY <2>1, <2>5, <2>6
  <1>3. QueueFlags' /\ Ready' = count' - (count - Ready)
    <2>1. /\ popping' = popping + 1 - 0 /\ pushing' = pushing + 0 - 0
          /\ count' \in Int /\ count \in Int /\ Ready \in Int
      BY <1>1, QueueKnows
    <2>2. QueueFlags' /\ Ready' = count' - (count - Ready) - 0 + 0
      BY <1>1, <2>1, Sides, FlagsFollow
    <2> QED BY <2>1, <2>2
  <1>4. Wrap(First) \in Slots
    <2>1. First \in 0 .. (2 * Depth - 1)
      BY <1>1, QueueKnows
    <2> QED BY <2>1, Wraps
  <1>5. count' \in 0 .. Depth
    BY <1>1, QueueKnows
  <1>6. QueueTypeOK'
    BY <1>1, <1>4, <1>5, QueueKnows DEF QueueTypeOK, Goto, Set
  <1>7. First' = IF what = "pop" THEN First + 1 ELSE First
    BY <1>1, QueueKnows DEF First
  <1>8. Takers = {}
    BY <1>1, QueueOwners DEF Takers, Callers, TakeSide
  <1>9. Pushers' = Pushers /\ Takers' = {t} /\ t \notin Pushers /\ pc'[t] = "take"
    BY <1>1, <1>8, OthersStay DEF Pushers, Callers
  <1>10. PushInv'
    <2>1. \A u \in Pushers : pos'[u] = pos[u] /\ pc'[u] = pc[u] /\ u \in Threads
      BY <1>1, <1>9, OthersStay, QueueKnows DEF QueueTypeOK, Set, Pushers, Callers
    <2> QED BY <1>1, <1>2, <1>5, <1>9, <2>1, QueueKnows DEF PushInv
  <1>11. TakeInv'
    <2>1. CASE what = "pop"
      <3>1. First' - 1 = First /\ count' < Depth
        BY <1>1, <1>7, <2>1, QueueKnows
      <3> QED BY <1>1, <1>9, <3>1 DEF TakeInv
    <2>2. CASE what # "pop"
      <3>1. First' = First /\ Ready' >= 1
        BY <1>1, <1>2, <1>3, <1>7, <2>2, QueueKnows
      <3> QED BY <1>1, <1>9, <3>1 DEF TakeInv
    <2> QED BY <2>1, <2>2
  <1>12. Ready' = IF what = "pop" THEN Ready - 1 ELSE Ready
    BY <1>1, <1>3, QueueKnows
  <1> QED BY <1>1, <1>2, <1>3, <1>6, <1>7, <1>9, <1>10, <1>11, <1>12 DEF QueueInv

LEMMA TakeCopiesKeeps ==
    ASSUME QueueInv, NEW t \in Threads, TakeCopies(t)
    PROVE  QueueInv' /\ First' = First /\ Ready' = Ready
  <1> USE DEF TakeCopies, At, Moves
  <1>1. Goto(t, "taken") /\ pc[t] = "take" /\ UNCHANGED <<next, count, popping, pushing, slots, pos>>
    BY DEF ctrl
  <1>2. QueueFlags' /\ Ready' = Ready
    <2>1. /\ popping' = popping + 1 - 1 /\ pushing' = pushing + 0 - 0
          /\ count' \in Int /\ count \in Int /\ Ready \in Int
      BY <1>1, QueueKnows
    <2>2. QueueFlags' /\ Ready' = count' - (count - Ready) - 0 + 0
      BY <1>1, <2>1, Sides, FlagsFollow
    <2> QED BY <1>1, <2>1, <2>2
  <1>3. QueueTypeOK' /\ First' = First
    BY <1>1, QueueKnows DEF QueueTypeOK, Goto, First, Set
  <1>4. Pushers' = Pushers /\ Takers' = Takers /\ t \notin Pushers
    BY <1>1, OthersStay DEF Pushers, Takers, Callers
  <1>5. PushInv'
    <2>1. \A u \in Pushers : elem'[u] = elem[u] /\ pc'[u] = pc[u] /\ u \in Threads
      BY <1>1, <1>4, OthersStay, QueueKnows DEF QueueTypeOK, Set, Pushers, Callers
    <2> QED BY <1>1, <1>4, <2>1, QueueKnows DEF PushInv
  <1>6. TakeInv'
    BY <1>1, <1>2, <1>3, <1>4, QueueKnows DEF TakeInv
  <1> QED BY <1>2, <1>3, <1>5, <1>6 DEF QueueInv

LEMMA TakeEndsKeeps ==
    ASSUME QueueInv, NEW t \in Threads, TakeEnds(t)
    PROVE  QueueInv' /\ First' = First /\ Ready' = Ready
  <1> USE DEF TakeEnds, At, Moves
  <1>1. Goto(t, "idle") /\ pc[t] = "taken" /\ UNCHANGED <<next, count, pushing, slots>>
    OBVIOUS
  <1>2. QueueFlags' /\ Ready' = Ready
    <2>1. /\ popping' = popping + 0 - 1 /\ pushing' = pushing + 0 - 0
          /\ count' \in Int /\ count \in Int /\ Ready \in Int
      BY <1>1, QueueKnows, QueueOwners DEF TakeSide
    <2>2. QueueFlags' /\ Ready' = count' - (count - Ready) - 0 + 0
      BY <1>1, <2>1, Sides, FlagsFollow
    <2> QED BY <1>1, <2>1, <2>2
  <1>3. QueueTypeOK' /\ First' = First
    BY <1>1, QueueKnows DEF QueueTypeOK, Goto, First, Set, Slots
  <1>4. Takers = {t}
    BY <1>1, QueueOwners DEF Takers, Callers, TakeSide
  <1>5. Pushers' = Pushers /\ Takers' = {} /\ t \notin Pushers
    BY <1>1, <1>4, OthersStay DEF Pushers, Callers
  <1>6. PushInv'
    <2>1. \A u \in Pushers : elem'[u] = elem[u] /\ pos'[u] = pos[u] /\ pc'[u] = pc[u] /\ u \in Threads
      BY <1>1, <1>5, OthersStay, QueueKnows DEF QueueTypeOK, Set, Pushers, Callers
    <2> QED BY <1>1, <1>5, <2>1, QueueKnows DEF PushInv
  <1>7. TakeInv'
    BY <1>5 DEF TakeInv
  <1> QED BY <1>2, <1>3, <1>6, <1>7 DEF QueueInv

LEMMA ClearBeginsKeeps ==
    ASSUME QueueInv, NEW t \in Threads, ClearStops(t) \/ ClearOwns(t)
    PROVE  QueueInv' /\ First' = First /\ Ready' = Ready /\ Takers' = Takers
  <1> USE DEF ClearStops, ClearOwns, At, Moves
  <1>1. UNCHANGED <<next, count, slots, pos, elem>> /\ pc[t] \in {"idle", "clear"}
    OBVIOUS
  <1>2. PICK where \in {"clear", "zero"} : Goto(t, where)
    OBVIOUS
  <1>3. QueueFlags' /\ Ready' = Ready
    <2>1. count' \in Int /\ count \in Int /\ Ready \in Int
      BY <1>1, QueueKnows
    <2>2. CASE ClearStops(t)
      <3>1. Goto(t, "clear") /\ pc[t] = "idle" /\ popping' = popping + 1 - 0 /\ pushing' = pushing + 0 - 0
        BY <2>2, QueueKnows
      <3>2. QueueFlags' /\ Ready' = count' - (count - Ready) - 0 + 0
        BY <2>1, <3>1, Sides, FlagsFollow
      <3> QED BY <1>1, <2>1, <3>2
    <2>3. CASE ClearOwns(t)
      <3>1. Goto(t, "zero") /\ pc[t] = "clear" /\ popping' = popping + 1 - 1 /\ pushing' = pushing + 1 - 0
        BY <2>3, QueueKnows
      <3>2. QueueFlags' /\ Ready' = count' - (count - Ready) - 0 + 0
        BY <2>1, <3>1, Sides, FlagsFollow
      <3> QED BY <1>1, <2>1, <3>2
    <2> QED BY <2>2, <2>3
  <1>4. QueueTypeOK' /\ First' = First
    BY <1>1, QueueKnows DEF QueueTypeOK, Goto, First
  <1>5. Pushers' = Pushers /\ Takers' = Takers /\ \A u \in Pushers : pc'[u] = pc[u]
    BY <1>1, <1>2, OthersStay DEF Pushers, Takers, Callers
  <1>6. PushInv' /\ TakeInv'
    BY <1>1, <1>3, <1>4, <1>5, QueueKnows DEF PushInv, TakeInv, At
  <1> QED BY <1>3, <1>4, <1>5, <1>6 DEF QueueInv

LEMMA ClearEndsKeeps ==
    ASSUME QueueInv, NEW t \in Threads, ClearEnds(t)
    PROVE  QueueInv' /\ Ready' = 0 /\ Takers = {} /\ Takers' = {}
  <1> USE DEF ClearEnds, At, Moves
  <1>1. /\ Goto(t, "idle") /\ pc[t] = "zero" /\ UNCHANGED <<slots, pos, elem>>
        /\ next' = 0 /\ count' = 0 /\ popping' = 0 /\ pushing' = 0
    OBVIOUS
  <1>2. Pushers = {} /\ Takers = {} /\ popping = 1 /\ pushing = 1 /\ Ready = count
    BY <1>1, QueueOwners DEF Pushers, Takers, Callers, PushSide, TakeSide
  <1>3. QueueFlags' /\ Ready' = 0
    <2>1. /\ popping' = popping + 0 - 1 /\ pushing' = pushing + 0 - 1
          /\ count' \in Int /\ count \in Int
      BY <1>1, <1>2, QueueKnows
    <2>2. QueueFlags' /\ Ready' = count' - (count - Ready) - 0 + 0
      BY <1>1, <2>1, Sides, FlagsFollow
    <2> QED BY <1>1, <1>2, <2>1, <2>2
  <1>4. QueueTypeOK'
    BY <1>1, QueueKnows DEF QueueTypeOK, Goto, Slots
  <1>5. Pushers' = {} /\ Takers' = {}
    BY <1>1, <1>2, OthersStay
  <1> QED BY <1>2, <1>3, <1>4, <1>5 DEF QueueInv, PushInv, TakeInv

LEMMA QueueStepKeeps ==
    ASSUME QueueInv, [QueueNext]_queueVars
    PROVE  QueueInv'
  <1>1. CASE UNCHANGED queueVars
    <2>1. UNCHANGED <<next, count, popping, pushing, slots, pos, elem, pc>>
      BY <1>1 DEF queueVars, ctrl
    <2>2. Pushers' = Pushers /\ Takers' = Takers /\ \A P : Callers(P)' = Callers(P)
      BY <2>1 DEF Pushers, Takers, Callers
    <2>3. Ready' = Ready /\ First' = First
      BY <2>1, <2>2 DEF Ready, First
    <2> QED BY <2>1, <2>2, <2>3 DEF QueueInv, QueueTypeOK, QueueFlags, PushInv, TakeInv, At
  <1>2. CASE QueueNext
    BY <1>2, PushBeginsKeeps, PushCopiesKeeps, PushEndsKeeps, TakeBeginsKeeps, TakeCopiesKeeps,
       TakeEndsKeeps, ClearBeginsKeeps, ClearEndsKeeps DEF QueueNext, QueueStep
  <1> QED BY <1>1, <1>2

(* The invariant of CellSyncQueue: whose the flags are, and which slot     *)
(* each push, pop and peek under way has.                                  *)
THEOREM QueueInvariant == QueueSpec => []QueueInv
  BY QueueInitial, QueueStepKeeps, PTL DEF QueueSpec

(* Each flag has one owner as long as it is set, through Clear too, for    *)
(* any number of threads and any depth.                                    *)
THEOREM QueueFlagsOwned == QueueSpec => []QueueFlags
  <1>1. QueueInv => QueueFlags
    BY DEF QueueInv
  <1> QED BY <1>1, QueueInvariant, PTL

(* No element is read while it is written, though both happen outside the  *)
(* transactions on the control words.                                      *)
THEOREM QueueNeverTears == QueueSpec => []QueueSlotsApart
  BY SlotsApart, QueueInvariant, PTL

----------------------------------------------------------------------------
(* CellSyncQueue implements SyncFifo. *)

Elements == Window(slots, First, Ready)
Given    == [t \in Threads |-> IF At(t, "take") THEN slots[pos[t]]
                               ELSE IF At(t, "taken") THEN elem[t] ELSE NoValue]

(* The steps of SyncFifo, over the elements and what the threads got. *)
LEMMA QueueMaps ==
    /\ Elements = <<>> /\ Given = [t \in Threads |-> NoValue] => Queue!Init
    /\ Elements' = Elements /\ Given' = Given => UNCHANGED Queue!syncFifoVars
    /\ \A v \in Values :
         Len(Elements) < Depth /\ Elements' = Append(Elements, v) /\ Given' = Given => Queue!Next
    /\ \A t \in Threads :
         Elements # <<>> /\ Given' = [Given EXCEPT ![t] = Head(Elements)]
             /\ Elements' \in {Elements, Tail(Elements)} => Queue!Next
    /\ \A t \in Threads : Given' = [Given EXCEPT ![t] = NoValue] /\ Elements' = Elements => Queue!Next
    /\ Elements' = <<>> /\ Given' = Given => Queue!Next
  BY DEF Elements, Given, Window, Wrap, First, Queue!Init, Queue!Next, Queue!syncFifoVars,
         Queue!Put, Queue!Look, Queue!Get, Queue!Forget, Queue!Clear

(* What the threads got, when only t moves. *)
LEMMA GivenChanges ==
    ASSUME QueueInv, QueueInv', NEW t \in Threads, NEW where, Goto(t, where), NEW g,
           g = IF where = "take" THEN slots'[pos'[t]]
               ELSE IF where = "taken" THEN elem'[t] ELSE NoValue,
           \A u \in Threads \ {t} : pos'[u] = pos[u] /\ elem'[u] = elem[u],
           \A u \in Takers \ {t} : slots'[pos[u]] = slots[pos[u]]
    PROVE  Given' = [Given EXCEPT ![t] = g]
  <1>1. pc'[t] = where /\ \A u \in Threads \ {t} : pc'[u] = pc[u]
    BY OthersStay
  <1>2. \A u \in Threads : Given'[u] = IF pc'[u] = "take" THEN slots'[pos'[u]]
                                       ELSE IF pc'[u] = "taken" THEN elem'[u] ELSE NoValue
    BY DEF Given, At
  <1>3. \A u \in Threads : Given[u] = IF pc[u] = "take" THEN slots[pos[u]]
                                      ELSE IF pc[u] = "taken" THEN elem[u] ELSE NoValue
    BY DEF Given, At
  <1>4. Given'[t] = g
    BY <1>1, <1>2
  <1>5. ASSUME NEW u \in Threads \ {t} PROVE Given'[u] = Given[u]
    <2>1. pc[u] = "take" => u \in Takers \ {t}
      BY DEF Takers, Callers
    <2> QED BY <1>1, <1>2, <1>3, <2>1
  <1>6. /\ Given = [u \in Threads |-> Given[u]] /\ Given' = [u \in Threads |-> Given'[u]]
    BY DEF Given
  <1> HIDE DEF Given
  <1> QED BY <1>4, <1>5, <1>6

LEMMA QueueStepMaps ==
    ASSUME QueueInv, QueueInv', NEW t \in Threads, QueueStep(t)
    PROVE  Queue!Next \/ UNCHANGED Queue!syncFifoVars
  <1> DEFINE S == Values \cup {NoValue}
  <1>0. /\ slots \in [Slots -> S] /\ Ready \in Int /\ First \in Nat /\ Ready <= count
        /\ First + Ready <= 2 * Depth /\ First + count <= 2 * Depth - 1 /\ Depth \in Nat
        /\ pos \in [Threads -> Slots] /\ elem \in [Threads -> S] /\ count \in Nat
    BY QueueKnows, QueueOwners DEF QueueTypeOK
  <1>1. \A u \in Threads : Given[u] = IF pc[u] = "take" THEN slots[pos[u]]
                                      ELSE IF pc[u] = "taken" THEN elem[u] ELSE NoValue
    BY DEF Given, At
  <1>2. ASSUME Given' = [Given EXCEPT ![t] = Given[t]] PROVE Given' = Given
    <2>1. Given = [u \in Threads |-> Given[u]]
      BY DEF Given
    <2> QED BY <1>2, <2>1
  <1> HIDE DEF S
  <1>3. ASSUME Ready' = Ready, First' = First, slots' = slots PROVE Elements' = Elements
    BY <1>3 DEF Elements
  <1>4. ASSUME NEW v \in Values, PushBegins(t, v) PROVE UNCHANGED Queue!syncFifoVars
    <2>1. /\ Goto(t, "push") /\ pc[t] = "idle" /\ UNCHANGED slots
          /\ \A u \in Threads \ {t} : pos'[u] = pos[u] /\ elem'[u] = elem[u]
      BY <1>0, <1>4 DEF PushBegins, Moves, At, Set
    <2>2. Given' = [Given EXCEPT ![t] = NoValue]
      BY <2>1, GivenChanges
    <2>3. Given' = Given
      BY <1>1, <1>2, <2>1, <2>2
    <2>4. Ready' = Ready /\ \A k \in 0 .. (count - 1) : Wrap(First' + k) = Wrap(First + k)
      BY <1>4, PushBeginsKeeps
    <2>5. \A k \in 0 .. (Ready - 1) : slots[Wrap(First + k)] = slots'[Wrap(First' + k)]
      BY <1>0, <2>1, <2>4
    <2>6. First' \in Int
      BY <1>0, QueueKnows, <1>4 DEF First, PushBegins
    <2>7. Window(slots, First, Ready) = Window(slots', First', Ready)
      BY <1>0, <2>5, <2>6, WindowKept
    <2>8. Elements' = Elements
      BY <2>4, <2>7 DEF Elements
    <2> QED BY <2>3, <2>8, QueueMaps
  <1>5. ASSUME PushCopies(t) PROVE UNCHANGED Queue!syncFifoVars
    <2>1. Goto(t, "pushed") /\ pc[t] = "push" /\ UNCHANGED <<pos, elem>>
      BY <1>5 DEF PushCopies, Moves, At
    <2>2. /\ Ready' = Ready /\ First' = First
          /\ \A k \in 0 .. (Ready - 1) : slots'[Wrap(First + k)] = slots[Wrap(First + k)]
          /\ \A u \in Takers : slots'[pos[u]] = slots[pos[u]]
      BY <1>5, PushCopiesKeeps
    <2>3. Given' = [Given EXCEPT ![t] = NoValue]
      BY <2>1, <2>2, GivenChanges
    <2>4. Given' = Given
      BY <1>1, <1>2, <2>1, <2>3
    <2>5. Window(slots, First, Ready) = Window(slots', First, Ready)
      <3>1. \A k \in 0 .. (Ready - 1) : slots[Wrap(First + k)] = slots'[Wrap(First + k)]
        BY <2>2
      <3>2. First \in Int
        BY <1>0
      <3> QED BY <1>0, <3>1, <3>2, WindowKept
    <2>6. Elements' = Elements
      BY <2>2, <2>5 DEF Elements
    <2> QED BY <2>4, <2>6, QueueMaps
  <1>6. ASSUME PushEnds(t) PROVE Queue!Next
    <2>1. /\ Goto(t, "idle") /\ pc[t] = "pushed" /\ UNCHANGED slots
          /\ \A u \in Threads \ {t} : pos'[u] = pos[u] /\ elem'[u] = elem[u]
      BY <1>0, <1>6 DEF PushEnds, Moves, At, Set
    <2>2. /\ First' = First /\ Ready = count - 1 /\ Ready' = Ready + 1 /\ count' = count
          /\ elem[t] \in Values /\ slots[Wrap(First + Ready)] = elem[t]
      BY <1>6, PushEndsKeeps DEF PushEnds
    <2>3. count >= 1 /\ count <= Depth
      BY <2>1, QueueKnows DEF PushInv, Pushers, Callers
    <2>4. Given' = [Given EXCEPT ![t] = NoValue]
      BY <2>1, GivenChanges
    <2>5. Given' = Given
      BY <1>1, <1>2, <2>1, <2>4
    <2>6. PICK n \in Nat : n = Ready /\ First + n + 1 <= 2 * Depth /\ First + n <= 2 * Depth /\ n < Depth
      BY <1>0, <2>2, <2>3
    <2>7. Window(slots, First, n + 1) = Append(Window(slots, First, n), slots[Wrap(First + n)])
      BY <1>0, <2>6, WindowGrows, Zenon
    <2>8. Elements' = Append(Elements, elem[t])
      BY <2>1, <2>2, <2>6, <2>7 DEF Elements
    <2>9. Len(Elements) = n
      <3>1. Len(Window(slots, First, n)) = n
        BY <1>0, <2>6, WindowSeq, Zenon
      <3> QED BY <2>6, <3>1 DEF Elements
    <2> QED BY <2>2, <2>5, <2>6, <2>8, <2>9, QueueMaps
  <1>7. ASSUME NEW what \in {"pop", "peek"}, TakeBegins(t, what) PROVE Queue!Next
    <2>1. /\ Goto(t, "take") /\ pc[t] = "idle" /\ UNCHANGED slots
          /\ \A u \in Threads \ {t} : pos'[u] = pos[u] /\ elem'[u] = elem[u]
      BY <1>0, <1>7 DEF TakeBegins, Moves, At, Set
    <2>2. /\ Ready >= 1 /\ pos'[t] = Wrap(First)
          /\ IF what = "pop" THEN First' = First + 1 /\ Ready' = Ready - 1
                             ELSE First' = First /\ Ready' = Ready
      BY <1>7, TakeBeginsKeeps
    <2>3. Given' = [Given EXCEPT ![t] = slots[Wrap(First)]]
      BY <2>1, <2>2, GivenChanges
    <2>4. PICK n \in Nat \ {0} : n = Ready /\ First + n <= 2 * Depth /\ n \in Nat /\ n # 0
      BY <1>0, <2>2
    <2>5. /\ Head(Window(slots, First, n)) = slots[Wrap(First)]
          /\ Tail(Window(slots, First, n)) = Window(slots, First + 1, n - 1)
      BY <1>0, <2>4, WindowShrinks, Zenon
    <2>6. Elements # <<>>
      <3>1. Len(Window(slots, First, n)) = n
        BY <1>0, <2>4, WindowSeq, Zenon
      <3> QED BY <2>4, <3>1 DEF Elements
    <2>7. Head(Elements) = slots[Wrap(First)] /\ Elements' \in {Elements, Tail(Elements)}
      BY <2>1, <2>2, <2>4, <2>5 DEF Elements
    <2> QED BY <2>3, <2>6, <2>7, QueueMaps
  <1>8. ASSUME TakeCopies(t) PROVE UNCHANGED Queue!syncFifoVars
    <2>1. /\ Goto(t, "taken") /\ pc[t] = "take" /\ UNCHANGED <<slots, pos>>
          /\ elem'[t] = slots[pos[t]]
          /\ \A u \in Threads \ {t} : elem'[u] = elem[u]
      BY <1>0, <1>8 DEF TakeCopies, Moves, At, Set
    <2>2. Given' = [Given EXCEPT ![t] = slots[pos[t]]]
      BY <2>1, GivenChanges
    <2>3. Given' = Given
      BY <1>1, <1>2, <2>1, <2>2
    <2>4. Elements' = Elements
      BY <1>3, <1>8, <2>1, TakeCopiesKeeps
    <2> QED BY <2>3, <2>4, QueueMaps
  <1>9. ASSUME TakeEnds(t) PROVE Queue!Next
    <2>1. /\ Goto(t, "idle") /\ UNCHANGED slots
          /\ \A u \in Threads \ {t} : pos'[u] = pos[u] /\ elem'[u] = elem[u]
      BY <1>0, <1>9 DEF TakeEnds, Moves, At, Set
    <2>2. Given' = [Given EXCEPT ![t] = NoValue]
      BY <2>1, GivenChanges
    <2>3. Elements' = Elements
      BY <1>3, <1>9, <2>1, TakeEndsKeeps
    <2> QED BY <2>2, <2>3, QueueMaps
  <1>10. ASSUME ClearStops(t) \/ ClearOwns(t) PROVE UNCHANGED Queue!syncFifoVars
    <2>1. PICK where \in {"clear", "zero"} : Goto(t, where)
      BY <1>10 DEF ClearStops, ClearOwns, Moves
    <2>2. pc[t] \in {"idle", "clear"} /\ UNCHANGED <<slots, pos, elem>>
      BY <1>10 DEF ClearStops, ClearOwns, Moves, At
    <2>3. Given' = [Given EXCEPT ![t] = NoValue]
      BY <2>1, <2>2, GivenChanges
    <2>4. Given' = Given
      BY <1>1, <1>2, <2>2, <2>3
    <2>5. Elements' = Elements
      BY <1>3, <1>10, <2>2, ClearBeginsKeeps
    <2> QED BY <2>4, <2>5, QueueMaps
  <1>11. ASSUME ClearEnds(t) PROVE Queue!Next
    <2>1. Goto(t, "idle") /\ pc[t] = "zero" /\ UNCHANGED <<slots, pos, elem>>
      BY <1>11 DEF ClearEnds, Moves, At
    <2>2. Given' = [Given EXCEPT ![t] = NoValue]
      BY <2>1, GivenChanges
    <2>3. Given' = Given
      BY <1>1, <1>2, <2>1, <2>2
    <2>4. Ready' = 0
      BY <1>11, ClearEndsKeeps
    <2>5. Elements' = <<>>
      BY <2>4 DEF Elements, Window
    <2> QED BY <2>3, <2>5, QueueMaps
  <1> QED BY <1>4, <1>5, <1>6, <1>7, <1>8, <1>9, <1>10, <1>11 DEF QueueStep

(* However pushes, pops, peeks and clears overlap, CellSyncQueue is a      *)
(* bounded FIFO: it implements SyncFifo, for any threads, values and depth.*)
THEOREM QueueImplementsFifo == QueueSpec => QueueIsFifo
  <1>1. QueueInit => Queue!Init
    <2> SUFFICES ASSUME QueueInit PROVE Queue!Init
      OBVIOUS
    <2>1. Pushers = {}
      BY DEF QueueInit, NobodyCalls, Pushers, Callers
    <2>2. Ready = 0
      BY <2>1, FS_EmptySet DEF QueueInit, Ready
    <2>3. Elements = <<>>
      BY <2>2 DEF Elements, Window
    <2>4. Given = [t \in Threads |-> NoValue]
      BY DEF QueueInit, NobodyCalls, Given, At
    <2> QED BY <2>3, <2>4, QueueMaps
  <1>2. QueueInv /\ QueueInv' /\ [QueueNext]_queueVars => [Queue!Next]_(Queue!syncFifoVars)
    <2> SUFFICES ASSUME QueueInv, QueueInv', [QueueNext]_queueVars
                 PROVE  Queue!Next \/ UNCHANGED Queue!syncFifoVars
      OBVIOUS
    <2>1. CASE QueueNext
      BY <2>1, QueueStepMaps DEF QueueNext
    <2>2. CASE UNCHANGED queueVars
      BY <2>2 DEF queueVars, ctrl, Queue!syncFifoVars, Ready, Pushers, Callers, At
    <2> QED BY <2>1, <2>2
  <1> QED BY <1>1, <1>2, QueueInvariant, PTL DEF QueueSpec, QueueIsFifo, Queue!Spec

----------------------------------------------------------------------------
(* CellSyncLFQueue. *)

LockHolders == Callers({"check", "publish"})

(* The spinlock has one holder as long as it is set. *)
SpinlockInv == lock = Cardinality(LockHolders)

(* The tail is size places behind the head. *)
LFRingInv == tail = Wrap(head + size)

ItemInv == \A t \in Threads : op[t] = "push" => item[t] \in Values

(* Between the copy and the new indices, under the lock, there is room for *)
(* what was pushed, and what was popped is still the oldest element.       *)
PublishInv ==
    \A t \in Callers({"publish"}) :
        \/ op[t] = "push" /\ size < Depth /\ cells[tail] = item[t]
        \/ op[t] = "pop" /\ size >= 1 /\ cells[head] = item[t]

LFQueueInv == LFQueueTypeOK /\ SpinlockInv /\ LFRingInv /\ ItemInv /\ PublishInv

LEMMA LFQueueKnows ==
    ASSUME LFQueueInv
    PROVE  /\ LFQueueTypeOK /\ LFRingInv /\ ItemInv /\ PublishInv
           /\ Depth \in Nat \ {0} /\ head \in 0 .. (Depth - 1) /\ size \in 0 .. Depth
           /\ tail \in Slots /\ lock \in {0, 1}
           /\ lock = 0 => LockHolders = {}
           /\ \A t \in LockHolders : LockHolders = {t} /\ lock = 1
  <1>1. LFQueueTypeOK /\ SpinlockInv /\ LFRingInv /\ ItemInv /\ PublishInv
    BY DEF LFQueueInv
  <1>2. /\ Depth \in Nat \ {0} /\ head \in 0 .. (Depth - 1) /\ size \in 0 .. Depth
        /\ tail \in Slots /\ lock \in {0, 1}
    BY <1>1, QueueAssumption DEF LFQueueTypeOK, Slots
  <1>3. lock = Cardinality(Callers({"check", "publish"}))
    BY <1>1 DEF SpinlockInv, LockHolders
  <1>4. /\ lock = 0 => Callers({"check", "publish"}) = {}
        /\ \A t \in Callers({"check", "publish"}) : Callers({"check", "publish"}) = {t} /\ lock = 1
    BY <1>2, <1>3, OneOwner
  <1> QED BY <1>1, <1>2, <1>4 DEF LockHolders

LEMMA LFQueueInitial == LFQueueInit => LFQueueInv
  <1> SUFFICES ASSUME LFQueueInit PROVE LFQueueInv
    OBVIOUS
  <1>1. LockHolders = {} /\ Callers({"publish"}) = {}
    BY DEF LFQueueInit, NobodyCalls, Callers, LockHolders
  <1>2. LFQueueTypeOK
    BY QueueAssumption DEF LFQueueInit, LFQueueTypeOK, NobodyCalls, Slots
  <1>3. Wrap(0) = 0 /\ 0 + 0 = 0
    BY Wraps, QueueAssumption
  <1>4. SpinlockInv
    BY <1>1, FS_EmptySet DEF LFQueueInit, SpinlockInv
  <1> QED BY <1>1, <1>2, <1>3, <1>4 DEF LFQueueInv, LFQueueInit, LFRingInv, ItemInv, PublishInv

(* The lock follows the thread that moves. *)
LEMMA LockFollows ==
    ASSUME LFQueueInv, NEW t \in Threads, NEW where, Goto(t, where),
           lock' = lock + Among(where, {"check", "publish"}) - Among(pc[t], {"check", "publish"})
    PROVE  SpinlockInv'
  <1> DEFINE P == {"idle", "spin", "acquire", "check", "publish"}
  <1>1. pc \in [Threads -> P]
    BY DEF LFQueueInv, LFQueueTypeOK
  <1> HIDE DEF P
  <1>2. \A places : Cardinality(Callers(places)') =
                      Cardinality(Callers(places)) + Among(where, places) - Among(pc[t], places)
    BY <1>1, GotoCounts DEF Among
  <1>3. lock = Cardinality(Callers({"check", "publish"}))
    BY DEF LFQueueInv, SpinlockInv, LockHolders
  <1>4. lock' = Cardinality(Callers({"check", "publish"})')
    BY <1>2, <1>3, Zenon
  <1> QED BY <1>4 DEF SpinlockInv, LockHolders

LEMMA LockPlaces ==
    /\ Among("check", {"check", "publish"}) = 1 /\ Among("publish", {"check", "publish"}) = 1
    /\ \A p \in {"idle", "spin", "acquire"} : Among(p, {"check", "publish"}) = 0
  BY DEF Among

(* A step that leaves the ring alone and does not publish. *)
Quiet(t) ==
    /\ UNCHANGED <<head, tail, size, cells>> /\ pc[t] # "publish"
    /\ \E where \in {"idle", "spin", "acquire", "check"} : Goto(t, where)
    /\ \A u \in Threads \ {t} : op'[u] = op[u] /\ item'[u] = item[u]

LEMMA LFQuietStep ==
    ASSUME LFQueueInv, NEW t \in Threads, Quiet(t), LFQueueTypeOK', SpinlockInv',
           op'[t] = "push" => item'[t] \in Values
    PROVE  LFQueueInv'
  <1> USE DEF Quiet
  <1>1. \A u \in Callers({"publish"})' : u # t /\ u \in Callers({"publish"}) /\ u \in Threads
    BY LFQueueKnows DEF Callers, Goto, LFQueueTypeOK
  <1>2. PublishInv'
    BY <1>1, LFQueueKnows DEF PublishInv
  <1>3. ItemInv'
    BY LFQueueKnows DEF ItemInv
  <1>4. LFRingInv'
    BY LFQueueKnows DEF LFRingInv
  <1> QED BY <1>2, <1>3, <1>4 DEF LFQueueInv

LEMMA StartsKeeps ==
    ASSUME LFQueueInv, NEW t \in Threads, NEW what \in {"push", "pop", "clear"}, NEW once1 \in BOOLEAN,
           NEW v \in Values \cup {NoValue}, what = "push" => v \in Values,
           NEW where \in {"spin", "acquire"}, Starts(t, what, once1, v, where)
    PROVE  LFQueueInv' /\ Quiet(t)
  <1> USE DEF Starts, Moves, At, ring
  <1>1. LFQueueTypeOK'
    BY LFQueueKnows DEF LFQueueTypeOK, Goto
  <1>2. SpinlockInv'
    <2>1. lock' = lock + 0 - 0
      BY LFQueueKnows
    <2> QED BY <2>1, LockPlaces, LockFollows
  <1>3. /\ \A u \in Threads \ {t} : op'[u] = op[u] /\ item'[u] = item[u]
        /\ op'[t] = "push" => item'[t] \in Values
    BY LFQueueKnows DEF LFQueueTypeOK
  <1>4. Quiet(t)
    BY <1>3 DEF Quiet
  <1> QED BY <1>1, <1>2, <1>3, <1>4, LFQuietStep

LEMMA CallKeeps ==
    ASSUME LFQueueInv, NEW t \in Threads, LFQueueCall(t)
    PROVE  LFQueueInv' /\ Quiet(t)
  <1> USE DEF cellSyncLFQueuePush, cellSyncLFQueuePop, cellSyncLFQueueClear,
              cellSyncLFQueueTryPush, cellSyncLFQueueTryPop
  <1>1. CASE \E v \in Values : cellSyncLFQueuePush(t, v) \/ cellSyncLFQueueTryPush(t, v)
    BY <1>1, StartsKeeps
  <1>2. CASE cellSyncLFQueuePop(t) \/ cellSyncLFQueueTryPop(t)
    BY <1>2, StartsKeeps
  <1>3. CASE cellSyncLFQueueClear(t)
    BY <1>3, StartsKeeps
  <1> QED BY <1>1, <1>2, <1>3 DEF LFQueueCall

(* The steps that take the lock, give it back without a change, or wait. *)
LEMMA LockingKeeps ==
    ASSUME LFQueueInv, NEW t \in Threads,
           SpinEnds(t) \/ Acquires(t) \/ TryGivesUp(t) \/ ChecksAgain(t)
    PROVE  LFQueueInv' /\ Quiet(t)
  <1> USE DEF SpinEnds, Acquires, TryGivesUp, ChecksAgain, Returns, Moves, At, ring
  <1>1. LFQueueTypeOK'
    BY LFQueueKnows DEF LFQueueTypeOK, Goto
  <1>2. SpinlockInv'
    <2>1. CASE SpinEnds(t)
      <3>1. Goto(t, "acquire") /\ pc[t] = "spin" /\ lock' = lock + 0 - 0
        BY <2>1, LFQueueKnows
      <3> QED BY <3>1, LockPlaces, LockFollows
    <2>2. CASE Acquires(t)
      <3>1. Goto(t, "check") /\ pc[t] = "acquire" /\ lock' = lock + 1 - 0
        BY <2>2, LFQueueKnows
      <3> QED BY <3>1, LockPlaces, LockFollows
    <2>3. CASE TryGivesUp(t)
      <3>1. Goto(t, "idle") /\ pc[t] = "acquire" /\ lock' = lock + 0 - 0
        BY <2>3, LFQueueKnows
      <3> QED BY <3>1, LockPlaces, LockFollows
    <2>4. CASE ChecksAgain(t)
      <3>1. lock = 1
        BY <2>4, LFQueueKnows DEF LockHolders, Callers
      <3>2. PICK where \in {"idle", "spin"} : Goto(t, where)
        BY <2>4
      <3>3. pc[t] = "check" /\ lock' = lock + 0 - 1
        BY <2>4, <3>1
      <3> QED BY <3>2, <3>3, LockPlaces, LockFollows
    <2> QED BY <2>1, <2>2, <2>3, <2>4
  <1>3. /\ \A u \in Threads \ {t} : op'[u] = op[u] /\ item'[u] = item[u]
        /\ op'[t] = "push" => item'[t] \in Values
    BY LFQueueKnows DEF LFQueueTypeOK, ItemInv
  <1>4. Quiet(t)
    BY <1>3 DEF Quiet
  <1> QED BY <1>1, <1>2, <1>3, <1>4, LFQuietStep

(* The slots that hold elements are not the slot that is written. *)
LEMMA TailIsFree ==
    ASSUME LFQueueInv, NEW k \in 0 .. (size - 1), size < Depth
    PROVE  Wrap(head + k) # tail /\ Wrap(head + k) \in Slots
  <1>1. PICK x \in 0 .. (2 * Depth - 1), y \in 0 .. (2 * Depth - 1) :
            x = head + k /\ y = head + size /\ x < y /\ y < x + Depth
    BY LFQueueKnows
  <1>2. Wrap(x) # Wrap(y) /\ Wrap(x) \in Slots
    BY <1>1, Wraps, WrapsApart
  <1> QED BY <1>1, <1>2, LFQueueKnows DEF LFRingInv

LEMMA CopiesKeeps ==
    ASSUME LFQueueInv, NEW t \in Threads, Copies(t)
    PROVE  LFQueueInv'
  <1> USE DEF Copies, At, ring
  <1>1. /\ Goto(t, "publish") /\ pc[t] = "check" /\ UNCHANGED <<head, tail, size, lock, op, once>>
        /\ op[t] \in {"push", "pop"} /\ item[t] \in Values \cup {NoValue}
        /\ head \in Slots /\ tail \in Slots
    BY LFQueueKnows DEF LFQueueTypeOK
  <1>2. LFQueueTypeOK'
    BY <1>1, LFQueueKnows DEF LFQueueTypeOK, Goto
  <1>3. SpinlockInv'
    <2>1. lock' = lock + 1 - 1
      BY <1>1, LFQueueKnows
    <2> QED BY <1>1, <2>1, LockPlaces, LockFollows
  <1>4. LFRingInv'
    BY <1>1, LFQueueKnows DEF LFRingInv
  <1>5. LockHolders = {t}
    BY <1>1, LFQueueKnows DEF LockHolders, Callers
  <1>6. Callers({"publish"})' = {t}
    BY <1>1, <1>5, LFQueueKnows DEF LockHolders, Callers, Goto, LFQueueTypeOK
  <1>7. CASE op[t] = "push"
    <2>1. /\ size < Depth /\ cells' = [cells EXCEPT ![tail] = item[t]] /\ item' = item
      BY <1>1, <1>7, LFQueueKnows DEF Stuck
    <2>2. cells'[tail'] = item'[t]
      BY <1>1, <2>1, LFQueueKnows DEF LFQueueTypeOK
    <2>3. ItemInv' /\ PublishInv'
      BY <1>1, <1>6, <1>7, <2>1, <2>2, LFQueueKnows DEF ItemInv, PublishInv
    <2> QED BY <1>2, <1>3, <1>4, <2>3 DEF LFQueueInv
  <1>8. CASE op[t] = "pop"
    <2>1. /\ size >= 1 /\ cells' = cells /\ item' = [item EXCEPT ![t] = cells[head]]
      BY <1>1, <1>8, LFQueueKnows DEF Stuck
    <2>2. item'[t] = cells[head] /\ \A u \in Threads \ {t} : item'[u] = item[u]
      BY <2>1, LFQueueKnows DEF LFQueueTypeOK
    <2>3. ItemInv' /\ PublishInv'
      BY <1>1, <1>6, <1>8, <2>1, <2>2, LFQueueKnows DEF ItemInv, PublishInv
    <2> QED BY <1>2, <1>3, <1>4, <2>3 DEF LFQueueInv
  <1> QED BY <1>1, <1>7, <1>8

LEMMA PublishesKeeps ==
    ASSUME LFQueueInv, NEW t \in Threads, Publishes(t)
    PROVE  LFQueueInv'
  <1> USE DEF Publishes, At, Returns
  <1>1. /\ Goto(t, "idle") /\ pc[t] = "publish" /\ lock' = 0 /\ UNCHANGED cells
        /\ t \in Callers({"publish"})
    BY DEF Callers
  <1>2. LockHolders = {t} /\ lock = 1
    BY <1>1, LFQueueKnows DEF LockHolders, Callers
  <1>3. SpinlockInv'
    <2>1. lock' = lock + 0 - 1
      BY <1>1, <1>2
    <2> QED BY <1>1, <2>1, LockPlaces, LockFollows
  <1>4. /\ head' \in Slots /\ tail' \in Slots /\ size' \in 0 .. Depth /\ LFRingInv'
    <2>1. CASE op[t] = "push"
      <3>1. size < Depth /\ tail' = Wrap(tail + 1) /\ size' = size + 1 /\ head' = head
        BY <1>1, <2>1, LFQueueKnows DEF PublishInv, Wrap
      <3>2. PICK x \in 0 .. (2 * Depth - 1), y \in 0 .. (2 * Depth - 1), z \in 0 .. (2 * Depth - 1) :
                x = head + size /\ y = head + size + 1 /\ z = tail + 1
        BY <3>1, LFQueueKnows DEF Slots
      <3>3. /\ Wrap(x) = IF x < Depth THEN x ELSE x - Depth
            /\ Wrap(y) = IF y < Depth THEN y ELSE y - Depth
            /\ Wrap(z) = IF z < Depth THEN z ELSE z - Depth
        BY Wraps
      <3>4. tail = Wrap(x)
        BY <3>2, LFQueueKnows DEF LFRingInv
      <3>5. Wrap(y) = Wrap(z) /\ Wrap(y) \in Slots
        BY <3>2, <3>3, <3>4, LFQueueKnows, Wraps
      <3>6. head' + size' = y
        BY <3>1, <3>2, LFQueueKnows
      <3> QED BY <3>1, <3>2, <3>5, <3>6, LFQueueKnows DEF LFRingInv, Slots
    <2>2. CASE op[t] # "push"
      <3>1. size >= 1 /\ head' = Wrap(head + 1) /\ size' = size - 1 /\ tail' = tail
        BY <1>1, <2>2, LFQueueKnows DEF PublishInv, Wrap
      <3>2. PICK x \in 0 .. (2 * Depth - 1), y \in 0 .. (2 * Depth - 1) :
                x = head + size /\ y = head + 1
        BY <3>1, LFQueueKnows
      <3>3. /\ Wrap(x) = IF x < Depth THEN x ELSE x - Depth
            /\ Wrap(y) = IF y < Depth THEN y ELSE y - Depth
        BY Wraps
      <3>4. PICK z \in 0 .. (2 * Depth - 1) : z = Wrap(y) + (size - 1)
        BY <3>1, <3>2, <3>3, LFQueueKnows
      <3>5. Wrap(z) = IF z < Depth THEN z ELSE z - Depth
        BY Wraps
      <3>6. Wrap(z) = Wrap(x)
        BY <3>1, <3>2, <3>3, <3>4, <3>5, LFQueueKnows
      <3>7. Wrap(y) \in Slots
        BY Wraps
      <3> QED BY <3>1, <3>2, <3>4, <3>6, <3>7, LFQueueKnows DEF LFRingInv
    <2> QED BY <2>1, <2>2
  <1>5. LFQueueTypeOK'
    BY <1>1, <1>4, LFQueueKnows DEF LFQueueTypeOK, Goto
  <1>6. ItemInv'
    BY LFQueueKnows DEF ItemInv, LFQueueTypeOK
  <1>7. Callers({"publish"})' = {}
    BY <1>1, <1>2, LFQueueKnows DEF LockHolders, Callers, Goto, LFQueueTypeOK
  <1> QED BY <1>3, <1>4, <1>5, <1>6, <1>7 DEF LFQueueInv, PublishInv

LEMMA ClearsKeeps ==
    ASSUME LFQueueInv, NEW t \in Threads, Clears(t)
    PROVE  LFQueueInv'
  <1> USE DEF Clears, At, Returns
  <1>1. /\ Goto(t, "idle") /\ pc[t] = "check" /\ UNCHANGED cells
        /\ head' = 0 /\ tail' = 0 /\ size' = 0 /\ lock' = 0
    OBVIOUS
  <1>2. LockHolders = {t} /\ lock = 1
    BY <1>1, LFQueueKnows DEF LockHolders, Callers
  <1>3. SpinlockInv'
    <2>1. lock' = lock + 0 - 1
      BY <1>1, <1>2
    <2> QED BY <1>1, <2>1, LockPlaces, LockFollows
  <1>4. LFQueueTypeOK'
    BY <1>1, LFQueueKnows DEF LFQueueTypeOK, Goto, Slots
  <1>5. Wrap(0) = 0 /\ 0 + 0 = 0
    BY Wraps, QueueAssumption
  <1>6. LFRingInv' /\ ItemInv'
    BY <1>1, <1>5, LFQueueKnows DEF LFRingInv, ItemInv, LFQueueTypeOK
  <1>7. Callers({"publish"})' = {}
    BY <1>1, <1>2, LFQueueKnows DEF LockHolders, Callers, Goto, LFQueueTypeOK
  <1> QED BY <1>3, <1>4, <1>6, <1>7 DEF LFQueueInv, PublishInv

LEMMA LFQueueStep ==
    ASSUME LFQueueInv, [LFQueueNext]_lfQueueVars
    PROVE  LFQueueInv'
  <1>1. CASE UNCHANGED lfQueueVars
    BY <1>1 DEF lfQueueVars, ring, LFQueueInv, LFQueueTypeOK, SpinlockInv, LFRingInv, ItemInv,
                PublishInv, LockHolders, Callers
  <1>2. CASE LFQueueNext
    BY <1>2, CallKeeps, LockingKeeps, CopiesKeeps, PublishesKeeps, ClearsKeeps
    DEF LFQueueNext, LFQueueRun
  <1> QED BY <1>1, <1>2

(* The invariant of CellSyncLFQueue: the second look at the count, under   *)
(* the lock, makes room for what is written and an element for what is     *)
(* read.                                                                   *)
THEOREM LFQueueInvariant == LFQueueSpec => []LFQueueInv
  BY LFQueueInitial, LFQueueStep, PTL DEF LFQueueSpec

----------------------------------------------------------------------------
(* CellSyncLFQueue implements SyncFifo. *)

LFElements == Window(cells, head + Taken, size - Taken)
LFGiven    == [t \in Threads |-> IF t \in Taking THEN item[t] ELSE NoValue]

LEMMA LFQueueMaps ==
    /\ LFElements = <<>> /\ LFGiven = [t \in Threads |-> NoValue] => LFQueue!Init
    /\ LFElements' = LFElements /\ LFGiven' = LFGiven => UNCHANGED LFQueue!syncFifoVars
    /\ \A v \in Values :
         Len(LFElements) < Depth /\ LFElements' = Append(LFElements, v) /\ LFGiven' = LFGiven
             => LFQueue!Next
    /\ \A t \in Threads :
         LFElements # <<>> /\ LFGiven' = [LFGiven EXCEPT ![t] = Head(LFElements)]
             /\ LFElements' = Tail(LFElements) => LFQueue!Next
    /\ \A t \in Threads : LFGiven' = [LFGiven EXCEPT ![t] = NoValue] /\ LFElements' = LFElements
             => LFQueue!Next
    /\ LFElements' = <<>> /\ LFGiven' = LFGiven => LFQueue!Next
  BY DEF LFElements, LFGiven, Window, Wrap, LFQueue!Init, LFQueue!Next, LFQueue!syncFifoVars,
         LFQueue!Put, LFQueue!Look, LFQueue!Get, LFQueue!Forget, LFQueue!Clear

(* At most one pop has its element, and it holds the lock. *)
LEMMA OneTakes ==
    ASSUME LFQueueInv
    PROVE  /\ Taking = {} \/ \E t \in Threads : Taking = {t} /\ pc[t] = "publish" /\ op[t] = "pop"
           /\ \A t \in LockHolders : Taking = IF pc[t] = "publish" /\ op[t] = "pop" THEN {t} ELSE {}
           /\ Taken \in {0, 1} /\ (Taken = 0 <=> Taking = {})
  <1>1. \A t \in Taking : t \in Threads /\ t \in LockHolders /\ pc[t] = "publish" /\ op[t] = "pop"
    BY DEF Taking, At, LockHolders, Callers
  <1>2. \A t \in LockHolders : t \in Threads /\ LockHolders = {t}
    BY LFQueueKnows DEF LockHolders, Callers
  <1>3. \A t \in LockHolders : Taking = IF pc[t] = "publish" /\ op[t] = "pop" THEN {t} ELSE {}
    BY <1>1, <1>2 DEF Taking, At
  <1>4. Taking = {} \/ \E t \in Threads : Taking = {t} /\ pc[t] = "publish" /\ op[t] = "pop"
    BY <1>1, <1>3
  <1>5. Taken \in {0, 1} /\ (Taken = 0 <=> Taking = {})
    BY <1>4, FS_EmptySet, FS_Singleton DEF Taken
  <1> QED BY <1>3, <1>4, <1>5

(* The steps that leave the ring alone change nothing. *)
LEMMA QuietMaps ==
    ASSUME LFQueueInv, NEW t \in Threads, Quiet(t)
    PROVE  UNCHANGED LFQueue!syncFifoVars
  <1>1. Taking' = Taking /\ t \notin Taking
    BY LFQueueKnows DEF Taking, At, Quiet, Goto, LFQueueTypeOK
  <1>2. LFElements' = LFElements
    BY <1>1 DEF LFElements, Taken, Quiet
  <1>3. LFGiven' = LFGiven
    BY <1>1 DEF LFGiven, Quiet
  <1> QED BY <1>2, <1>3, LFQueueMaps

LEMMA LFRunMaps ==
    ASSUME LFQueueInv, LFQueueInv', NEW t \in Threads, Copies(t) \/ Publishes(t) \/ Clears(t)
    PROVE  LFQueue!Next \/ UNCHANGED LFQueue!syncFifoVars
  <1> DEFINE S == Values \cup {NoValue}
  <1>1. /\ cells \in [Slots -> S] /\ Depth \in Nat \ {0} /\ head \in Nat /\ head < Depth
        /\ size \in Nat /\ size <= Depth /\ head + size <= 2 * Depth
    BY LFQueueKnows DEF LFQueueTypeOK
  <1>2. LockHolders = {t}
    BY LFQueueKnows DEF Copies, Publishes, Clears, At, LockHolders, Callers
  <1>3. Taking = IF pc[t] = "publish" /\ op[t] = "pop" THEN {t} ELSE {}
    BY <1>2, OneTakes
  <1>4. \A u \in Threads : /\ LFGiven[u] = IF u \in Taking THEN item[u] ELSE NoValue
                           /\ LFGiven'[u] = IF u \in Taking' THEN item'[u] ELSE NoValue
    BY DEF LFGiven
  <1>5. LFGiven = [u \in Threads |-> LFGiven[u]] /\ LFGiven' = [u \in Threads |-> LFGiven'[u]]
    BY DEF LFGiven
  <1>6. /\ Taken \in {0, 1} /\ (Taken = 0 <=> Taking = {})
        /\ (Taking' = {} => Taken' = 0) /\ (Taking' = {t} => Taken' = 1)
    BY OneTakes, FS_EmptySet, FS_Singleton DEF Taken
  <1> HIDE DEF S, LFGiven
  <1>7. ASSUME Copies(t), op[t] = "push" PROVE UNCHANGED LFQueue!syncFifoVars
    <2>1. /\ pc[t] = "check" /\ Goto(t, "publish") /\ UNCHANGED <<head, tail, size, op, item>>
          /\ size < Depth /\ cells' = [cells EXCEPT ![tail] = item[t]]
      BY <1>7, LFQueueKnows DEF Copies, At, ring, Stuck
    <2>2. Taking = {} /\ Taking' = {}
      BY <1>3, <1>7, <2>1, LFQueueKnows DEF Taking, At, Goto, LFQueueTypeOK
    <2>3. LFGiven' = LFGiven
      BY <1>4, <1>5, <2>2
    <2>4. Taken = 0 /\ Taken' = 0
      BY <1>6, <2>2
    <2>5. \A k \in 0 .. (size - 1) : cells[Wrap(head + k)] = cells'[Wrap(head + k)]
      BY <1>1, <2>1, TailIsFree
    <2>6. size \in Int /\ head \in Int /\ head + 0 = head /\ size - 0 = size
      BY <1>1
    <2>7. Window(cells, head, size) = Window(cells', head, size)
      BY <2>5, <2>6, WindowKept
    <2>8. LFElements' = LFElements
      BY <2>1, <2>4, <2>6, <2>7 DEF LFElements
    <2> QED BY <2>3, <2>8, LFQueueMaps
  <1>8. ASSUME Copies(t), op[t] = "pop" PROVE LFQueue!Next
    <2>1. /\ pc[t] = "check" /\ Goto(t, "publish") /\ UNCHANGED <<head, tail, size, op, cells>>
          /\ size >= 1 /\ item' = [item EXCEPT ![t] = cells[head]]
      BY <1>8, LFQueueKnows DEF Copies, At, ring, Stuck
    <2>2. Taking = {} /\ Taking' = {t}
      BY <1>3, <1>8, <2>1, LFQueueKnows DEF Taking, At, Goto, LFQueueTypeOK
    <2>3. Taken = 0 /\ Taken' = 1
      BY <1>6, <2>2
    <2>4. item'[t] = cells[head]
      BY <2>1, LFQueueKnows DEF LFQueueTypeOK
    <2>5. LFGiven' = [LFGiven EXCEPT ![t] = cells[head]]
      BY <1>4, <1>5, <2>2, <2>4
    <2>6. size \in Nat \ {0} /\ size \in Nat /\ head + 0 = head /\ size - 0 = size
      BY <1>1, <2>1
    <2>7. /\ Head(Window(cells, head, size)) = cells[Wrap(head)]
          /\ Tail(Window(cells, head, size)) = Window(cells, head + 1, size - 1)
      BY <1>1, <2>6, WindowShrinks, Zenon
    <2>8. Len(Window(cells, head, size)) = size
      BY <1>1, <2>6, WindowSeq, Zenon
    <2>9. Wrap(head) = head
      <3>1. head \in 0 .. (2 * Depth - 1)
        BY <1>1
      <3> QED BY <1>1, <3>1, Wraps
    <2>10. LFElements = Window(cells, head, size) /\ LFElements' = Window(cells, head + 1, size - 1)
      BY <2>1, <2>3, <2>6 DEF LFElements
    <2>11. LFElements # <<>>
      BY <2>6, <2>8, <2>10
    <2> QED BY <2>5, <2>7, <2>9, <2>10, <2>11, LFQueueMaps
  <1>9. ASSUME Publishes(t), op[t] = "push" PROVE LFQueue!Next
    <2>1. /\ pc[t] = "publish" /\ Goto(t, "idle") /\ UNCHANGED <<head, cells>> /\ size' = size + 1
          /\ t \in Callers({"publish"})
      BY <1>9 DEF Publishes, At, Returns, Callers
    <2>2. size < Depth /\ cells[tail] = item[t] /\ item[t] \in Values /\ tail = Wrap(head + size)
      BY <1>9, <2>1, LFQueueKnows DEF PublishInv, ItemInv, LFRingInv
    <2>3. Taking = {} /\ Taking' = {}
      BY <1>2, <1>3, <1>9, <2>1, LFQueueKnows DEF Taking, At, Goto, LFQueueTypeOK, Publishes, Returns
    <2>4. LFGiven' = LFGiven
      BY <1>4, <1>5, <2>3
    <2>5. Taken = 0 /\ Taken' = 0
      BY <1>6, <2>3
    <2>6. head + 0 = head /\ size - 0 = size /\ head + size + 1 <= 2 * Depth /\ (size + 1) - 0 = size + 1
      BY <1>1, <2>2
    <2>7. Window(cells, head, size + 1) = Append(Window(cells, head, size), cells[Wrap(head + size)])
      BY <1>1, <2>6, WindowGrows, Zenon
    <2>8. Len(Window(cells, head, size)) = size
      BY <1>1, WindowSeq, Zenon
    <2>9. LFElements = Window(cells, head, size) /\ LFElements' = Window(cells, head, size + 1)
      BY <2>1, <2>5, <2>6 DEF LFElements
    <2> QED BY <2>2, <2>4, <2>7, <2>8, <2>9, LFQueueMaps
  <1>10. ASSUME Publishes(t), op[t] # "push" PROVE LFQueue!Next
    <2>1. /\ pc[t] = "publish" /\ Goto(t, "idle") /\ UNCHANGED cells /\ size' = size - 1
          /\ head' = Wrap(head + 1) /\ t \in Callers({"publish"})
      BY <1>10 DEF Publishes, At, Returns, Callers, Wrap
    <2>2. op[t] = "pop" /\ size >= 1
      BY <1>10, <2>1, LFQueueKnows DEF PublishInv
    <2>3. Taking = {t} /\ Taking' = {}
      <3>1. Taking = {t}
        BY <1>3, <2>1, <2>2
      <3>2. pc'[t] = "idle" /\ op'[t] = "clear" /\ \A u \in Threads \ {t} : pc'[u] = pc[u] /\ op'[u] = op[u]
        BY <1>10, LFQueueKnows DEF Goto, LFQueueTypeOK, Publishes, Returns
      <3>3. \A u \in Threads \ {t} : ~(pc[u] = "publish" /\ op[u] = "pop")
        BY <3>1 DEF Taking, At
      <3> QED BY <3>1, <3>2, <3>3 DEF Taking, At
    <2>4. LFGiven' = [LFGiven EXCEPT ![t] = NoValue]
      BY <1>4, <1>5, <2>3
    <2>5. Taken = 1 /\ Taken' = 0
      BY <1>6, <2>3
    <2>6. ASSUME NEW k \in 0 .. (size - 2) PROVE Wrap(head + 1 + k) = Wrap(Wrap(head + 1) + k)
      <3>1. PICK x \in 0 .. (2 * Depth - 1), y \in 0 .. (2 * Depth - 1) :
                x = head + 1 /\ y = head + 1 + k
        BY <1>1, <2>2
      <3>2. /\ Wrap(x) = IF x < Depth THEN x ELSE x - Depth
            /\ Wrap(y) = IF y < Depth THEN y ELSE y - Depth
        BY Wraps
      <3>3. PICK z \in 0 .. (2 * Depth - 1) : z = Wrap(x) + k
        BY <1>1, <2>2, <3>1, <3>2
      <3>4. Wrap(z) = IF z < Depth THEN z ELSE z - Depth
        BY Wraps
      <3>5. Wrap(y) = Wrap(z)
        BY <1>1, <2>2, <3>1, <3>2, <3>3, <3>4
      <3> QED BY <3>1, <3>3, <3>5
    <2>7. /\ head + 1 \in Int /\ Wrap(head + 1) \in Int /\ size - 1 \in Int /\ (size - 1) - 1 = size - 2
          /\ Wrap(head + 1) + 0 = Wrap(head + 1) /\ (size - 1) - 0 = size - 1
      <3>1. head + 1 \in 0 .. (2 * Depth - 1)
        BY <1>1
      <3>2. Wrap(head + 1) \in Int
        BY <3>1, Wraps, QueueAssumption DEF Slots
      <3> QED BY <1>1, <3>2
    <2>8. \A k \in 0 .. ((size - 1) - 1) : cells[Wrap(head + 1 + k)] = cells[Wrap(Wrap(head + 1) + k)]
      BY <2>6, <2>7
    <2>9. Window(cells, head + 1, size - 1) = Window(cells, Wrap(head + 1), size - 1)
      <3> HIDE DEF Window, Wrap
      <3>1. PICK x \in Int, y \in Int, n \in Int : x = head + 1 /\ y = Wrap(head + 1) /\ n = size - 1
        BY <2>7, Zenon
      <3>2. \A k \in 0 .. (n - 1) : cells[Wrap(x + k)] = cells[Wrap(y + k)]
        BY <2>8, <3>1
      <3>3. Window(cells, x, n) = Window(cells, y, n)
        <4>1. ASSUME NEW i \in 1 .. n PROVE cells[Wrap(x + i - 1)] = cells[Wrap(y + i - 1)]
          <5>1. i - 1 \in 0 .. (n - 1) /\ x + (i - 1) = x + i - 1 /\ y + (i - 1) = y + i - 1
            OBVIOUS
          <5> QED BY <3>2, <5>1
        <4> QED BY <4>1 DEF Window
      <3> QED BY <3>1, <3>3
    <2>10. LFElements' = LFElements
      BY <2>1, <2>5, <2>7, <2>9 DEF LFElements
    <2> QED BY <2>4, <2>10, LFQueueMaps
  <1>11. ASSUME Clears(t) PROVE LFQueue!Next
    <2>1. pc[t] = "check" /\ Goto(t, "idle") /\ size' = 0
      BY <1>11 DEF Clears, At, Returns
    <2>2. Taking = {} /\ Taking' = {}
      BY <1>2, <1>3, <1>11, <2>1, LFQueueKnows DEF Taking, At, Goto, LFQueueTypeOK, Clears, Returns
    <2>3. LFGiven' = LFGiven
      BY <1>4, <1>5, <2>2
    <2>4. Taken' = 0 /\ 0 - 0 = 0
      BY <1>6, <2>2
    <2>5. LFElements' = <<>>
      BY <2>1, <2>4 DEF LFElements, Window
    <2> QED BY <2>3, <2>5, LFQueueMaps
  <1>12. Copies(t) => op[t] \in {"push", "pop"}
    BY LFQueueKnows DEF Copies, LFQueueTypeOK
  <1> QED BY <1>7, <1>8, <1>9, <1>10, <1>11, <1>12

(* A push that finds the queue full only under the lock, or a pop that     *)
(* finds it empty there, starts over; for any threads, values and depth    *)
(* CellSyncLFQueue implements SyncFifo.                                    *)
THEOREM LFQueueImplementsFifo == LFQueueSpec => LFQueueIsFifo
  <1>1. LFQueueInit => LFQueue!Init
    <2> SUFFICES ASSUME LFQueueInit PROVE LFQueue!Init
      OBVIOUS
    <2>1. Taking = {}
      BY DEF LFQueueInit, NobodyCalls, Taking, At
    <2>2. Taken = 0 /\ size = 0 /\ 0 - 0 = 0
      BY <2>1, FS_EmptySet DEF LFQueueInit, Taken
    <2>3. LFElements = <<>>
      BY <2>2 DEF LFElements, Window
    <2>4. LFGiven = [t \in Threads |-> NoValue]
      BY <2>1 DEF LFGiven
    <2> QED BY <2>3, <2>4, LFQueueMaps
  <1>2. LFQueueInv /\ LFQueueInv' /\ [LFQueueNext]_lfQueueVars => [LFQueue!Next]_(LFQueue!syncFifoVars)
    <2> SUFFICES ASSUME LFQueueInv, LFQueueInv', [LFQueueNext]_lfQueueVars
                 PROVE  LFQueue!Next \/ UNCHANGED LFQueue!syncFifoVars
      OBVIOUS
    <2>1. CASE LFQueueNext
      BY <2>1, CallKeeps, LockingKeeps, QuietMaps, LFRunMaps DEF LFQueueNext, LFQueueRun
    <2>2. CASE UNCHANGED lfQueueVars
      BY <2>2 DEF lfQueueVars, ring, LFQueue!syncFifoVars, Taken, Taking, At
    <2> QED BY <2>1, <2>2
  <1> QED BY <1>1, <1>2, LFQueueInvariant, PTL DEF LFQueueSpec, LFQueueIsFifo, LFQueue!Spec
==============================================================================
