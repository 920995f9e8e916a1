------------------------- MODULE SysEventQueueProofs -------------------------
(***************************************************************************)
(* For every number of threads and queues, and every buffer size: the ring *)
(* of sys_event.c is a bounded FIFO (it implements EventFifo), no receiver *)
(* sleeps beside an event nobody is coming for, and waiters never counts a *)
(* receiver that is not there.                                             *)
(***************************************************************************)
EXTENDS SysEventQueue, FiniteSetTheorems, SequenceTheorems, TLAPS

(* What % does to the sum of an index and a count. *)
LEMMA Wraps ==
    ASSUME NEW c \in Nat \ {0}, NEW x \in Nat
    PROVE  /\ x % c \in 0 .. (c - 1)
           /\ x < c => x % c = x
           /\ c <= x /\ x < 2 * c => x % c = x - c
<1>1. x % c \in 0 .. (c - 1)
  BY SMT
<1>2. x < c => x % c = x
  BY SMT
<1>3. c <= x /\ x < 2 * c => x % c = x - c
  BY SMT
<1>4. QED
  BY <1>1, <1>2, <1>3

(* The ways to receive; a call that is no receive has "poll". *)
Modes == {"untimed", "timed", "poll", "host"}

(* A call begins, with the arguments the rest of it relies on. *)
Begins(t) ==
    \E q \in Queues, where \in {"cancel", "uncancel", "push", "enter", "try", "drain"},
       how \in Modes, a \in Events \cup Nat :
        /\ Begin(t, q, where, how, a)
        /\ where = "push" => a \in Events
        /\ where = "try" => a \in Nat \ {0}

(* A sleep ends, with or without a reason. *)
Wakes(t) ==
    /\ At(t, "asleep")
    /\ pc' = [pc EXCEPT ![t] = "woken"]
    /\ UNCHANGED <<slotVars, locals, out>>

(* The steps of a thread, one disjunct per kind. *)
Moves(t) ==
    \/ \E q \in Queues, size \in Sizes : sys_event_queue_create(t, q, size)
    \/ \E q \in Queues : sys_event_queue_destroy(t, q)
    \/ Begins(t)
    \/ Cancels(t) \/ Uncancels(t)
    \/ PushRefused(t) \/ \E woken \in SUBSET Threads : PushStores(t, woken)
    \/ ReceiveSleeps(t) \/ ReceiveTakes(t) \/ ReceiveFails(t)
    \/ TryTakes(t) \/ Drains(t)
    \/ ReceiveTimesOut(t) \/ Wakes(t)

(* Every step of the system is one of these, of one thread. *)
LEMMA NextMoves ==
    ASSUME Next
    PROVE  \E t \in Threads : Moves(t)
<1>1. PICK t \in Threads : Step(t) \/ SpuriousWake(t)
  BY DEF Next
<1>2. SpuriousWake(t) \/ HostSliceOver(t) => Wakes(t)
  BY DEF SpuriousWake, HostSliceOver, Wakes
<1>3. Run(t) \/ ReceiveTimesOut(t) => Moves(t)
  BY Zenon DEF Run, Moves
<1>4. ASSUME NEW q \in Queues,
             \/ sys_event_queue_cancel_by_id(t, q) \/ sys_event_queue_uncancel_by_id(t, q)
             \/ \E e \in Events : sys_event_queue_push_by_id(t, q, e)
             \/ \E how \in Modes : sys_event_queue_receive(t, q, how)
             \/ \E n \in MaxCounts : sys_event_queue_tryreceive(t, q, n)
             \/ sys_event_queue_drain(t, q)
      PROVE  Begins(t)
  <2> USE DEF Begins, Modes
  <2>1. CASE sys_event_queue_cancel_by_id(t, q)
    BY <2>1, 0 \in Nat DEF sys_event_queue_cancel_by_id
  <2>2. CASE sys_event_queue_uncancel_by_id(t, q)
    BY <2>2, 0 \in Nat DEF sys_event_queue_uncancel_by_id
  <2>3. CASE \E e \in Events : sys_event_queue_push_by_id(t, q, e)
    BY <2>3 DEF sys_event_queue_push_by_id
  <2>4. CASE \E how \in Modes : sys_event_queue_receive(t, q, how)
    BY <2>4, 0 \in Nat DEF sys_event_queue_receive
  <2>5. CASE \E n \in MaxCounts : sys_event_queue_tryreceive(t, q, n)
    <3>1. PICK n \in MaxCounts : sys_event_queue_tryreceive(t, q, n)
      BY <2>5
    <3>2. (IF n <= 0 THEN 1 ELSE n) \in Nat \ {0}
      BY BoundsAssumption
    <3>3. QED
      BY <3>1, <3>2 DEF sys_event_queue_tryreceive
  <2>6. CASE sys_event_queue_drain(t, q)
    BY <2>6, 0 \in Nat DEF sys_event_queue_drain
  <2>7. QED
    BY <1>4, <2>1, <2>2, <2>3, <2>4, <2>5, <2>6
<1>5. Call(t) => Moves(t)
  BY <1>4, Zenon DEF Call, Moves, Modes
<1>6. QED
  BY <1>1, <1>2, <1>3, <1>5 DEF Step, Moves

----------------------------------------------------------------------------
(* The ring *)

(* The two cases of a wrapped index. *)
LEMMA WrapCases ==
    ASSUME NEW c \in Nat \ {0}, NEW h \in 0 .. (c - 1), NEW i \in 0 .. c
    PROVE  /\ (h + i) % c \in 0 .. (c - 1)
           /\ h + i < c => (h + i) % c = h + i
           /\ h + i >= c => (h + i) % c = h + i - c
<1>1. PICK x \in Nat : x = h + i
  OBVIOUS
<1>2. /\ x % c \in 0 .. (c - 1)
      /\ x < c => x % c = x
      /\ c <= x /\ x < 2 * c => x % c = x - c
  BY Wraps, Zenon
<1>3. QED
  BY <1>1, <1>2

(* Stepping n places and then i is stepping n + i. *)
LEMMA Shifted ==
    ASSUME NEW c \in Nat \ {0}, NEW h \in 0 .. (c - 1), NEW n \in Nat, NEW i \in Nat, n + i <= c
    PROVE  (((h + n) % c) + i) % c = (h + (n + i)) % c
<1>1. PICK m \in 0 .. c : m = n + i
  OBVIOUS
<1>2. n \in 0 .. c /\ i \in 0 .. c
  OBVIOUS
<1>3. PICK x \in 0 .. (c - 1) : x = (h + n) % c
  BY <1>2, WrapCases, Zenon
<1>4. (h + n < c => x = h + n) /\ (h + n >= c => x = h + n - c)
  BY <1>2, <1>3, WrapCases
<1>5. /\ (h + m < c => (h + m) % c = h + m) /\ (h + m >= c => (h + m) % c = h + m - c)
      /\ (x + i < c => (x + i) % c = x + i) /\ (x + i >= c => (x + i) % c = x + i - c)
  BY <1>2, WrapCases, Zenon
<1>6. (x + i) % c = (h + m) % c
  BY <1>1, <1>4, <1>5
<1>7. QED
  BY <1>1, <1>3, <1>6

(* Different places are different cells. *)
LEMMA Apart ==
    ASSUME NEW c \in Nat \ {0}, NEW h \in 0 .. (c - 1),
           NEW i \in 0 .. (c - 1), NEW j \in 0 .. (c - 1), i # j
    PROVE  (h + i) % c # (h + j) % c
<1>1. i \in 0 .. c /\ j \in 0 .. c
  OBVIOUS
<1>2. /\ (h + i < c => (h + i) % c = h + i) /\ (h + i >= c => (h + i) % c = h + i - c)
      /\ (h + j < c => (h + j) % c = h + j) /\ (h + j >= c => (h + j) % c = h + j - c)
  BY <1>1, WrapCases, Zenon
<1>3. QED
  BY <1>2

(* The two parts of a sequence cut after its first n elements. *)
LEMMA Cut ==
    ASSUME NEW S, NEW s \in Seq(S), NEW n \in 0 .. Len(s)
    PROVE  /\ SubSeq(s, 1, n) \in Seq(S)
           /\ SubSeq(s, 1, n) = [i \in 1 .. n |-> s[i]]
           /\ SubSeq(s, n + 1, Len(s)) = [i \in 1 .. (Len(s) - n) |-> s[n + i]]
<1>1. Len(s) \in Nat /\ n \in Nat /\ n <= Len(s) /\ \A i \in 1 .. Len(s) : s[i] \in S
  OBVIOUS
<1> DEFINE f == SubSeq(s, 1, n)
           g == SubSeq(s, n + 1, Len(s))
<1>2. /\ f \in Seq(S) /\ Len(f) = n
      /\ \A i \in 1 .. n : f[i] = s[i]
  <2>1. \A i \in 1 .. n : s[i] \in S
    BY <1>1
  <2>2. /\ f \in Seq(S) /\ Len(f) = IF 1 <= n THEN n - 1 + 1 ELSE 0
        /\ \A i \in 1 .. n - 1 + 1 : f[i] = s[1 + i - 1]
    BY <1>1, <2>1, SubSeqProperties
  <2> HIDE DEF f
  <2>3. QED
    BY <1>1, <2>2
<1>3. /\ g \in Seq(S) /\ Len(g) = Len(s) - n
      /\ \A i \in 1 .. (Len(s) - n) : g[i] = s[n + i]
  <2>1. \A i \in (n + 1) .. Len(s) : s[i] \in S
    BY <1>1
  <2>2. /\ g \in Seq(S) /\ Len(g) = IF n + 1 <= Len(s) THEN Len(s) - (n + 1) + 1 ELSE 0
        /\ \A i \in 1 .. Len(s) - (n + 1) + 1 : g[i] = s[(n + 1) + i - 1]
    BY <1>1, <2>1, SubSeqProperties
  <2> HIDE DEF g
  <2>3. QED
    BY <1>1, <2>2
<1> HIDE DEF f, g
<1>4. f = [i \in 1 .. n |-> s[i]]
  BY <1>1, <1>2
<1>5. g = [i \in 1 .. (Len(s) - n) |-> s[n + i]]
  BY <1>1, <1>3
<1>6. QED
  BY <1>2, <1>4, <1>5 DEF f, g

(* What the invariant says of one ring. *)
LEMMA Ring ==
    ASSUME TypeOK, RingInv, NEW q \in Queues
    PROVE  /\ BufMax \in Nat \ {0}
           /\ capacity[q] \in 0 .. BufMax /\ head[q] \in Nat /\ count[q] \in Nat /\ tail[q] \in Nat
           /\ active[q] => capacity[q] > 0
           /\ head[q] + count[q] > 0 => capacity[q] > 0
           /\ capacity[q] > 0 =>
                /\ capacity[q] \in Nat \ {0} /\ capacity[q] <= BufMax
                /\ head[q] \in 0 .. (capacity[q] - 1) /\ count[q] \in 0 .. capacity[q]
                /\ tail[q] = (head[q] + count[q]) % capacity[q]
                /\ \A i \in Nat : (head[q] + i) % capacity[q] \in 0 .. (capacity[q] - 1)
           /\ \A i \in 0 .. (count[q] - 1) : EventAt(q, i) \in Events
<1>1. /\ BufMax \in Nat \ {0}
      /\ capacity[q] \in 0 .. BufMax /\ head[q] \in Nat /\ count[q] \in Nat /\ tail[q] \in Nat
  BY BoundsAssumption DEF TypeOK, Cells
<1>2. ASSUME capacity[q] > 0, NEW i \in Nat
      PROVE  (head[q] + i) % capacity[q] \in 0 .. (capacity[q] - 1)
  <2>1. PICK c \in Nat \ {0}, x \in Nat : c = capacity[q] /\ x = head[q] + i
    BY <1>1, <1>2
  <2>2. x % c \in 0 .. (c - 1)
    BY Wraps
  <2>3. QED
    BY <2>1, <2>2
<1>3. QED
  BY <1>1, <1>2 DEF RingInv

(* The contents are a sequence of count events. *)
LEMMA ContentsSeq ==
    ASSUME TypeOK, RingInv, NEW q \in Queues
    PROVE  /\ Contents(q) \in Seq(Events)
           /\ Len(Contents(q)) = count[q]
           /\ \A i \in 1 .. count[q] : Contents(q)[i] = EventAt(q, i - 1)
<1>1. count[q] \in Nat /\ \A i \in 0 .. (count[q] - 1) : EventAt(q, i) \in Events
  BY Ring
<1>2. \A i \in 1 .. count[q] : EventAt(q, i - 1) \in Events
  BY <1>1
<1>3. QED
  BY <1>1, <1>2 DEF Contents

(* Taking n events: the caller has the n oldest, the ring the others. *)
LEMMA TakeEffect ==
    ASSUME TypeOK, RingInv, NEW t \in Threads, NEW q \in Queues, q = tgt[t], capacity[q] > 0,
           NEW n \in 0 .. count[q], Take(t, n), active' = active
    PROVE  /\ head' \in [Queues -> Cells] /\ count' \in [Queues -> 0 .. BufMax]
           /\ out' \in [Threads -> Seq(Events)]
           /\ RingInv'
           /\ out' = [out EXCEPT ![t] = SubSeq(Contents(q), 1, n)]
           /\ \A z \in Queues :
                Contents(z)' = IF z = q THEN SubSeq(Contents(q), n + 1, Len(Contents(q)))
                                        ELSE Contents(z)
<1> DEFINE c == capacity[q]
           h == head[q]
           k == count[q]
<1>0. c \in Nat \ {0} /\ h \in 0 .. (c - 1) /\ k \in 0 .. c /\ n \in 0 .. k
  BY Ring
<1>1. /\ BufMax \in Nat \ {0}
      /\ c \in Nat \ {0} /\ c <= BufMax /\ h \in 0 .. (c - 1) /\ k \in 0 .. c /\ n \in 0 .. k
      /\ tail[q] = (h + k) % c
      /\ \A i \in Nat : (h + i) % c \in 0 .. (c - 1)
      /\ \A i \in 0 .. (k - 1) : EventAt(q, i) \in Events
  BY Ring
<1>2. /\ head'[q] = (h + n) % c
      /\ count'[q] = k - n
      /\ capacity' = capacity /\ buffer' = buffer /\ tail' = tail
      /\ \A z \in Queues : z # q => head'[z] = head[z] /\ count'[z] = count[z]
      /\ head' = [head EXCEPT ![q] = head'[q]] /\ count' = [count EXCEPT ![q] = count'[q]]
  <2>1. (h + 0) % c = h
    <3>1. h \in Nat /\ h < c /\ h + 0 = h
      BY <1>1
    <3>2. h % c = h
      BY <1>1, <3>1, Wraps
    <3>3. QED
      BY <3>1, <3>2
  <2>2. head'[q] = (h + n) % c
    BY <1>1, <2>1 DEF Take, TypeOK
  <2>3. QED
    BY <2>2 DEF Take, TypeOK
<1>3. head' \in [Queues -> Cells] /\ count' \in [Queues -> 0 .. BufMax]
  <2>1. head'[q] \in Cells /\ count'[q] \in 0 .. BufMax
    BY <1>1, <1>2 DEF Cells
  <2>2. QED
    BY <1>2, <2>1 DEF TypeOK
<1>4. \A i \in 0 .. (k - n - 1) : EventAt(q, i)' = EventAt(q, n + i)
  <2> TAKE i \in 0 .. (k - n - 1)
  <2>1. (((h + n) % c) + i) % c = (h + (n + i)) % c
    <3>1. n \in Nat /\ i \in Nat /\ n + i <= c
      BY <1>0
    <3>2. QED
      BY <1>0, <3>1, Shifted
  <2>2. QED
    BY <1>2, <2>1 DEF EventAt
<1>5. \A z \in Queues : z # q => \A i : EventAt(z, i)' = EventAt(z, i)
  BY <1>2 DEF EventAt
<1>6. RingInv'
  <2> SUFFICES ASSUME NEW z \in Queues
               PROVE  /\ active[z]' => capacity[z]' > 0
                      /\ (head[z] + count[z])' > 0 => capacity[z]' > 0
                      /\ capacity[z]' > 0 =>
                            /\ head[z]' < capacity[z]' /\ count[z]' <= capacity[z]'
                            /\ tail[z]' = (head[z]' + count[z]') % capacity[z]'
                      /\ \A i \in 0 .. (count[z]' - 1) : EventAt(z, i)' \in Events
    BY DEF RingInv
  <2>1. CASE z = q
    <3>1. (((h + n) % c) + (k - n)) % c = (h + (n + (k - n))) % c
      <4>1. PICK i \in Nat : i = k - n
        BY <1>1
      <4>2. n \in Nat /\ n + i <= c
        BY <1>1, <4>1
      <4>3. (((h + n) % c) + i) % c = (h + (n + i)) % c
        BY <1>1, <4>2, Shifted
      <4>4. QED
        BY <4>1, <4>3
    <3>2. n + (k - n) = k
      BY <1>1
    <3>3. tail[q]' = (head[q]' + count[q]') % capacity[q]'
      BY <1>1, <1>2, <3>1, <3>2
    <3>4. head[q]' < capacity[q]' /\ count[q]' <= capacity[q]' /\ capacity[q]' > 0
      BY <1>1, <1>2
    <3>5. \A i \in 0 .. (count[q]' - 1) : EventAt(q, i)' \in Events
      BY <1>1, <1>2, <1>4
    <3>6. QED
      BY <2>1, <3>3, <3>4, <3>5
  <2>2. CASE z # q
    BY <1>2, <1>5, <2>2, Ring, SMTT(20)
  <2>3. QED
    BY <2>1, <2>2
<1>7. /\ Contents(q) \in Seq(Events) /\ Len(Contents(q)) = k
      /\ \A i \in 1 .. k : Contents(q)[i] = EventAt(q, i - 1)
  BY ContentsSeq
<1>8. out' = [out EXCEPT ![t] = SubSeq(Contents(q), 1, n)]
  <2>1. [i \in 1 .. n |-> EventAt(q, i - 1)] = [i \in 1 .. n |-> Contents(q)[i]]
    <3>1. \A i \in 1 .. n : EventAt(q, i - 1) = Contents(q)[i]
      <4> TAKE i \in 1 .. n
      <4>1. i \in 1 .. k
        BY <1>0
      <4>2. QED
        BY <1>7, <4>1, Zenon
    <3>2. QED
      BY <3>1, Zenon
  <2>2. [i \in 1 .. n |-> Contents(q)[i]] = SubSeq(Contents(q), 1, n)
    BY <1>7, Cut
  <2>3. QED
    BY <2>1, <2>2 DEF Take
<1>9. out' \in [Threads -> Seq(Events)]
  <2>1. SubSeq(Contents(q), 1, n) \in Seq(Events)
    BY <1>7, Cut
  <2>2. QED
    BY <1>8, <2>1 DEF TypeOK
<1>10. Contents(q)' = SubSeq(Contents(q), n + 1, Len(Contents(q)))
  <2>1. Contents(q)' = [i \in 1 .. (k - n) |-> EventAt(q, i - 1)']
    BY <1>2 DEF Contents
  <2>2. \A i \in 1 .. (k - n) : EventAt(q, i - 1)' = Contents(q)[n + i]
    <3> TAKE i \in 1 .. (k - n)
    <3>1. i - 1 \in 0 .. (k - n - 1) /\ n + i \in 1 .. k /\ n + (i - 1) = (n + i) - 1
      BY <1>1
    <3>2. EventAt(q, i - 1)' = EventAt(q, n + (i - 1))
      BY <1>4, <3>1
    <3>3. QED
      BY <1>7, <3>1, <3>2
  <2>3. [i \in 1 .. (k - n) |-> Contents(q)[n + i]] = SubSeq(Contents(q), n + 1, k)
    <3>1. PICK s \in Seq(Events) : s = Contents(q) /\ Len(s) = k /\ n \in 0 .. Len(s)
      BY <1>7
    <3>2. SubSeq(s, n + 1, Len(s)) = [i \in 1 .. (Len(s) - n) |-> s[n + i]]
      BY <3>1, Cut
    <3>3. QED
      BY <3>1, <3>2, Zenon
  <2>4. QED
    BY <1>7, <2>1, <2>2, <2>3
<1>11. \A z \in Queues : z # q => Contents(z)' = Contents(z)
  BY <1>2, <1>5 DEF Contents
<1>12. QED
  BY <1>3, <1>6, <1>8, <1>9, <1>10, <1>11

(* Storing an event: it is behind all the others. *)
LEMMA PushEffect ==
    ASSUME TypeOK, RingInv, NEW q \in Queues, NEW e \in Events,
           count[q] < capacity[q],
           buffer' = [buffer EXCEPT ![q][tail[q]] = e],
           tail'   = [tail   EXCEPT ![q] = (@ + 1) % capacity[q]],
           count'  = [count  EXCEPT ![q] = @ + 1],
           UNCHANGED <<active, capacity, head>>
    PROVE  /\ buffer' \in [Queues -> [Cells -> Events \cup {NoEvent}]]
           /\ tail' \in [Queues -> Cells] /\ count' \in [Queues -> 0 .. BufMax]
           /\ RingInv'
           /\ Len(Contents(q)) < capacity[q]
           /\ \A z \in Queues :
                Contents(z)' = IF z = q THEN Append(Contents(q), e) ELSE Contents(z)
<1> DEFINE c == capacity[q]
           h == head[q]
           k == count[q]
           b == buffer[q]
<1>0. c \in Nat \ {0} /\ h \in 0 .. (c - 1) /\ k \in 0 .. (c - 1)
  BY Ring
<1>1. /\ BufMax \in Nat \ {0}
      /\ c \in Nat \ {0} /\ c <= BufMax /\ h \in 0 .. (c - 1) /\ k \in 0 .. (c - 1)
      /\ tail[q] = (h + k) % c
      /\ \A i \in Nat : (h + i) % c \in 0 .. (c - 1)
      /\ \A i \in 0 .. (k - 1) : EventAt(q, i) \in Events
  BY Ring
<1>2. b \in [Cells -> Events \cup {NoEvent}] /\ tail[q] \in Cells
  BY DEF TypeOK
<1>3. /\ buffer'[q] = [b EXCEPT ![(h + k) % c] = e]
      /\ tail'[q] = (tail[q] + 1) % c /\ count'[q] = k + 1
      /\ capacity' = capacity /\ head' = head
      /\ buffer' = [buffer EXCEPT ![q] = buffer'[q]]
      /\ tail' = [tail EXCEPT ![q] = tail'[q]] /\ count' = [count EXCEPT ![q] = count'[q]]
      /\ \A z \in Queues : z # q => /\ buffer'[z] = buffer[z] /\ tail'[z] = tail[z]
                                    /\ count'[z] = count[z]
  BY <1>1 DEF TypeOK
<1>4. tail'[q] = (h + (k + 1)) % c
  <2>1. (((h + k) % c) + 1) % c = (h + (k + 1)) % c
    <3>1. k \in Nat /\ 1 \in Nat /\ k + 1 <= c
      BY <1>0
    <3>2. QED
      BY <1>0, <3>1, Shifted
  <2>2. QED
    BY <1>1, <1>3, <2>1
<1>5. /\ buffer' \in [Queues -> [Cells -> Events \cup {NoEvent}]]
      /\ tail' \in [Queues -> Cells] /\ count' \in [Queues -> 0 .. BufMax]
  <2>1. tail'[q] \in Cells /\ count'[q] \in 0 .. BufMax
    BY <1>1, <1>3, <1>4 DEF Cells
  <2>2. buffer'[q] \in [Cells -> Events \cup {NoEvent}]
    BY <1>1, <1>2, <1>3
  <2>3. QED
    BY <1>3, <2>1, <2>2 DEF TypeOK
<1>6. \A i \in 0 .. (k - 1) : EventAt(q, i)' = EventAt(q, i)
  <2> TAKE i \in 0 .. (k - 1)
  <2>1. i \in 0 .. (c - 1) /\ i # k /\ i \in Nat
    BY <1>1
  <2>2. (h + i) % c # (h + k) % c
    BY <1>1, <2>1, Apart
  <2>3. (h + i) % c \in Cells
    BY <1>1, <2>1 DEF Cells
  <2>4. QED
    BY <1>2, <1>3, <2>2, <2>3 DEF EventAt
<1>7. \A i \in Nat : i = k => EventAt(q, i)' = e
  <2> TAKE i \in Nat
  <2>1. (h + k) % c \in Cells
    BY <1>1 DEF Cells
  <2>2. QED
    BY <1>2, <1>3, <2>1 DEF EventAt
<1>8. \A z \in Queues : z # q => \A i : EventAt(z, i)' = EventAt(z, i)
  BY <1>3 DEF EventAt
<1>9. RingInv'
  <2> SUFFICES ASSUME NEW z \in Queues
               PROVE  /\ active[z]' => capacity[z]' > 0
                      /\ (head[z] + count[z])' > 0 => capacity[z]' > 0
                      /\ capacity[z]' > 0 =>
                            /\ head[z]' < capacity[z]' /\ count[z]' <= capacity[z]'
                            /\ tail[z]' = (head[z]' + count[z]') % capacity[z]'
                      /\ \A i \in 0 .. (count[z]' - 1) : EventAt(z, i)' \in Events
    BY DEF RingInv
  <2>1. CASE z = q
    <3>1. head[q]' < capacity[q]' /\ count[q]' <= capacity[q]' /\ capacity[q]' > 0
      BY <1>1, <1>3
    <3>2. \A i \in 0 .. (count[q]' - 1) : EventAt(q, i)' \in Events
      <4> TAKE i \in 0 .. (count[q]' - 1)
      <4>1. i \in 0 .. (k - 1) \/ (i = k /\ i \in Nat)
        BY <1>0, <1>3
      <4>2. QED
        BY <1>1, <1>6, <1>7, <4>1
    <3>3. QED
      BY <1>3, <1>4, <2>1, <3>1, <3>2
  <2>2. CASE z # q
    BY <1>3, <1>8, <2>2, Ring, SMTT(20)
  <2>3. QED
    BY <2>1, <2>2
<1>10. /\ Contents(q) \in Seq(Events) /\ Len(Contents(q)) = k
       /\ \A i \in 1 .. k : Contents(q)[i] = EventAt(q, i - 1)
  BY ContentsSeq
<1>11. Contents(q)' = Append(Contents(q), e)
  <2>1. Contents(q)' = [i \in 1 .. (k + 1) |-> EventAt(q, i - 1)']
    BY <1>3 DEF Contents
  <2> DEFINE s == Append(Contents(q), e)
  <2>2. /\ s \in Seq(Events) /\ Len(s) = k + 1
        /\ \A i \in 1 .. k : s[i] = Contents(q)[i]
        /\ s[k + 1] = e
    BY <1>10, AppendProperties
  <2> HIDE DEF s
  <2>3. \A i \in 1 .. (k + 1) : EventAt(q, i - 1)' = s[i]
    <3> TAKE i \in 1 .. (k + 1)
    <3>1. CASE i = k + 1
      <4>1. i - 1 = k /\ i - 1 \in Nat
        BY <1>0, <3>1
      <4>2. QED
        BY <1>7, <2>2, <3>1, <4>1
    <3>2. CASE i # k + 1
      <4>1. i \in 1 .. k /\ i - 1 \in 0 .. (k - 1)
        BY <1>0, <3>2
      <4>2. QED
        BY <1>6, <1>10, <2>2, <4>1
    <3>3. QED
      BY <3>1, <3>2
  <2>4. s = [i \in 1 .. (k + 1) |-> s[i]]
    BY <1>1, <2>2
  <2>5. QED
    BY <2>1, <2>3, <2>4 DEF s
<1>12. \A z \in Queues : z # q => Contents(z)' = Contents(z)
  BY <1>3, <1>8 DEF Contents
<1>13. QED
  BY <1>1, <1>5, <1>9, <1>10, <1>11, <1>12

(* A step that leaves the rings alone. *)
LEMMA RingKept ==
    ASSUME RingInv, UNCHANGED ring, \A q \in Queues : active'[q] => active[q]
    PROVE  RingInv' /\ \A q \in Queues : Contents(q)' = Contents(q)
<1> USE DEF ring
<1>1. \A q, i : EventAt(q, i)' = EventAt(q, i)
  BY DEF EventAt
<1>2. RingInv'
  BY <1>1 DEF RingInv
<1>3. QED
  BY <1>1, <1>2 DEF Contents

(* Emptying the ring of one slot, with head and tail at the start. *)
LEMMA Emptied ==
    ASSUME TypeOK, RingInv, NEW q \in Queues, NEW c \in 1 .. BufMax,
           capacity' = [capacity EXCEPT ![q] = c],
           head' = [head EXCEPT ![q] = 0], tail' = [tail EXCEPT ![q] = 0],
           count' = [count EXCEPT ![q] = 0],
           \A z \in Queues : z # q => buffer'[z] = buffer[z] /\ active'[z] = active[z]
    PROVE  /\ RingInv'
           /\ capacity' \in [Queues -> 0 .. BufMax]
           /\ head' \in [Queues -> Cells] /\ tail' \in [Queues -> Cells]
           /\ count' \in [Queues -> 0 .. BufMax]
           /\ \A z \in Queues : Contents(z)' = IF z = q THEN <<>> ELSE Contents(z)
<1> USE BoundsAssumption
<1>1. /\ capacity' \in [Queues -> 0 .. BufMax]
      /\ head' \in [Queues -> Cells] /\ tail' \in [Queues -> Cells]
      /\ count' \in [Queues -> 0 .. BufMax]
  BY DEF TypeOK, Cells
<1>2. /\ capacity'[q] = c /\ head'[q] = 0 /\ tail'[q] = 0 /\ count'[q] = 0
      /\ \A z \in Queues : z # q => /\ capacity'[z] = capacity[z] /\ head'[z] = head[z]
                                    /\ tail'[z] = tail[z] /\ count'[z] = count[z]
  BY DEF TypeOK
<1>3. \A z \in Queues : z # q => \A i : EventAt(z, i)' = EventAt(z, i)
  BY <1>2 DEF EventAt
<1>4. (0 + 0) % c = 0
  BY SMT
<1>5. RingInv'
  <2> SUFFICES ASSUME NEW z \in Queues
               PROVE  /\ active[z]' => capacity[z]' > 0
                      /\ (head[z] + count[z])' > 0 => capacity[z]' > 0
                      /\ capacity[z]' > 0 =>
                            /\ head[z]' < capacity[z]' /\ count[z]' <= capacity[z]'
                            /\ tail[z]' = (head[z]' + count[z]') % capacity[z]'
                      /\ \A i \in 0 .. (count[z]' - 1) : EventAt(z, i)' \in Events
    BY DEF RingInv
  <2>1. CASE z = q
    BY <1>2, <1>4, <2>1
  <2>2. CASE z # q
    BY <1>2, <1>3, <2>2, Ring, SMTT(20)
  <2>3. QED
    BY <2>1, <2>2
<1>6. Contents(q)' = <<>>
  BY <1>2 DEF Contents
<1>7. \A z \in Queues : z # q => Contents(z)' = Contents(z)
  BY <1>2, <1>3 DEF Contents
<1>8. QED
  BY <1>1, <1>5, <1>6, <1>7

----------------------------------------------------------------------------
(* The calls *)

LocalsOK ==
    /\ pc   \in [Threads -> PcValues]
    /\ tgt  \in [Threads -> Queues \cup {0}]
    /\ mode \in [Threads -> Modes]
    /\ arg  \in [Threads -> Events \cup Nat]

(* A slot that was used stays used. *)
Grows == \A q \in Queues : capacity[q] > 0 => capacity'[q] > 0

(* The end of a call. *)
LEMMA Returned ==
    ASSUME LocalsOK, CallInv, NEW t \in Threads, NEW woken \in SUBSET Threads,
           \A u \in woken : pc[u] = "asleep", Return(t, woken), Grows
    PROVE  LocalsOK' /\ CallInv'
<1>1. LocalsOK'
  BY DEF LocalsOK, Return, Ended, PcValues, Modes
<1>2. \A u \in Threads : /\ u = t => pc'[u] = "idle"
                         /\ u # t => /\ pc'[u] = pc[u] \/ (pc'[u] = "woken" /\ pc[u] = "asleep")
                                     /\ tgt'[u] = tgt[u] /\ arg'[u] = arg[u]
  BY DEF LocalsOK, Return, Ended
<1>3. CallInv'
  BY <1>2 DEF CallInv, Idle, At, Grows
<1>4. QED
  BY <1>1, <1>3

(* A step of a call that goes on. *)
LEMMA WentOn ==
    ASSUME LocalsOK, CallInv, NEW t \in Threads, NEW where \in {"asleep", "woken"},
           ~Idle(t), pc' = [pc EXCEPT ![t] = where], UNCHANGED locals, Grows
    PROVE  LocalsOK' /\ CallInv'
<1>1. LocalsOK'
  BY DEF LocalsOK, PcValues, locals
<1>2. CallInv'
  BY DEF LocalsOK, CallInv, Idle, At, Grows, locals
<1>3. QED
  BY <1>1, <1>2

(* The slots' fields outside the ring, and what the callers hold. *)
RestOK ==
    /\ active    \in [Queues -> BOOLEAN]
    /\ cancelled \in [Queues -> BOOLEAN]
    /\ waiters   \in [Queues -> Nat]
    /\ out       \in [Threads -> Seq(Events)]

(* The types of the ring's variables. *)
RingOK ==
    /\ buffer    \in [Queues -> [Cells -> Events \cup {NoEvent}]]
    /\ capacity  \in [Queues -> 0 .. BufMax]
    /\ head      \in [Queues -> Cells]
    /\ tail      \in [Queues -> Cells]
    /\ count     \in [Queues -> 0 .. BufMax]

(* The parts of the type invariant. *)
LEMMA TypeParts == TypeOK <=> RingOK /\ RestOK /\ LocalsOK
BY DEF TypeOK, RingOK, RestOK, LocalsOK, Modes

(* The inductive part that says what the variables hold. *)
Typed == TypeOK /\ RingInv /\ CallInv

(* Every step keeps the types, the rings' shape and the calls' arguments. *)
LEMMA TypedStep ==
    ASSUME Typed, NEW t \in Threads, Moves(t)
    PROVE  Typed'
<1>1. RingOK /\ RestOK /\ LocalsOK /\ TypeOK /\ RingInv /\ CallInv
  BY TypeParts DEF Typed
<1>2. SUFFICES RingOK' /\ RestOK' /\ LocalsOK' /\ RingInv' /\ CallInv'
  BY TypeParts DEF Typed, TypeOK, RingOK, RestOK, LocalsOK, Modes
<1>3. UNCHANGED ring => RingOK' /\ Grows
  BY <1>1 DEF RingOK, ring, Grows
<1>4. UNCHANGED ring /\ UNCHANGED active => RingInv'
  BY <1>1, RingKept
<1>5. ASSUME ~Idle(t)
      PROVE  tgt[t] \in Queues /\ capacity[tgt[t]] > 0
  BY <1>1, <1>5 DEF CallInv
<1>6. ASSUME Return(t, {}), Grows
      PROVE  LocalsOK' /\ CallInv'
  BY <1>1, <1>6, Returned
<1>7. ASSUME Return(t, Asleep(tgt[t])), Grows
      PROVE  LocalsOK' /\ CallInv'
  <2>1. Asleep(tgt[t]) \in SUBSET Threads /\ \A u \in Asleep(tgt[t]) : pc[u] = "asleep"
    BY DEF Asleep
  <2>2. QED
    BY <1>1, <1>7, <2>1, Returned
<1>8. ASSUME LeavesCount(t), ~Idle(t)
      PROVE  waiters' \in [Queues -> Nat]
  <2>1. PICK q \in Queues : q = tgt[t]
    BY <1>5, <1>8
  <2>2. waiters[q] \in Nat
    BY <1>1 DEF RestOK
  <2>3. QED
    BY <1>1, <1>8, <2>1, <2>2 DEF LeavesCount, RestOK
<1>9. CASE \E q \in Queues, size \in Sizes : sys_event_queue_create(t, q, size)
  <2>1. PICK q \in Queues, size \in Sizes : sys_event_queue_create(t, q, size)
    BY <1>9
  <2> USE DEF sys_event_queue_create
  <2>2. Capacity(size) \in 1 .. BufMax
    BY BoundsAssumption DEF Capacity
  <2>3. buffer' \in [Queues -> [Cells -> Events \cup {NoEvent}]]
    BY <1>1, <2>1 DEF RingOK
  <2>4. \A z \in Queues : z # q => buffer'[z] = buffer[z] /\ active'[z] = active[z]
    BY <1>1, <2>1 DEF RingOK, RestOK
  <2>5. /\ RingInv' /\ capacity' \in [Queues -> 0 .. BufMax]
        /\ head' \in [Queues -> Cells] /\ tail' \in [Queues -> Cells]
        /\ count' \in [Queues -> 0 .. BufMax]
    BY <1>1, <2>1, <2>2, <2>4, Emptied
  <2>6. RestOK'
    BY <1>1, <2>1 DEF RestOK
  <2>7. Grows
    BY <1>1, <2>1, <2>2, BoundsAssumption DEF Grows, RingOK
  <2>8. LocalsOK' /\ CallInv'
    BY <1>1, <2>1, <2>7 DEF LocalsOK, CallInv, Idle, At, Grows, locals
  <2>9. QED
    BY <2>3, <2>5, <2>6, <2>8 DEF RingOK
<1>10. CASE \E q \in Queues : sys_event_queue_destroy(t, q)
  <2>1. PICK q \in Queues : sys_event_queue_destroy(t, q)
    BY <1>10
  <2> USE DEF sys_event_queue_destroy
  <2>2. \A z \in Queues : active'[z] => active[z]
    BY <1>1, <2>1 DEF RestOK
  <2>3. RingInv'
    BY <1>1, <2>1, <2>2, RingKept
  <2>4. RestOK'
    BY <1>1, <2>1 DEF RestOK
  <2>5. LocalsOK' /\ CallInv'
    BY <1>1, <1>3, <2>1 DEF LocalsOK, CallInv, Idle, At, Grows, locals
  <2>6. QED
    BY <1>3, <2>1, <2>3, <2>4, <2>5
<1>11. CASE Begins(t)
  <2>1. PICK q \in Queues, where \in {"cancel", "uncancel", "push", "enter", "try", "drain"},
             how \in Modes, a \in Events \cup Nat :
          /\ Begin(t, q, where, how, a)
          /\ where = "push" => a \in Events
          /\ where = "try" => a \in Nat \ {0}
    BY <1>11 DEF Begins
  <2>2. UNCHANGED slotVars /\ UNCHANGED ring /\ UNCHANGED active
    BY <2>1 DEF Begin, slotVars
  <2>3. <<>> \in Seq(Events)
    OBVIOUS
  <2>4. RestOK'
    BY <1>1, <2>1, <2>2, <2>3 DEF RestOK, Begin, slotVars
  <2>5. LocalsOK'
    BY <1>1, <2>1 DEF LocalsOK, Begin, PcValues
  <2>6. capacity[q] > 0 /\ q \in Queues
    BY <1>1, <2>1 DEF Begin, RingInv
  <2>7. /\ pc'[t] = where /\ tgt'[t] = q /\ arg'[t] = a
        /\ \A u \in Threads : u # t => pc'[u] = pc[u] /\ tgt'[u] = tgt[u] /\ arg'[u] = arg[u]
    BY <1>1, <2>1 DEF LocalsOK, Begin
  <2>8. CallInv'
    BY <1>1, <1>3, <2>1, <2>2, <2>6, <2>7 DEF CallInv, Idle, At, Grows
  <2>9. QED
    BY <1>3, <1>4, <2>2, <2>4, <2>5, <2>8
<1>12. CASE Cancels(t)
  <2>1. UNCHANGED ring /\ UNCHANGED active /\ Return(t, Asleep(tgt[t]))
    BY <1>12 DEF Cancels
  <2>2. RestOK'
    BY <1>1, <1>12 DEF Cancels, RestOK
  <2>3. QED
    BY <1>3, <1>4, <1>7, <2>1, <2>2
<1>13. CASE Uncancels(t)
  <2>1. UNCHANGED ring /\ UNCHANGED active /\ Return(t, {})
    BY <1>13 DEF Uncancels
  <2>2. RestOK'
    BY <1>1, <1>13 DEF Uncancels, RestOK
  <2>3. QED
    BY <1>3, <1>4, <1>6, <2>1, <2>2
<1>14. CASE PushRefused(t)
  <2>1. UNCHANGED ring /\ UNCHANGED active /\ Return(t, {})
    BY <1>14 DEF PushRefused, slotVars
  <2>2. RestOK'
    BY <1>1, <1>14 DEF PushRefused, RestOK, slotVars
  <2>3. QED
    BY <1>3, <1>4, <1>6, <2>1, <2>2
<1>15. CASE \E woken \in SUBSET Threads : PushStores(t, woken)
  <2>1. PICK woken \in SUBSET Threads : PushStores(t, woken)
    BY <1>15
  <2>2. PICK q \in Queues : q = tgt[t]
    BY <1>5, <2>1 DEF PushStores, At, Idle
  <2>3. PICK e \in Events : e = arg[t]
    BY <1>1, <2>1 DEF PushStores, CallInv
  <2>4. /\ active[q] /\ count[q] < capacity[q]
        /\ buffer' = [buffer EXCEPT ![q][tail[q]] = e]
        /\ tail'   = [tail   EXCEPT ![q] = (@ + 1) % capacity[q]]
        /\ count'  = [count  EXCEPT ![q] = @ + 1]
        /\ UNCHANGED <<active, capacity, head>>
        /\ WakesOne(q, woken) /\ Return(t, woken) /\ UNCHANGED <<cancelled, waiters, out>>
    BY <2>1, <2>2, <2>3 DEF PushStores
  <2>5. /\ buffer' \in [Queues -> [Cells -> Events \cup {NoEvent}]]
        /\ tail' \in [Queues -> Cells] /\ count' \in [Queues -> 0 .. BufMax] /\ RingInv'
    BY <1>1, <2>4, PushEffect
  <2>6. RingOK' /\ Grows
    BY <1>1, <2>4, <2>5 DEF RingOK, Grows
  <2>7. \A u \in woken : pc[u] = "asleep"
    BY <2>4 DEF WakesOne, Asleep
  <2>8. LocalsOK' /\ CallInv'
    BY <1>1, <2>4, <2>6, <2>7, Returned
  <2>9. RestOK'
    BY <1>1, <2>4 DEF RestOK
  <2>10. QED
    BY <2>5, <2>6, <2>8, <2>9
<1>16. CASE ReceiveSleeps(t)
  <2>1. UNCHANGED ring /\ UNCHANGED active /\ ~Idle(t)
        /\ pc' = [pc EXCEPT ![t] = "asleep"] /\ UNCHANGED locals
    BY <1>16 DEF ReceiveSleeps, AtLock, Idle
  <2>2. PICK q \in Queues : q = tgt[t]
    BY <1>5, <2>1
  <2>3. RestOK'
    BY <1>1, <1>16, <2>2 DEF ReceiveSleeps, RestOK
  <2>4. LocalsOK' /\ CallInv'
    BY <1>1, <1>3, <2>1, WentOn
  <2>5. QED
    BY <1>3, <1>4, <2>1, <2>3, <2>4
<1>17. CASE ReceiveTakes(t)
  <2>1. PICK q \in Queues : q = tgt[t] /\ capacity[q] > 0
    BY <1>5, <1>17 DEF ReceiveTakes, AtLock, Idle
  <2>2. 1 \in 0 .. count[q]
    BY <1>1, <1>17, <2>1 DEF ReceiveTakes, RingOK
  <2>3. /\ head' \in [Queues -> Cells] /\ count' \in [Queues -> 0 .. BufMax]
        /\ out' \in [Threads -> Seq(Events)] /\ RingInv'
    BY <1>1, <1>17, <2>1, <2>2, TakeEffect DEF ReceiveTakes
  <2>4. RingOK' /\ Grows
    BY <1>1, <1>17, <2>3 DEF ReceiveTakes, Take, RingOK, Grows
  <2>5. RestOK'
    BY <1>1, <1>8, <1>17, <2>3 DEF ReceiveTakes, RestOK, AtLock, Idle
  <2>6. QED
    BY <1>6, <1>17, <2>3, <2>4, <2>5 DEF ReceiveTakes
<1>18. CASE ReceiveFails(t)
  <2>1. UNCHANGED ring /\ UNCHANGED active /\ Return(t, {})
    BY <1>18 DEF ReceiveFails
  <2>2. RestOK'
    BY <1>1, <1>8, <1>18 DEF ReceiveFails, RestOK, AtLock, Idle
  <2>3. QED
    BY <1>3, <1>4, <1>6, <2>1, <2>2
<1>19. CASE TryTakes(t)
  <2>1. PICK q \in Queues : q = tgt[t] /\ capacity[q] > 0
    BY <1>5, <1>19 DEF TryTakes, At, Idle
  <2>2. arg[t] \in Nat /\ count[q] \in Nat
    BY <1>1, <1>19, <2>1 DEF TryTakes, CallInv, RingOK
  <2>3. PICK n \in 0 .. count[q] : n = IF arg[t] < count[q] THEN arg[t] ELSE count[q]
    BY <2>2
  <2>4. Take(t, n)
    BY <1>19, <2>1, <2>3 DEF TryTakes
  <2>5. /\ head' \in [Queues -> Cells] /\ count' \in [Queues -> 0 .. BufMax]
        /\ out' \in [Threads -> Seq(Events)] /\ RingInv'
    BY <1>1, <1>19, <2>1, <2>4, TakeEffect DEF TryTakes
  <2>6. RingOK' /\ Grows
    BY <1>1, <2>4, <2>5 DEF Take, RingOK, Grows
  <2>7. RestOK'
    BY <1>1, <1>19, <2>5 DEF TryTakes, RestOK
  <2>8. QED
    BY <1>6, <1>19, <2>5, <2>6, <2>7 DEF TryTakes
<1>20. CASE Drains(t)
  <2>1. PICK q \in Queues : q = tgt[t] /\ capacity[q] > 0
    BY <1>5, <1>20 DEF Drains, At, Idle
  <2> USE DEF Drains
  <2>2. PICK c \in 1 .. BufMax : c = capacity[q]
    BY <1>1, <2>1, BoundsAssumption DEF RingOK
  <2>3. capacity' = [capacity EXCEPT ![q] = c]
    BY <1>1, <1>20, <2>2 DEF RingOK
  <2>4. /\ RingInv' /\ capacity' \in [Queues -> 0 .. BufMax]
        /\ head' \in [Queues -> Cells] /\ tail' \in [Queues -> Cells]
        /\ count' \in [Queues -> 0 .. BufMax]
    BY <1>1, <1>20, <2>1, <2>3, Emptied
  <2>5. RingOK' /\ Grows
    BY <1>1, <1>20, <2>4 DEF RingOK, Grows
  <2>6. RestOK'
    BY <1>1, <1>20 DEF RestOK
  <2>7. QED
    BY <1>6, <1>20, <2>4, <2>5, <2>6
<1>21. CASE ReceiveTimesOut(t)
  <2>1. UNCHANGED ring /\ UNCHANGED active /\ Return(t, {})
    BY <1>21 DEF ReceiveTimesOut, slotVars
  <2>2. RestOK'
    BY <1>1, <1>21 DEF ReceiveTimesOut, RestOK, slotVars
  <2>3. QED
    BY <1>3, <1>4, <1>6, <2>1, <2>2
<1>22. CASE Wakes(t)
  <2>1. UNCHANGED ring /\ UNCHANGED active /\ ~Idle(t)
        /\ pc' = [pc EXCEPT ![t] = "woken"] /\ UNCHANGED locals
    BY <1>22 DEF Wakes, At, Idle, slotVars
  <2>2. RestOK'
    BY <1>1, <1>22 DEF Wakes, RestOK, slotVars
  <2>3. LocalsOK' /\ CallInv'
    BY <1>1, <1>3, <2>1, WentOn
  <2>4. QED
    BY <1>3, <1>4, <2>1, <2>2, <2>3
<1>23. QED
  BY <1>9, <1>10, <1>11, <1>12, <1>13, <1>14, <1>15, <1>16, <1>17, <1>18, <1>19, <1>20,
     <1>21, <1>22 DEF Moves

----------------------------------------------------------------------------
(* The sleepers *)

(* The sets of threads are finite. *)
LEMMA ThreadSets ==
    ASSUME NEW S, S \subseteq Threads
    PROVE  /\ IsFiniteSet(S) /\ Cardinality(S) \in Nat
           /\ \A T : T \subseteq S => Cardinality(T) <= Cardinality(S)
           /\ \A x : x \in S => Cardinality(S \ {x}) = Cardinality(S) - 1
           /\ \A x : x \notin S => Cardinality(S \cup {x}) = Cardinality(S) + 1
<1>1. IsFiniteSet(S)
  BY ThreadsAssumption, FS_Subset
<1>2. QED
  BY <1>1, FS_Subset, FS_CardinalityType, FS_AddElement, FS_RemoveElement

(* Who is asleep, woken and blocked when a call has ended. *)
LEMMA ReturnSets ==
    ASSUME LocalsOK, NEW t \in Threads, NEW woken, woken \subseteq Asleep(tgt[t]),
           Return(t, woken), NEW q \in Queues
    PROVE  /\ Asleep(q)' \subseteq Asleep(q)
           /\ q = tgt[t] => Asleep(q)' \subseteq Asleep(q) \ woken
           /\ Woken(q) \ {t} \subseteq Woken(q)'
           /\ q = tgt[t] => woken \ {t} \subseteq Woken(q)'
           /\ Blocked(q)' = Blocked(q) \ {t}
<1>1. \A u \in Threads : u # t => /\ tgt'[u] = tgt[u] /\ mode'[u] = mode[u]
                                  /\ pc'[u] = IF u \in woken THEN "woken" ELSE pc[u]
  BY DEF LocalsOK, Return, Ended
<1>2. pc'[t] = "idle"
  BY DEF Return, Ended
<1>3. \A u \in woken : u \in Threads /\ pc[u] = "asleep" /\ tgt[u] = tgt[t]
  BY DEF Asleep
<1>4. /\ Asleep(q)' \subseteq Asleep(q)
      /\ q = tgt[t] => Asleep(q)' \subseteq Asleep(q) \ woken
  BY <1>1, <1>2, <1>3 DEF Asleep
<1>5. /\ Woken(q) \ {t} \subseteq Woken(q)'
      /\ q = tgt[t] => woken \ {t} \subseteq Woken(q)'
  BY <1>1, <1>3 DEF Woken
<1>6. Blocked(q)' = Blocked(q) \ {t}
  BY <1>1, <1>2, <1>3 DEF Blocked, Asleep, Woken, Counted
<1>7. QED
  BY <1>4, <1>5, <1>6

(* A step that wakes nobody, adds no event and makes no queue live leaves  *)
(* every event with the receiver that is coming for it.                    *)
LEMMA NoLostKept ==
    ASSUME NoLostEvent, NEW q \in Queues, count[q] \in Nat, count'[q] \in Nat,
           active'[q] => active[q], Asleep(q)' \subseteq Asleep(q),
           Woken(q) \subseteq Woken(q)', count'[q] <= count[q]
    PROVE  active'[q] /\ Asleep(q)' # {} => count'[q] <= Cardinality(Woken(q)')
<1>1. Woken(q) \subseteq Threads /\ Woken(q)' \subseteq Threads
  BY DEF Woken
<1>2. /\ Cardinality(Woken(q)) \in Nat /\ Cardinality(Woken(q)') \in Nat
      /\ Cardinality(Woken(q)) <= Cardinality(Woken(q)')
  BY <1>1, ThreadSets
<1>3. QED
  BY <1>2 DEF NoLostEvent

(* Every step keeps NoLostEvent. *)
LEMMA NoLostStep ==
    ASSUME Typed, Typed', NoLostEvent, NEW t \in Threads, Moves(t)
    PROVE  NoLostEvent'
<1>1. RingOK /\ RestOK /\ LocalsOK /\ CallInv
  BY TypeParts DEF Typed
<1>2. SUFFICES ASSUME NEW q \in Queues
               PROVE  active'[q] /\ Asleep(q)' # {} => count'[q] <= Cardinality(Woken(q)')
  BY DEF NoLostEvent
<1>3. count[q] \in Nat /\ count'[q] \in Nat
  BY DEF Typed, TypeOK
<1>4. /\ Woken(q) \subseteq Threads /\ Woken(q)' \subseteq Threads
      /\ Cardinality(Woken(q)) \in Nat /\ Cardinality(Woken(q)') \in Nat
  BY ThreadSets DEF Woken
<1>5. ASSUME count'[q] = 0
      PROVE  count'[q] <= Cardinality(Woken(q)')
  BY <1>4, <1>5
<1>6. ASSUME Return(t, {}), pc[t] # "woken", active'[q] => active[q], count'[q] <= count[q]
      PROVE  active'[q] /\ Asleep(q)' # {} => count'[q] <= Cardinality(Woken(q)')
  <2>1. Asleep(q)' \subseteq Asleep(q) /\ Woken(q) \ {t} \subseteq Woken(q)'
    BY <1>1, <1>6, ReturnSets
  <2>2. Woken(q) \subseteq Woken(q)'
    BY <1>6, <2>1 DEF Woken
  <2>3. QED
    BY <1>3, <1>6, <2>1, <2>2, NoLostKept
<1>7. ASSUME Return(t, {}), q # tgt[t], active'[q] = active[q], count'[q] = count[q]
      PROVE  active'[q] /\ Asleep(q)' # {} => count'[q] <= Cardinality(Woken(q)')
  <2>1. Asleep(q)' \subseteq Asleep(q) /\ Woken(q) \ {t} \subseteq Woken(q)'
    BY <1>1, <1>7, ReturnSets
  <2>2. Woken(q) \subseteq Woken(q)'
    BY <1>7, <2>1 DEF Woken
  <2>3. (active'[q] => active[q]) /\ count'[q] <= count[q]
    BY <1>3, <1>7
  <2>4. QED
    BY <1>3, <2>1, <2>2, <2>3, NoLostKept
<1>8. CASE \E z \in Queues, size \in Sizes : sys_event_queue_create(t, z, size)
  <2>1. PICK z \in Queues, size \in Sizes : sys_event_queue_create(t, z, size)
    BY <1>8
  <2>2. CASE z = q
    BY <1>1, <1>5, <2>1, <2>2 DEF sys_event_queue_create, RingOK
  <2>3. CASE z # q
    <3>1. /\ active'[q] = active[q] /\ count'[q] = count[q] /\ UNCHANGED <<pc, tgt>>
      BY <1>1, <2>1, <2>3 DEF sys_event_queue_create, RingOK, RestOK, locals
    <3>2. Asleep(q)' \subseteq Asleep(q) /\ Woken(q) \subseteq Woken(q)'
      BY <3>1 DEF Asleep, Woken
    <3>3. (active'[q] => active[q]) /\ count'[q] <= count[q]
      BY <1>3, <3>1
    <3>4. QED
      BY <1>3, <3>2, <3>3, NoLostKept
  <2>4. QED
    BY <2>2, <2>3
<1>9. CASE \E z \in Queues : sys_event_queue_destroy(t, z)
  <2>1. /\ active'[q] => active[q]
        /\ UNCHANGED <<pc, tgt, count>>
    BY <1>1, <1>9 DEF sys_event_queue_destroy, RestOK, ring, locals
  <2>2. QED
    BY <1>3, <2>1, NoLostKept DEF Asleep, Woken
<1>10. CASE Begins(t)
  <2>1. PICK z \in Queues, where \in {"cancel", "uncancel", "push", "enter", "try", "drain"},
             how \in Modes, a \in Events \cup Nat : Begin(t, z, where, how, a)
    BY <1>10 DEF Begins
  <2>2. UNCHANGED <<active, count>>
    BY <2>1 DEF Begin, slotVars, ring
  <2>3. Asleep(q)' = Asleep(q) /\ Woken(q)' = Woken(q)
    BY <1>1, <2>1 DEF Begin, Asleep, Woken, Idle, LocalsOK
  <2>4. QED
    BY <1>3, <2>2, <2>3, NoLostKept
<1>11. CASE Cancels(t)
  <2>1. UNCHANGED <<active, count>> /\ Return(t, Asleep(tgt[t])) /\ pc[t] # "woken"
    BY <1>11 DEF Cancels, At, ring
  <2>2. Asleep(q)' \subseteq Asleep(q) /\ Woken(q) \ {t} \subseteq Woken(q)'
    BY <1>1, <2>1, ReturnSets
  <2>3. Woken(q) \subseteq Woken(q)'
    BY <2>1, <2>2 DEF Woken
  <2>4. QED
    BY <1>3, <2>1, <2>2, <2>3, NoLostKept
<1>12. CASE Uncancels(t)
  BY <1>3, <1>6, <1>12 DEF Uncancels, At, ring
<1>13. CASE PushRefused(t)
  BY <1>3, <1>6, <1>13 DEF PushRefused, At, ring, slotVars
<1>14. CASE \E woken \in SUBSET Threads : PushStores(t, woken)
  <2>1. PICK woken \in SUBSET Threads : PushStores(t, woken)
    BY <1>14
  <2>2. /\ pc[t] = "push" /\ WakesOne(tgt[t], woken) /\ Return(t, woken) /\ active' = active
        /\ tgt[t] \in Queues /\ active[tgt[t]]
        /\ count' = [count EXCEPT ![tgt[t]] = @ + 1]
    BY <1>1, <2>1 DEF PushStores, At, CallInv, Idle
  <2>3. woken \subseteq Asleep(tgt[t])
    BY <2>2 DEF WakesOne
  <2>4. /\ Asleep(q)' \subseteq Asleep(q)
        /\ q = tgt[t] => Asleep(q)' \subseteq Asleep(q) \ woken
        /\ Woken(q) \ {t} \subseteq Woken(q)'
        /\ q = tgt[t] => woken \ {t} \subseteq Woken(q)'
    BY <1>1, <2>2, <2>3, ReturnSets
  <2>5. t \notin Woken(q) /\ t \notin woken
    BY <2>2, <2>3 DEF Woken, Asleep
  <2>6. CASE q # tgt[t]
    <3>1. count'[q] = count[q]
      BY <1>1, <2>2, <2>6 DEF RingOK
    <3>2. QED
      BY <1>3, <2>2, <2>4, <2>5, <3>1, NoLostKept
  <2>7. CASE q = tgt[t] /\ Asleep(q) = {}
    BY <2>4, <2>7
  <2>8. CASE q = tgt[t] /\ Asleep(q) # {}
    <3>1. PICK u \in Asleep(q) : woken = {u}
      BY <2>2, <2>8 DEF WakesOne
    <3>2. u \notin Woken(q) /\ Woken(q) \cup {u} \subseteq Woken(q)'
      BY <2>4, <2>5, <2>8, <3>1 DEF Woken, Asleep
    <3>3. Cardinality(Woken(q) \cup {u}) = Cardinality(Woken(q)) + 1
      BY <1>4, <3>2, ThreadSets
    <3>4. Cardinality(Woken(q) \cup {u}) <= Cardinality(Woken(q)')
      BY <1>4, <3>2, ThreadSets
    <3>5. count[q] <= Cardinality(Woken(q))
      BY <2>2, <2>8 DEF NoLostEvent
    <3>6. count'[q] = count[q] + 1
      BY <1>1, <2>2, <2>8 DEF RingOK
    <3>7. QED
      BY <1>3, <1>4, <3>3, <3>4, <3>5, <3>6
  <2>9. QED
    BY <2>6, <2>7, <2>8
<1>15. CASE ReceiveSleeps(t)
  <2>1. /\ count[tgt[t]] = 0 /\ UNCHANGED <<active, count, tgt>>
        /\ pc' = [pc EXCEPT ![t] = "asleep"]
    BY <1>15 DEF ReceiveSleeps, Sleeps, ring, locals
  <2>2. CASE q = tgt[t]
    BY <1>5, <2>1, <2>2
  <2>3. CASE q # tgt[t]
    <3>1. Asleep(q)' \subseteq Asleep(q) /\ Woken(q) \subseteq Woken(q)'
      BY <1>1, <2>1, <2>3 DEF Asleep, Woken, LocalsOK
    <3>2. QED
      BY <1>3, <2>1, <3>1, NoLostKept
  <2>4. QED
    BY <2>2, <2>3
<1>16. CASE ReceiveTakes(t)
  <2>1. /\ tgt[t] \in Queues /\ active' = active /\ Return(t, {})
        /\ active[tgt[t]] /\ count' = [count EXCEPT ![tgt[t]] = @ - 1]
    BY <1>1, <1>16 DEF ReceiveTakes, Take, CallInv, AtLock, Idle
  <2>2. CASE q # tgt[t]
    BY <1>1, <1>7, <2>1, <2>2 DEF RingOK
  <2>3. CASE q = tgt[t]
    <3>1. Asleep(q)' \subseteq Asleep(q) /\ Woken(q) \ {t} \subseteq Woken(q)'
      BY <1>1, <2>1, ReturnSets
    <3>2. Cardinality(Woken(q) \ {t}) \in Nat
          /\ Cardinality(Woken(q) \ {t}) >= Cardinality(Woken(q)) - 1
      <4>1. CASE t \in Woken(q)
        <5>1. Cardinality(Woken(q) \ {t}) = Cardinality(Woken(q)) - 1
          BY <1>4, <4>1, ThreadSets
        <5>2. Cardinality(Woken(q) \ {t}) \in Nat
          BY <1>4, ThreadSets
        <5>3. QED
          BY <1>4, <5>1, <5>2
      <4>2. CASE t \notin Woken(q)
        <5>1. Woken(q) \ {t} = Woken(q)
          BY <4>2
        <5>2. QED
          BY <1>4, <5>1
      <4>3. QED
        BY <4>1, <4>2
    <3>3. Cardinality(Woken(q) \ {t}) <= Cardinality(Woken(q)')
      BY <1>4, <3>1, ThreadSets
    <3>4. Asleep(q) # {} => count[q] <= Cardinality(Woken(q))
      BY <2>1, <2>3 DEF NoLostEvent
    <3>5. count'[q] = count[q] - 1
      BY <1>1, <2>1, <2>3 DEF RingOK
    <3>6. QED
      BY <1>3, <1>4, <3>1, <3>2, <3>3, <3>4, <3>5
  <2>4. QED
    BY <2>2, <2>3
<1>17. CASE ReceiveFails(t)
  <2>1. /\ ~(active[tgt[t]] /\ count[tgt[t]] > 0) /\ UNCHANGED <<active, count>>
        /\ Return(t, {})
    BY <1>17 DEF ReceiveFails, ring
  <2>2. CASE q = tgt[t] /\ active[q]
    BY <1>3, <1>5, <2>1, <2>2
  <2>3. CASE q # tgt[t]
    BY <1>7, <2>1, <2>3
  <2>4. QED
    BY <2>1, <2>2, <2>3
<1>18. CASE TryTakes(t)
  <2>1. /\ tgt[t] \in Queues /\ arg[t] \in Nat /\ active' = active /\ Return(t, {})
        /\ pc[t] # "woken"
    BY <1>1, <1>18 DEF TryTakes, CallInv, Idle, At
  <2>2. PICK n \in Nat : count' = [count EXCEPT ![tgt[t]] = @ - n]
    <3>1. count[tgt[t]] \in Nat
      BY <1>1, <2>1 DEF RingOK
    <3>2. QED
      BY <1>18, <2>1, <3>1 DEF TryTakes, Take
  <2>3. count'[q] <= count[q]
    BY <1>1, <1>3, <2>1, <2>2 DEF RingOK
  <2>4. QED
    BY <1>6, <2>1, <2>3
<1>19. CASE Drains(t)
  <2>1. /\ active' = active /\ Return(t, {}) /\ pc[t] # "woken"
        /\ count' = [count EXCEPT ![tgt[t]] = 0]
    BY <1>19 DEF Drains, At
  <2>2. count'[q] <= count[q]
    BY <1>1, <1>3, <2>1 DEF RingOK
  <2>3. QED
    BY <1>6, <2>1, <2>2
<1>20. CASE ReceiveTimesOut(t)
  BY <1>3, <1>6, <1>20 DEF ReceiveTimesOut, At, slotVars, ring
<1>21. CASE Wakes(t)
  <2>1. Asleep(q)' \subseteq Asleep(q) /\ Woken(q) \subseteq Woken(q)'
    BY <1>1, <1>21 DEF Wakes, At, Asleep, Woken, locals, LocalsOK
  <2>2. UNCHANGED <<active, count>>
    BY <1>21 DEF Wakes, slotVars, ring
  <2>3. QED
    BY <1>3, <2>1, <2>2, NoLostKept
<1>22. QED
  BY <1>8, <1>9, <1>10, <1>11, <1>12, <1>13, <1>14, <1>15, <1>16, <1>17, <1>18, <1>19,
     <1>20, <1>21 DEF Moves

(* Every step keeps WaitersReal. *)
LEMMA WaitersStep ==
    ASSUME Typed, Typed', WaitersReal, NEW t \in Threads, Moves(t)
    PROVE  WaitersReal'
<1>1. RestOK /\ LocalsOK /\ CallInv
  BY TypeParts DEF Typed
<1>2. SUFFICES ASSUME NEW q \in Queues
               PROVE  waiters'[q] <= Cardinality(Blocked(q)')
  BY DEF WaitersReal
<1>3. /\ waiters[q] \in Nat /\ waiters'[q] \in Nat /\ waiters[q] <= Cardinality(Blocked(q))
      /\ Blocked(q) \subseteq Threads /\ Blocked(q)' \subseteq Threads
  BY DEF Typed, TypeOK, WaitersReal, Blocked
<1>4. /\ Cardinality(Blocked(q)) \in Nat /\ Cardinality(Blocked(q)') \in Nat
      /\ t \in Blocked(q) => Cardinality(Blocked(q) \ {t}) = Cardinality(Blocked(q)) - 1
      /\ t \notin Blocked(q) => Blocked(q) \ {t} = Blocked(q)
  BY <1>3, ThreadSets
<1>5. t \in Blocked(q) <=> pc[t] \in {"asleep", "woken"} /\ tgt[t] = q /\ Counted(t)
  BY DEF Blocked, Asleep, Woken
<1>6. ASSUME Return(t, {}), ~(pc[t] \in {"asleep", "woken"} /\ Counted(t)), waiters' = waiters
      PROVE  waiters'[q] <= Cardinality(Blocked(q)')
  <2>1. Blocked(q)' = Blocked(q) \ {t}
    BY <1>1, <1>6, ReturnSets
  <2>2. QED
    BY <1>3, <1>4, <1>5, <1>6, <2>1
<1>7. ASSUME Return(t, {}), AtLock(t), LeavesCount(t)
      PROVE  waiters'[q] <= Cardinality(Blocked(q)')
  <2>1. Blocked(q)' = Blocked(q) \ {t}
    BY <1>1, <1>7, ReturnSets
  <2>2. tgt[t] \in Queues
    BY <1>1, <1>7 DEF CallInv, AtLock, Idle
  <2>3. CASE t \in Blocked(q)
    <3>1. waiters'[q] = IF waiters[q] > 0 THEN waiters[q] - 1 ELSE waiters[q]
      BY <1>1, <1>5, <1>7, <2>2, <2>3 DEF LeavesCount, RestOK, AtLock, At
    <3>2. QED
      BY <1>3, <1>4, <2>1, <2>3, <3>1
  <2>4. CASE t \notin Blocked(q)
    <3>1. waiters'[q] = waiters[q]
      BY <1>1, <1>5, <1>7, <2>2, <2>4 DEF LeavesCount, RestOK, At
    <3>2. QED
      BY <1>3, <1>4, <2>1, <2>4, <3>1
  <2>5. QED
    BY <2>3, <2>4
<1>8. ASSUME Blocked(q)' = Blocked(q), waiters'[q] = waiters[q] \/ waiters'[q] = 0
      PROVE  waiters'[q] <= Cardinality(Blocked(q)')
  BY <1>3, <1>4, <1>8
<1>9. CASE \E z \in Queues, size \in Sizes : sys_event_queue_create(t, z, size)
  <2>1. Blocked(q)' = Blocked(q)
    BY <1>9 DEF sys_event_queue_create, Blocked, Asleep, Woken, Counted, locals
  <2>2. waiters'[q] = waiters[q] \/ waiters'[q] = 0
    BY <1>1, <1>9 DEF sys_event_queue_create, RestOK
  <2>3. QED
    BY <1>8, <2>1, <2>2
<1>10. CASE \E z \in Queues : sys_event_queue_destroy(t, z)
  <2>1. Blocked(q)' = Blocked(q) /\ waiters' = waiters
    BY <1>10 DEF sys_event_queue_destroy, Blocked, Asleep, Woken, Counted, locals
  <2>2. QED
    BY <1>8, <2>1
<1>11. CASE Begins(t)
  <2>1. PICK z \in Queues, where \in {"cancel", "uncancel", "push", "enter", "try", "drain"},
             how \in Modes, a \in Events \cup Nat : Begin(t, z, where, how, a)
    BY <1>11 DEF Begins
  <2>2. Blocked(q)' = Blocked(q)
    BY <1>1, <2>1 DEF Begin, Blocked, Asleep, Woken, Counted, Idle, LocalsOK
  <2>3. waiters' = waiters
    BY <2>1 DEF Begin, slotVars
  <2>4. QED
    BY <1>8, <2>2, <2>3
<1>12. CASE Cancels(t)
  <2>1. Blocked(q)' = Blocked(q) \ {t}
    BY <1>1, <1>12, ReturnSets DEF Cancels
  <2>2. t \notin Blocked(q) /\ waiters' = waiters
    BY <1>5, <1>12 DEF Cancels, At
  <2>3. QED
    BY <1>3, <1>4, <2>1, <2>2
<1>13. CASE Uncancels(t)
  BY <1>6, <1>13 DEF Uncancels, At
<1>14. CASE PushRefused(t)
  BY <1>6, <1>14 DEF PushRefused, At, slotVars
<1>15. CASE \E woken \in SUBSET Threads : PushStores(t, woken)
  <2>1. PICK woken \in SUBSET Threads : PushStores(t, woken)
    BY <1>15
  <2>2. Blocked(q)' = Blocked(q) \ {t}
    BY <1>1, <2>1, ReturnSets DEF PushStores, WakesOne
  <2>3. t \notin Blocked(q) /\ waiters' = waiters
    BY <1>5, <2>1 DEF PushStores, At
  <2>4. QED
    BY <1>3, <1>4, <2>2, <2>3
<1>16. CASE ReceiveSleeps(t)
  <2>1. /\ pc' = [pc EXCEPT ![t] = "asleep"] /\ UNCHANGED <<tgt, mode>>
        /\ pc[t] \in {"enter", "woken"} /\ tgt[t] \in Queues
        /\ waiters' = [waiters EXCEPT ![tgt[t]] =
                         IF pc[t] = "enter" /\ Counted(t) THEN @ + 1 ELSE @]
    BY <1>1, <1>16 DEF ReceiveSleeps, AtLock, At, locals, CallInv, Idle
  <2>2. /\ \A u \in Threads : u # t => (u \in Blocked(q)' <=> u \in Blocked(q))
        /\ t \in Blocked(q)' <=> tgt[t] = q /\ Counted(t)
    BY <1>1, <2>1 DEF Blocked, Asleep, Woken, Counted, LocalsOK
  <2>3. CASE pc[t] = "enter" /\ Counted(t) /\ tgt[t] = q
    <3>1. t \notin Blocked(q) /\ Blocked(q)' = Blocked(q) \cup {t}
      BY <1>3, <1>5, <2>2, <2>3
    <3>2. Cardinality(Blocked(q)') = Cardinality(Blocked(q)) + 1
      BY <1>3, <3>1, ThreadSets
    <3>3. waiters'[q] = waiters[q] + 1
      BY <1>1, <2>1, <2>3 DEF RestOK
    <3>4. QED
      BY <1>3, <1>4, <3>2, <3>3
  <2>4. CASE ~(pc[t] = "enter" /\ Counted(t) /\ tgt[t] = q)
    <3>1. Blocked(q)' = Blocked(q)
      BY <1>3, <1>5, <2>1, <2>2, <2>4
    <3>2. waiters'[q] = waiters[q]
      BY <1>1, <2>1, <2>4 DEF RestOK
    <3>3. QED
      BY <1>8, <3>1, <3>2
  <2>5. QED
    BY <2>3, <2>4
<1>17. CASE ReceiveTakes(t)
  BY <1>7, <1>17 DEF ReceiveTakes
<1>18. CASE ReceiveFails(t)
  BY <1>7, <1>18 DEF ReceiveFails
<1>19. CASE TryTakes(t)
  BY <1>6, <1>19 DEF TryTakes, At
<1>20. CASE Drains(t)
  BY <1>6, <1>20 DEF Drains, At
<1>21. CASE ReceiveTimesOut(t)
  BY <1>6, <1>21 DEF ReceiveTimesOut, At, Counted, slotVars
<1>22. CASE Wakes(t)
  <2>1. Blocked(q)' = Blocked(q) /\ waiters' = waiters
    BY <1>1, <1>22 DEF Wakes, At, Blocked, Asleep, Woken, Counted, locals, slotVars, LocalsOK
  <2>2. QED
    BY <1>8, <2>1
<1>23. QED
  BY <1>9, <1>10, <1>11, <1>12, <1>13, <1>14, <1>15, <1>16, <1>17, <1>18, <1>19, <1>20,
     <1>21, <1>22 DEF Moves

----------------------------------------------------------------------------
(* The theorems *)

Inv == Typed /\ NoLostEvent /\ WaitersReal

(* No queue, no call. *)
LEMMA InitInv == Init => Inv
<1> SUFFICES ASSUME Init PROVE Inv
  OBVIOUS
<1> USE DEF Init
<1>1. TypeOK
  <2>1. <<>> \in Seq(Events)
    OBVIOUS
  <2>2. QED
    BY <2>1, BoundsAssumption DEF TypeOK, PcValues, Cells
<1>2. RingInv
  BY DEF RingInv
<1>3. CallInv
  BY DEF CallInv, Idle, At
<1>4. NoLostEvent
  BY DEF NoLostEvent
<1>5. WaitersReal
  <2> SUFFICES ASSUME NEW q \in Queues PROVE waiters[q] <= Cardinality(Blocked(q))
    BY DEF WaitersReal
  <2>1. Cardinality(Blocked(q)) \in Nat
    BY ThreadSets DEF Blocked
  <2>2. QED
    BY <2>1
<1>6. QED
  BY <1>1, <1>2, <1>3, <1>4, <1>5 DEF Inv, Typed

(* A step that changes nothing. *)
LEMMA StutterInv ==
    ASSUME Inv, UNCHANGED vars
    PROVE  Inv'
<1> USE DEF vars, slotVars, ring, locals
<1>1. TypeOK'
  BY DEF Inv, Typed, TypeOK
<1>2. RingInv'
  BY RingKept DEF Inv, Typed
<1>3. CallInv'
  BY DEF Inv, Typed, CallInv, Idle, At
<1>4. NoLostEvent'
  BY DEF Inv, NoLostEvent, Asleep, Woken
<1>5. WaitersReal'
  BY DEF Inv, WaitersReal, Blocked, Asleep, Woken, Counted
<1>6. QED
  BY <1>1, <1>2, <1>3, <1>4, <1>5 DEF Inv, Typed

(* The invariant is inductive. *)
THEOREM Invariance == Spec => []Inv
<1>1. Init => Inv
  BY InitInv
<1>2. Inv /\ [Next]_vars => Inv'
  <2> SUFFICES ASSUME Inv, [Next]_vars PROVE Inv'
    OBVIOUS
  <2>1. CASE Next
    <3>1. PICK t \in Threads : Moves(t)
      BY <2>1, NextMoves
    <3>2. Typed'
      BY <3>1, TypedStep DEF Inv
    <3>3. NoLostEvent' /\ WaitersReal'
      BY <3>1, <3>2, NoLostStep, WaitersStep DEF Inv
    <3>4. QED
      BY <3>2, <3>3 DEF Inv
  <2>2. CASE UNCHANGED vars
    BY <2>2, StutterInv
  <2>3. QED
    BY <2>1, <2>2
<1>3. QED
  BY <1>1, <1>2, PTL DEF Spec

(* Whatever recycles a slot under calls on their way in, the indices and   *)
(* the count of its ring stay inside its own capacity (PushStores, Take,   *)
(* sys_event_queue_create), and every counted place has an event.          *)
THEOREM RingsStayWhole == Spec => [](TypeOK /\ RingInv)
<1>1. Inv => TypeOK /\ RingInv
  BY DEF Inv, Typed
<1>2. QED
  BY <1>1, Invariance, PTL

(* No receiver of a live queue sleeps beside an event that no woken        *)
(* receiver is coming for (event_queue_push, sys_event_queue_receive).     *)
THEOREM NoEventLost == Spec => []NoLostEvent
<1>1. Inv => NoLostEvent
  BY DEF Inv
<1>2. QED
  BY <1>1, Invariance, PTL

(* waiters never counts more receivers than are blocked.                   *)
THEOREM WaitersAreThere == Spec => []WaitersReal
<1>1. Inv => WaitersReal
  BY DEF Inv
<1>2. QED
  BY <1>1, Invariance, PTL

(* A function of the queues that changes at one of them. *)
LEMMA OneQueue ==
    ASSUME NEW q \in Queues, NEW s,
           \A z \in Queues : Contents(z)' = IF z = q THEN s ELSE Contents(z)
    PROVE  [z \in Queues |-> Contents(z)]' = [[z \in Queues |-> Contents(z)] EXCEPT ![q] = s]
OBVIOUS

(* Every step of the ring is a step of the FIFO, or changes neither what   *)
(* the FIFO holds nor what its callers got.                                *)
LEMMA FifoStep ==
    ASSUME Typed, NEW t \in Threads, Moves(t)
    PROVE  Fifo!Next \/ UNCHANGED Fifo!fifoVars
<1> DEFINE fifo == [z \in Queues |-> Contents(z)]
<1>1. RingOK /\ RestOK /\ LocalsOK /\ TypeOK /\ RingInv /\ CallInv
  BY TypeParts DEF Typed
<1>2. ASSUME UNCHANGED ring, \A q \in Queues : active'[q] => active[q]
      PROVE  UNCHANGED <<capacity, fifo>>
  BY <1>1, <1>2, RingKept DEF ring
<1>3. ASSUME UNCHANGED ring, UNCHANGED active, UNCHANGED out
      PROVE  UNCHANGED Fifo!fifoVars
  BY <1>2, <1>3 DEF Fifo!fifoVars
<1>4. ASSUME NEW q \in Queues, q = tgt[t], capacity[q] > 0, NEW n \in 0 .. count[q],
             Take(t, n), active' = active
      PROVE  Fifo!Next
  <2>1. /\ out' = [out EXCEPT ![t] = SubSeq(Contents(q), 1, n)]
        /\ \A z \in Queues :
             Contents(z)' = IF z = q THEN SubSeq(Contents(q), n + 1, Len(Contents(q)))
                                     ELSE Contents(z)
    BY <1>1, <1>4, TakeEffect
  <2>2. fifo' = [fifo EXCEPT ![q] = SubSeq(Contents(q), n + 1, Len(Contents(q)))]
    BY <2>1, OneQueue
  <2>3. fifo[q] = Contents(q) /\ Len(fifo[q]) = count[q]
    BY <1>1, ContentsSeq
  <2>4. capacity' = capacity
    BY <1>4 DEF Take
  <2>5. Fifo!Receive(t, q, n)
    BY <2>1, <2>2, <2>3, <2>4 DEF Fifo!Receive
  <2>6. QED
    BY <1>4, <2>3, <2>5 DEF Fifo!Next
<1>5. CASE \E q \in Queues, size \in Sizes : sys_event_queue_create(t, q, size)
  <2>1. PICK q \in Queues, size \in Sizes : sys_event_queue_create(t, q, size)
    BY <1>5
  <2> USE DEF sys_event_queue_create
  <2>2. Capacity(size) \in 1 .. BufMax
    BY BoundsAssumption DEF Capacity
  <2>3. \A z \in Queues : z # q => buffer'[z] = buffer[z] /\ active'[z] = active[z]
    BY <1>1, <2>1 DEF RingOK, RestOK
  <2>4. \A z \in Queues : Contents(z)' = IF z = q THEN <<>> ELSE Contents(z)
    BY <1>1, <2>1, <2>2, <2>3, Emptied
  <2>5. fifo' = [fifo EXCEPT ![q] = <<>>]
    BY <2>4, OneQueue
  <2>6. capacity'[q] \in Nat \ {0} /\ capacity' = [capacity EXCEPT ![q] = capacity'[q]]
    BY <1>1, <2>1, <2>2, BoundsAssumption DEF RingOK
  <2>7. Fifo!Open(q)
    BY <2>1, <2>5, <2>6 DEF Fifo!Open
  <2>8. QED
    BY <2>7 DEF Fifo!Next
<1>6. CASE \E q \in Queues : sys_event_queue_destroy(t, q)
  <2>1. UNCHANGED ring /\ UNCHANGED out /\ \A q \in Queues : active'[q] => active[q]
    BY <1>1, <1>6 DEF sys_event_queue_destroy, RestOK
  <2>2. QED
    BY <1>2, <2>1 DEF Fifo!fifoVars
<1>7. CASE Begins(t)
  <2>1. UNCHANGED ring /\ UNCHANGED active /\ out' = [out EXCEPT ![t] = <<>>]
    BY <1>7 DEF Begins, Begin, slotVars
  <2>2. Fifo!Call(t)
    BY <1>2, <2>1 DEF Fifo!Call
  <2>3. QED
    BY <2>2 DEF Fifo!Next
<1>8. CASE Cancels(t)
  BY <1>3, <1>8 DEF Cancels
<1>9. CASE Uncancels(t)
  BY <1>3, <1>9 DEF Uncancels
<1>10. CASE PushRefused(t)
  BY <1>3, <1>10 DEF PushRefused, slotVars
<1>11. CASE \E woken \in SUBSET Threads : PushStores(t, woken)
  <2>1. PICK woken \in SUBSET Threads : PushStores(t, woken)
    BY <1>11
  <2>2. PICK q \in Queues : q = tgt[t]
    BY <1>1, <2>1 DEF PushStores, At, Idle, CallInv
  <2>3. PICK e \in Events : e = arg[t]
    BY <1>1, <2>1 DEF PushStores, CallInv
  <2>4. /\ active[q] /\ count[q] < capacity[q]
        /\ buffer' = [buffer EXCEPT ![q][tail[q]] = e]
        /\ tail'   = [tail   EXCEPT ![q] = (@ + 1) % capacity[q]]
        /\ count'  = [count  EXCEPT ![q] = @ + 1]
        /\ UNCHANGED <<active, capacity, head>> /\ UNCHANGED out
    BY <2>1, <2>2, <2>3 DEF PushStores
  <2>5. /\ Len(Contents(q)) < capacity[q]
        /\ \A z \in Queues :
             Contents(z)' = IF z = q THEN Append(Contents(q), e) ELSE Contents(z)
    BY <1>1, <2>4, PushEffect
  <2>6. fifo' = [fifo EXCEPT ![q] = Append(Contents(q), e)]
    BY <2>5, OneQueue
  <2>7. Fifo!Send(q, e)
    BY <2>4, <2>5, <2>6 DEF Fifo!Send
  <2>8. QED
    BY <2>7 DEF Fifo!Next
<1>12. CASE ReceiveSleeps(t)
  BY <1>3, <1>12 DEF ReceiveSleeps
<1>13. CASE ReceiveTakes(t)
  <2>1. PICK q \in Queues : q = tgt[t] /\ capacity[q] > 0
    BY <1>1, <1>13 DEF ReceiveTakes, AtLock, Idle, CallInv
  <2>2. 1 \in 0 .. count[q]
    BY <1>1, <1>13, <2>1 DEF ReceiveTakes, RingOK
  <2>3. QED
    BY <1>4, <1>13, <2>1, <2>2 DEF ReceiveTakes
<1>14. CASE ReceiveFails(t)
  BY <1>3, <1>14 DEF ReceiveFails
<1>15. CASE TryTakes(t)
  <2>1. PICK q \in Queues : q = tgt[t] /\ capacity[q] > 0
    BY <1>1, <1>15 DEF TryTakes, At, Idle, CallInv
  <2>2. arg[t] \in Nat /\ count[q] \in Nat
    BY <1>1, <1>15, <2>1 DEF TryTakes, CallInv, RingOK
  <2>3. PICK n \in 0 .. count[q] : n = IF arg[t] < count[q] THEN arg[t] ELSE count[q]
    BY <2>2
  <2>4. Take(t, n) /\ active' = active
    BY <1>15, <2>1, <2>3 DEF TryTakes
  <2>5. QED
    BY <1>4, <2>1, <2>4
<1>16. CASE Drains(t)
  <2>1. PICK q \in Queues : q = tgt[t] /\ capacity[q] > 0
    BY <1>1, <1>16 DEF Drains, At, Idle, CallInv
  <2> USE DEF Drains
  <2>2. PICK c \in 1 .. BufMax : c = capacity[q]
    BY <1>1, <2>1, BoundsAssumption DEF RingOK
  <2>3. capacity' = [capacity EXCEPT ![q] = c]
    BY <1>1, <1>16, <2>2 DEF RingOK
  <2>4. \A z \in Queues : Contents(z)' = IF z = q THEN <<>> ELSE Contents(z)
    BY <1>1, <1>16, <2>1, <2>3, Emptied
  <2>5. fifo' = [fifo EXCEPT ![q] = <<>>]
    BY <2>4, OneQueue
  <2>6. Fifo!Drain(q)
    BY <1>16, <2>5 DEF Fifo!Drain
  <2>7. QED
    BY <2>6 DEF Fifo!Next
<1>17. CASE ReceiveTimesOut(t)
  BY <1>3, <1>17 DEF ReceiveTimesOut, slotVars
<1>18. CASE Wakes(t)
  BY <1>3, <1>18 DEF Wakes, slotVars
<1>19. QED
  BY <1>5, <1>6, <1>7, <1>8, <1>9, <1>10, <1>11, <1>12, <1>13, <1>14, <1>15, <1>16,
     <1>17, <1>18 DEF Moves

(* The ring implements the bounded FIFO: each event goes to one receive or *)
(* tryreceive, in the order of the pushes, and a full queue takes none.    *)
THEOREM RingIsFifo == Spec => FifoSpec
<1>1. Init => Fifo!Init
  BY DEF Init, Fifo!Init, Contents
<1>2. Inv /\ [Next]_vars => [Fifo!Next]_(Fifo!fifoVars)
  <2> SUFFICES ASSUME Inv, [Next]_vars PROVE Fifo!Next \/ UNCHANGED Fifo!fifoVars
    OBVIOUS
  <2>1. CASE Next
    BY <2>1, NextMoves, FifoStep DEF Inv
  <2>2. CASE UNCHANGED vars
    <3>1. UNCHANGED ring /\ UNCHANGED out /\ \A q \in Queues : active'[q] => active[q]
      BY <2>2 DEF vars, slotVars
    <3>2. \A q \in Queues : Contents(q)' = Contents(q)
      BY <3>1, RingKept DEF Inv, Typed
    <3>3. QED
      BY <3>1, <3>2 DEF Fifo!fifoVars, ring
  <2>3. QED
    BY <2>1, <2>2
<1>3. QED
  BY <1>1, <1>2, Invariance, PTL DEF Spec, FifoSpec, Fifo!Spec
=============================================================================
