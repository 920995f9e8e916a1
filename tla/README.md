# The ps3recomp kernel primitives in TLA+

ps3recomp translates a PlayStation 3 title to C and links it with a runtime that
plays the console's kernel (lv2), its SPUs and its libraries on a PC. The title's
own threads become host threads. What decides whether a title runs or hangs is
the layer in which those threads meet: the kernel's mutexes, condition variables,
semaphores, event queues, flags and locks, written over the host's, the primitives
that live in guest memory, and the tables of threads and workers behind them. This
project models that layer as the code implements it, checks it with TLC and proves
its safety properties with TLAPS.

## Inventory

| part | state | operations | meets |
|---|---|---|---|
| mutexes, `runtime/syscalls/sys_mutex.c` | a table of slots (active, recursive, owner, count, conds bound, waiters relocking) and a `CRITICAL_SECTION` that outlives the slot's mutexes | create, destroy, lock, timed lock, trylock, unlock, bind/unbind cond | conds |
| conds, `sys_cond.c` | a table of slots (active, mutex, list of waiter records, lock) | create, destroy, wait, timed wait, signal, signal_all, signal_to | mutexes: give up and take again, `cond_count`, `relock_pending` |
| semaphores, `sys_semaphore.c` | a table of slots (active, value, max, waiters), a lock, a host semaphore as wake channel | create, destroy, wait, timed wait, trywait, post, get_value | - |
| event queues, `sys_event.c` | a table of slots (ring, capacity, head, tail, count, cancelled, waiters), a lock and condition variable that outlive the queues | create, destroy, cancel, uncancel, receive (untimed, timed, poll), receive_host, tryreceive, drain, push, inject | ports, timers, cellAudio, SPURS push; SPU threads receive |
| event ports, `sys_event.c` | a table of slots (active, name, connected queue) | create, destroy, connect, disconnect, send | event queues |
| event flags, `sys_event.c` | pattern, a lock and condition variable | create, destroy, wait (untimed, timed, polled), trywait, set, clear, get | - |
| timers, `sys_timer.c` | active, running, stop event, thread handle, queue id, a host thread while it runs (and late ones) | create, destroy, connect, disconnect, start, stop | event queues: the host thread pushes |
| reader-writer locks, `sys_rwlock.c` | two owner words, reader count, an SRWLock | create, destroy, rlock, tryrlock, runlock, wlock, trywlock, wunlock | - |
| cellSync, `libs/sync` | words of guest memory | ticket mutex, barrier, reader-writer mutex, queue, lock-free queue | PPU and SPU threads |
| lightweight mutexes, `runtime/ppu/ppu_sysprx.cpp` | owner and recursion words in guest memory, a count, waiters, a lock and condition variable on the host | lock, timed lock, trylock, unlock, lwcond wait | PPU threads |
| SPU job pool, `runtime/spu/spu_async_pool.c` | a bounded list of parked workers, each with an event and a job record | start; the worker runs, parks, times out, exits | the SPU dispatchers |
| PPU threads, `sys_ppu_thread.c` | a table of slots (state, host thread, finish event, status) | create, exit, join, detach, the end of a thread | all of the above |
| cellSync2, SPURS, fibers, memory | tables and guest memory | see `PROJECT.json` | the above |
| PPU/SPU execution, loaders, RSX, codecs, fonts, audio, input, network, file system, lifter tools | - | - | - |

The hard behaviour is the same in every one of the tables. An id is a slot + 1, a
destroyed slot is used again, and a syscall looks at `active` before it takes the
lock it needs. Between the two the object may be destroyed or replaced. Blocking
calls keep their own wake-up discipline over a host condition variable or
semaphore; timeouts race signals; counters of waiters (`waiters`,
`relock_pending`, `cond_count`) are moved by several threads, and somebody decides
by them whom to wake or what to destroy. `PROJECT.json` lists these hazards at the
lines where they bite.

What makes each part correct:

- mutexes: one holder at a time through recursion, cond waits and recycling; the
  host lock entered exactly as often as the guest holds; destroy frees nothing in use;
- conds: a signal is neither lost nor spent on a thread that reports a timeout; a
  selected waiter comes back with the mutex;
- semaphores: the count stays in 0..max; no thread sleeps beside a unit it could take;
- event queues: a bounded FIFO, each event to one receiver; no receiver sleeps
  beside an event; cancel releases all;
- ports and timers: two more producers that leave the ring a FIFO and wake its
  receivers; a timer that runs has its thread;
- flags: nobody sleeps on beside a pattern that satisfies him;
- rwlocks: the unlocked looks at the owner words are right, no writer beside another
  holder;
- cellSync: mutual exclusion and no lost ticket through the 16-bit wrap, no torn
  copy of a reader-writer memory, nobody through a barrier early, queues that are FIFOs;
- lightweight mutexes: one holder, exact recursion, no locker asleep beside a free mutex;
- job pool: each job runs once, on a worker that is still there; PPU threads: one
  thread to a slot, no slot lost, a join that reads the right status.

## Modules

| module | models | checked by |
|---|---|---|
| `SysMutex` | `sys_mutex.c` | through `SysCond` |
| `SysCond` | `sys_cond.c` composed with `SysMutex` | `sync`, `sync_live` |
| `SysSemaphore` | `sys_semaphore.c` | `semaphore`, `sem_recycle`, `sem_overflow` |
| `SysEventQueue` | the event queues of `sys_event.c` | `events`, `events_live`, `event_timeout` |
| `EventFifo` | abstract: what an event queue promises | `events` (as `FifoSpec`) |
| `SysEventPort`, `SysTimer` | the ports of `sys_event.c`, a timer of `sys_timer.c`; both over `SysEventQueue` | through `SysEvents` |
| `SysEvents` | queues, ports and a timer composed | `events` |
| `Callers` | the threads and how far each one's call is, for the modules below | |
| `CellSyncMutex`, `CellSyncBarrier`, `CellSyncRwm`, `CellSyncQueue`, `CellSyncLFQueue` | the five objects of `libs/sync/cellSync.c` | `objects`; the barrier also `barrier_hang`, `barrier_early` |
| `SyncFifo` (with `QueueElements`) | abstract: what both cellSync queues promise | `objects` (as `QueueIsFifo`, `LFQueueIsFifo`) |
| `SysLwmutex` | the lightweight mutex and cond of `runtime/ppu/ppu_sysprx.cpp` | `objects`, `lwm_handover` |
| `SysEventFlag` | the event flags of `sys_event.c` | `objects` |
| `SysRwlock` | `sys_rwlock.c` | `objects` |
| `SpuAsyncPool` | `runtime/spu/spu_async_pool.c` | `objects` |
| `SysPpuThread` | the thread table of `sys_ppu_thread.c` | `objects` |
| `MCSysCond`, `MCSysSemaphore`, `MCSysEvents` | symmetry sets; `MCSysEvents` picks the queue's other producer, see Bounds | |
| `MCObjects` | one of ten kinds of object at a time, see Bounds | |
| `SysCondProofs`, `SysSemaphoreProofs`, `SysEventQueueProofs`, `SysEventsProofs`, `SysKernelProofs`, `CellSyncProofs`, `CellSyncQueueProofs`, `SpuAsyncPoolProofs` | theorems | TLAPS |

Conventions, common to all of them:

- A field of a slot is a function of the id, under the code's name. `pc`, `tgt` and
  a few more functions of the thread hold where its syscall is and its locals.
- The models are of the Windows build, the one in which the locks outlive their
  slots. POSIX branches, diagnostics (environment knobs, history rings, traces)
  and attributes that nothing reads (protocol, name) are left out.
- A call that fails at once changes nothing and is a step not taken: the guard
  carries the condition, with the error code as a comment. An error that comes
  after the call has started is an action (`LockGone`, `PushRefused`, ...).
- Operators named "Mutant" in their comment are faulty variants of the definition
  that follows. Nothing uses them; they show that the properties can fail.
- `tainted`, `stale`, `crossed` and `loose` are not the program's: they are history, and no
  guard of a component's module reads them. Each marks the one step after which a promise
  of the code is broken. The promise itself is a violation run, or a finding; the passing
  runs and the theorems show that there is no other way to break it.
- Thread ids are distinct and not zero (`ppu_thread_register_main` gives the main
  thread 1).

### Atomicity

`SysMutex`, `SysCond`. A section under a lock is one step unless something reads
or writes its fields without that lock. `sys_mutex_lock` is a look at the slot,
a wait for the host lock, and a second look with the assignments. Other threads
can change `owner_tid` while a call reads it, but not from or to the caller's own
id, which is all it is compared with. Unlock and `sys_cond_wait` change owner and
count before they leave the host lock; the only other reader, destroy, needs that
lock first. Destroy is four steps, because a signal or a timeout moves
`relock_pending` under the cond's lock only. A signal is one step per record for
the same reason. The cond's table lock adds no behaviour: it is held only while
the cond's lock is awaited. Create makes everything before it sets `active`.

`SysSemaphore`. One step per section of `value_lock`; wait is look, take / expire /
park, sleep, count down, loop; post is look, add, release. Create and destroy are
one step each under the table lock. A thread that has counted itself but has not
reached `WaitForSingleObject` when the handle is closed later sleeps on the slot's
next handle; one already asleep stays with the old object (`deaf`) and hears
nothing more. Which of the two a parked thread is in, is the choice of `sleeping`
in destroy. A closed handle's value is taken not to name another object. Destroy also
deletes `value_lock` under the calls that still have to take it: `lost` marks their
threads until they get a live semaphore's lock. What they do then is undefined; the
model lets them go on at any time or never (no fairness), so the safety properties
meet both and no progress is promised to them.

`SysEventQueue`. One step per section of the queue's lock. A receive that finds an
event or a reason to fail at once counts itself up and down in one section, which
shows nowhere. Waking and timing out exclude each other for one sleeper. Spurious
wake-ups of `SleepConditionVariableCS` are modelled. The rescue hooks in receive
(`spu_dispatch_frame_by_queue` and others) run before the lock is taken; what they
push is an ordinary push of another thread.

`SysEventPort`, `SysTimer`. Sending through a port is two looks without a lock, at the
port and at the queue, and a push like any other. The timer's thread is a loop of its
own: it looks at `running`, waits for the stop event or its period, looks again, reads
the queue's id, reads it again for the index, looks at the queue without the lock, reads
source and data1, and stores under the lock. Connect stores the id before source and
data1, so a thread may push an event that is neither the old one nor the new one
(`Mix`). A disconnect between the two reads of the id gives the index -1: the thread
then reads what lies before the table, and the model follows it no further
(`astray`). Create, destroy, start and stop take no lock and free what the thread uses,
so the guest may make one of them at a time; connect and disconnect may come whenever. A
stop waits 3 seconds for the thread and ignores the result, so `StopJoins` has no guard:
a thread that is late runs on, with a closed stop event (its wait fails at once) or
with that of the next start, until it finds `running` clear or that event set.

`SysEventFlag`. One step per section of the flag's lock; a poll (below 1 ms) looks
again and again, a sleep that times out does not look. Destroy deletes the lock and
wakes nobody, so the guest may destroy a flag only while no call uses it, and destroy
with create is the one step that gives a new pattern.

`SysRwlock`. Each access to `writer` and `writer_tid` is a step, since none of them is
under a lock; the SRWLock is external. A reader lock is given back by the thread that
took it: `runlock` asks nobody. Create and destroy, also of a held lock, come while no
call on it is under way: an SRWLock made anew under a thread in it has no defined
outcome.

`CellSync*`. Each atomic access is a step; so is a transaction under the lock-line lock
(the compare-and-swap of the mutex, `sq_apply`, `sq_and`), which SPU code takes as
well, and a `memcpy` of an element or of the buffer. `TicketMod` is 2^16. Unlock is by
the thread that locked: the object has no owner. A thread that waits at the barrier has
notified it; in each round it is free to Wait or to TryWait.

`SysLwmutex`. The compare-and-swap of the count, each look at `waiters`, the section
between taking the slot's lock and sleeping, and the exchange of a release are steps
of their own. The two guest words are written by whoever has the count. A guest
unlocks what it holds. It may hand a held mutex to another thread, or exit with it (the
comment above the code names both). A hand-over changes no word: the owner word still
names the giver, and the giver's next lock takes the recursive path (`Relocks`), as in
the code. `crossed` records that a thread without a lock was let in that way.

`SpuAsyncPool`. The idle list under its lock; the job record and the event are written
after the worker was taken, without it. A worker's record may be made at the address
of one that was freed.

`SysPpuThread`. A section under the table lock is a step, except at the end of a
thread procedure, where the finish event is set inside the section and a joiner
reads the status outside it. Exits that unwind and, with
`PS3_NO_THREAD_EXIT_UNWIND`, exits that do not are both modelled; an exit of the main
thread never unwinds. Detach takes any thread, main included. When a thread is detached
and its exit does not unwind, its slot is free while it runs on (`loose`). The guest
neither joins nor detaches a thread that is being joined: nothing in the slot tells
that, and two joiners would close its handles twice.

## Runs

| run | result | states | shows |
|---|---|---|---|
| `sync` | pass | 959,281 | `HoldersExclude`, `HostLockMatches`, `CondsCounted`, `RelockersCounted`, `SignalKept`, `DestroyOnlyUnused` |
| `sync_live` | pass | 17,861 | `WaitReturns` |
| `semaphore` | pass | 741,643 | `ValueInRange`, `WaitersCounted`, `NoLostWake`, `UnitsFindSleepers`, `TimedWaitReturns` |
| `sem_recycle` | violation | | `PostNeverSkips` |
| `sem_overflow` | violation | | `ValueInRange` |
| `events` | pass | 919,584 | `FifoSpec`, `RingInv`, `NoLostEvent`, `WaitersReal`, `TimerServed` |
| `events_live` | pass | 132,012 | `EventsFindReceivers`, `CancelReleases` |
| `event_timeout` | violation | | `TimedReceiveReturns` |
| `objects` | pass | 312,564 | `MutexExclusive`, `MutexLine`, `MutexServed`; `RwmNoTear`, `RwmCounted`, `RwmWriteReturns`; `BarrierHoldsUntilStale`; `QueueFlags`, `QueueSlotsApart`, `QueueIsFifo`, `LFQueueIsFifo`; `LwmExclusiveUntilCrossed`, `LwmNoLostWake`; `FlagNoLostWake`, `FlagWaitReturns`; `RwlockOwner`; `PoolWorkersHeld`, `PoolJobsOnce`, `PoolJobRuns`; `ThreadSlotsKept`, `JoinExact` |
| `barrier_hang` | violation | | `BarrierReleases` |
| `barrier_early` | violation | | `BarrierHolds` |
| `lwm_handover` | violation | | `LwmExclusive` |

`CHECK_DEADLOCK FALSE` is everywhere: guests owe no calls, and an untimed wait that
nobody answers may last for ever, as on the console.

Bounds. One slot per table: a slot's steps touch no other slot, the table search takes
the lowest free one, and with a single slot every create after a destroy recycles, which
is the interesting case (a full table is one create away). Three threads for `sync` (a
waiter, a signaller and a destroyer, or two waiters and a signaller); depth 2 for
recursion. Three threads for `semaphore`, so that a post of 2 meets two sleepers, and a
destroy and create a waiter and a post. In `events` there are two threads and one other
source of events: a port; or the timer, connected and started before the queues are
used, so that two receivers meet a producer that is none of them; or the timer with
every call on it at any time and up to `BeatMax` = 2 of its threads, a late one beside
the one that belongs to the timer, while nobody else uses the queues. (The theorems put
no bound on the threads and let all of it happen at once.) `events_live` has three
threads on the queue alone. Capacities 1 and 2 (size 0 stands for the maximum, `BufMax`)
so that a ring wraps and a slot is recycled for a smaller one. `IntMax` stands for
INT32_MAX: 4 where no sum reaches it, 3 in `sem_overflow`. `MaxTokens` bounds the host
semaphore's count (2^31 - 1 in the code); a post that would pass it waits in the model,
and 2 tokens are as many as the sleepers a post can find with 3 threads. Threads and
events are symmetric in the safety runs; the runs with liveness use no symmetry.

`objects` checks ten modules at once, as a sum: `Init` picks a `kind`
of object and the threads use that one. The objects share no state in the code (each
is its own memory or table), so what holds of each alone holds of all together. Three
threads: two in line behind a holder, two readers and a writer, two producers and a
consumer, two waiters of different bits and a setter, a joiner with the thread it joins
and one that takes the slot. `TicketMod` is 3, so the line is full and the tickets wrap
within a few calls (fewer tickets than threads would be shared, as 65537 threads
would share them in the code). Queue depth 2, barrier rounds 2 (one round still open
while the next one starts), recursion 2, two read locks per thread, two workers with
an idle list of one (the second to park exits), three thread slots with the main
thread in one. `SomeModes` has AND and OR and both kinds of clear. To keep the run small
one thread at a time waits on the lwcond, one of the three does not wait on the flag,
and a behaviour ends where `crossed` or `loose` becomes true, since the properties
promise nothing after that.

Fairness. The host keeps running a thread that is inside a syscall and not asleep (weak
fairness of its steps), wakes a thread for a token or when its timer ends, and lets time
pass. In `semaphore` it owes nothing to a thread that enters a deleted `value_lock`
(`lost`). In `sync_live` a thread that waits for the cond's lock or for the guest mutex
gets strong fairness: a `CRITICAL_SECTION` that keeps coming free does not pass one
thread over for ever. `WaitReturns` assumes that the guest mutexes keep being released,
which is up to the title. Nothing is assumed of an idle guest: no thread owes a call.
`MutexFairness`, `RwmFairness` and `BarrierFairness` are weak fairness of the threads
inside a call: they spin and yield, and the host runs them. Several liveness properties
have the form `[]<>P`, "again and again not waiting", which is the same as "waiting
leads to not waiting". `MutexServed` further assumes that holders unlock,
`RwmWriteReturns` is about a writer that has swapped its word in. `FlagFairness` runs
woken, polling and timed waiters; `PoolFairness` runs dispatchers and workers, and does
not assume that jobs end; in `objects` they are the fairness of the one object that a
behaviour has. In these runs no step relies on strong fairness.

### What the violations show

- `sem_recycle`. destroy asks for no waiters and create clears them, so a thread
  between counting itself and sleeping can sleep on the new semaphore without being
  counted, and a post skips the release the comment says it can never skip. `tainted`
  marks such slots; `WaitersCounted`, `NoLostWake` and `UnitsFindSleepers` speak of
  the others.
- `sem_overflow`. `value + count` is added in `int32_t` before it is compared. The
  theorem `ValueBounded` shows that this is the only way out of the range.
- `barrier_hang`. A wait takes the phase to compare with when it is called, so a thread
  that notified and was then overtaken by the last one waits for a round too many.
- `barrier_early`. The last thread to arrive resets `arrived` and advances `phase` in two
  steps; TryWait goes by the first, Wait by the second. A thread that TryWait lets through
  in between, and that notifies again and Waits, is let through by the advance of the
  round before. `stale` marks a Wait that loaded the phase in that window, and
  `BarrierHoldsUntilStale` shows that nothing else lets a thread through early.
- `lwm_handover`. After a hand-over the giver locks again through the recursive path and
  has the mutex together with the new holder. `LwmExclusiveUntilCrossed` shows that this
  is the only way to two holders.
- `event_timeout`. A timed receive restarts its whole timeout at each wake-up. The
  run leaves spurious wake-ups out (`CalmSpec`), so that they are not what it shows.

Further divergences between text and code are listed in `PROJECT.json` without a run:
destroying a queue that is not empty, timed receivers that `waiters` does not count,
the error codes of mutex unlock and lwmutex trylock, the sense of `sys_event_flag_clear`
and its missing cancel, a flag's timeout that starts again, a port that outlives its
queue, and the slot of a detached thread that is freed by an exit which does not unwind.

## Proofs

For any finite set of threads and any table sizes, depths and capacities:

- `SysCondProofs`: type correctness, mutual exclusion, the exact host lock, exact
  counts, no lost signal, and that destroy frees only what is unused.
- `SysSemaphoreProofs`: type correctness, exact waiters, no lost wake-up, and, if no
  post can pass `IntMax` (`NoOverflow`), the range of value.
- `SysEventQueueProofs`: the rings stay whole within the capacity of their slot
  (`RingInv`), no lost event, waiters not overcounted, and that the ring implements
  `EventFifo`.
- `SysEventsProofs`: all of that again for the queues composed with the ports and the
  timer's threads that feed them (`EventsSpec`), and that a timer that runs has its thread.
- `CellSyncProofs`: the ticket mutex keeps its line and excludes, for any `TicketMod`
  that is enough for the threads; the reader-writer memory never tears and counts
  exactly; until a Wait has loaded a stale phase the barrier lets nobody through early,
  for any number of rounds; until a giver is let in by the recursive path the lightweight
  mutex excludes, with exact recursion; it loses no wake-up in any case.
- `CellSyncQueueProofs`: the flags of `CellSyncQueue` have one owner each, its copies
  outside the transactions never meet, and it implements `SyncFifo`; `CellSyncLFQueue`
  implements `SyncFifo` too.
- `SysKernelProofs`: event flags keep their types and lose no wake-up, for any bits and
  modes; the owner words of a reader-writer lock are right wherever they are read; the
  table of threads keeps every slot for its thread and loses none, and joins are exact,
  until a slot is freed under a thread that its exit did not end.
- `SpuAsyncPoolProofs`: workers are held, jobs run once, for any number of workers, jobs
  and places in the idle list.

The assumptions are the modules' `ASSUME`s: finite thread sets, naturals for bounds,
`NoThread`, `NoEvent`, `NoValue` and `NoBody` outside their sets, a depth of at least
one, slots numbered from 1. TLC evaluates them in the runs.

Arguments. *Conds*: none of the properties is inductive alone. `IInv` adds to them which
threads are where: the host lock belongs to the guest owner or to the destroying thread
(`HostInv`), a thread that waits or relocks left with levels to take again (`AwayInv`),
what is in use is live (`LiveInv`), a cond's list holds its unsignalled waiters once
each (`QueueInv`). The step that needs most care is destroy against signals: `ProbeInv`
says that after destroy has read `relock_pending = 0`, a wake-up since then implies that
a cond is still bound, because unbinding needs the table lock that destroy holds; so the
later look at `cond_count` refuses. Counts are cardinalities of sets of threads, and
each action adds or removes one element. *Semaphores*: `NoLostWake` speaks of one
sleeper; the inductive form `TokensSuffice` counts: tokens, tokens still owed by posts,
and threads awake are together enough for the units or for all the threads in the wait
loop. *Event queues*: `RingInv` ties tail to head + count modulo capacity and puts an
event in each occupied cell; `CallInv` gives a call under way a slot that was used. Each
ring action then maps to one step of `EventFifo` under `fifo <- Contents(q)`, with the
modular arithmetic in lemmas of its own. *Composition*: a step of `SysEvents` is a step
of a call on a queue, nothing, or the timer's store. Ports add calls that begin a push
on an id which `PortInv` keeps in the table. The timer's store does not ask whether the
queue is live, but it asks for room, and room needs a capacity, so the slot was used;
like a push it wakes one sleeper for its one event. `TimerInv` gives each of the timer's
threads, late ones included, a queue of the table and an event when it is at the push.
For `TimerServed` it adds that a timer which runs has nobody stopping it and a stop
event that is clear: its own thread can then leave neither the loop nor the wait, and a
start takes no thread that is still there. *Ticket mutex*: `MutexLine` is the inductive
invariant once the loaded words are typed; the lemmas unwrap the tickets into places 0
.. n-1 of the line, and show that a swap adds a place at its end and a release shifts
every place by one. *Reader-writer memory*: readers and writer are cardinalities of the
threads at certain places (`RwmInv`); a thread that copies either saw the writer's word
clear after it was counted or drained the readers after it swapped. *Barrier*: `Round`
is the phase, or one more while the last thread to arrive has not advanced it yet. Every
thread has notified `Round` or `Round + 1` times (`RoundsInv`), and arrived is the
number of those that are one ahead; before the reset it is everybody, and then nobody
can notify (`ArrivedInv`). So the count is complete exactly when all have arrived in one
round, and a reset never takes an arrival of the next round with it. `PhaseInv` bounds
the phase a waiter has loaded by its round; the wait of a thread in `Round + 1` which
loads the phase before the opener has advanced it is the step that breaks this, and the
one that sets `stale`. *`CellSyncQueue`*: unwrapped, the ring's window begins at `First
= next + Depth - count`. The push under way owns the newest place (`PushInv`), a pop the
place just before the window, which `count + popping < Depth` keeps from the push, and a
peek the oldest, which is `Ready` (`TakeInv`); places less than a turn apart are
different slots, so no copies meet. Under `fifo <- Window(slots, First, Ready)` a push
takes effect at its second transaction, a pop at its first. *`CellSyncLFQueue`*: the
spinlock is the number of threads between check and publish; the second look at the
count gives the holder its room or its element, and nobody else moves the ring until it
has published (`PublishInv`). A push takes effect when it publishes, a pop when it
copies; every step outside the lock is a stutter (`Quiet`). *Lightweight mutex*:
`LwmOwned` says whom the count 0 belongs to, and holds while the recursive path has let
in only threads that had the mutex; `LwmWaits`, which needs none of that, says that
waiters is the number of lockers in the slow path and that a locker whose try failed
beside a free mutex has a release still to look or to pass through the slot's lock, so
no release that sees no waiters leaves one asleep. *Event flag*: a clear or a taking
wait only shrinks the pattern, which satisfies no sleeper; a set wakes all.
*Reader-writer lock*: `RwlockInv` follows the two words through each place of a call: a
word that names a thread was written by it, under the lock it still has. *Pool*:
`PoolInv` gives each worker that is off the list and waits a dispatcher, or an event
that is set; the list holds each parked worker once. *Thread table*: neither property is
inductive. `TableInv` adds that the boot thread keeps slot 1 (`MainInv`), that a slot
with no living thread is free or finished (`HeldInv`), that a slot has at most one
joiner, who keeps it from being detached (`AimInv`), and, when exits unwind, that a
finished slot holds the last status of a thread that is past its guest code and that the
event is set on finished slots only (`StatusInv`). The delicate steps are the end of a
detached thread, which frees its own slot under the lock and still signals that slot's
event before it lets go, and the joiner's free, which comes after the thread procedure
has returned.

Only model-checked: all liveness (`WaitReturns`, `UnitsFindSleepers`,
`TimedWaitReturns`, `EventsFindReceivers`, `CancelReleases`, `MutexServed`,
`RwmWriteReturns`, `FlagWaitReturns`, `PoolJobRuns`), since fairness and ENABLED are
outside the proof system's reach, and the violations, which are counterexamples.
Every invariant and every refinement that a passing run checks is a theorem.

## Plan

Done: mutexes with conds, semaphores, event queues with ports and timers, event flags,
reader-writer locks, cellSync, the job pool, the thread table, lightweight mutexes.
Next, in this order:

1. `cellSync2`: its queue under one lock and two condition variables (no lost wake-up of
   a pusher or a popper), and its semaphore, which keeps the units it took when a later
   unit times out.
2. The queues of SPURS (`spurs_queue.c`, `spurs_lfqueue.c`), whose other side is SPU code.
3. The table that finds a lightweight mutex's slot by address.

## Not modelled

Most of the repository's lines are instruction semantics and their tests (PPU, SPU),
the RSX renderer and its back ends, loaders, codecs, fonts, audio, input, network, file
system, vendored headers and the lifter tools. They compute on data or call the host;
there is no protocol between threads in them that a model checker would reach, and the
project covers none of them. It covers the part where threads meet.

Of the parts modelled, left out are: POSIX branches; diagnostics, traces and per-title
knobs; calls that only read (`get_value`, `get`, sizes); `usleep`, `sleep` and the time
calls; thread priorities, names, stacks and interrupt threads; the older lightweight
mutex in `libs/system/sysPrxForUser.c`; the race of two creates in the table of
reader-writer locks. Guest memory is not modelled beyond the words of the objects;
results written to it are the `out`, `holds` or `es` of a thread. `PROJECT.json` gives
the reason for each part.
