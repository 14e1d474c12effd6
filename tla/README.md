# A TLA+ model of SimpleAwait

SimpleAwait (`src/src/simpleawait/`) is a header-only C++20 coroutine library for
Arduino-class boards: a cooperative scheduler over a fixed number of task slots,
timers, child awaits, three synchronisation objects, and a pool for the frames of
its coroutines.  This directory holds a TLA+ model of it, the TLC configurations that check the model on small instances,
and machine-checked proofs of all its safety properties for every size.

## 1. The system

| Part | State it keeps | Operations | Source |
|---|---|---|---|
| Scheduler | slots (state, generation, frame, parent, deadline), ready FIFO, active count, current task, `in_poll_`, `shutting_down_` | `schedule`, `poll`, `run_pass`, `acquire_slot` | `scheduler.h` |
| Timers | slot deadlines, sampled time `now_`, cached `nearest_deadline_` | `yield`, `delay`, `process_due_timers` | `scheduler.h`, `delay.h`, `detail/time_math.h` |
| Child await | slot parent links | `start_child_await`, completion in `run_pass` | `scheduler.h`, `task.h` |
| TaskHandle | slot index and generation | `valid`, `done` | `scheduler.h` |
| Teardown | `shutting_down_` | `~Scheduler` | `scheduler.h` |
| Event | latch, FIFO of parked slots | `wait`, `set`, `clear`, destructor | `event.h` |
| ThreadSafeFlag | signaled bit, one waiter, armed list, pending mark | `set` (external), `wait`, `clear`, destructor, `poll_external_signals` | `threadsafeflag.h` |
| Idle wait | wake semaphore, timeout in ticks | `poll_and_wait`, `wait_for_work`, `platform_wake_scheduler`, `platform_timeout_ticks` | `scheduler.h`, `detail/platform_idle.h` |
| Queue | ring buffer, parked senders and receivers | `send`, `receive`, `trySend`, `tryReceive`, destructor | `queue.h` |
| FramePool | arena of blocks, byte counters | `allocate`, `deallocate`, `coalesce` | `detail/frame_pool.h` |
| Task, TaskAwaiter | one frame handle each | create, move, await, drop, `reset`, hand over to the scheduler | `task.h` |
| Clock | 64-bit time, on some boards from 32 bits | `platform_now_us`, `Micros32Extender` | `detail/platform_clock.h` |

How they interact.  Everything but `ThreadSafeFlag::set()` and the clock runs on
one thread.  `loop()` calls `poll()`; `poll()` samples the clock, resolves external
signals, fires due timers and resumes, in FIFO order, the tasks that are ready at
that moment.  A resumed task runs user code that calls back into the scheduler:
it creates tasks, suspends on a timer, a child, an Event or a flag, or finishes.
The frame of a finished task is destroyed by `run_pass()`, and the destructors of
its parameters are user code again, running while the slot is half way to
completed.  `~Scheduler()` does the same with every remaining frame.  `set()` runs in
interrupts and on other cores and shares two bits with the scheduler.

What is hard: reentrancy from tasks and destructors in the middle of a pass or of
the teardown; one intrusive link per slot shared by all FIFOs; slots reused under
handles that outlive them; cached deadlines and the ends of integer ranges; signals
that race with `wait()`, with the walk over the armed flags and with the decision
to sleep; frames whose owner changes while another frame's destructor runs.  `PROJECT.json` lists these hazards at their lines, each with the
properties that would catch it.

## 2. Modules

| Module | Models |
|---|---|
| `Scheduler` | slots, ready FIFO, the stages of `poll()`, timers, child await, teardown |
| `Event` (extends `Scheduler`) | Event composed with the scheduler |
| `SlotLists` (extends `Event`) | the next, head and tail pointers behind the ready FIFO and the wait queues |
| `ThreadSafeFlag` (extends `Scheduler`) | flags, external contexts, `poll_external_signals()`, `poll_and_wait()` |
| `Queue` (extends `Scheduler`) | Queue composed with the scheduler |
| `FramePool` | the allocator of coroutine frames |
| `Task` (extends `FramePool`) | who owns a frame: Task objects, parameters, awaiters, the scheduler, `destroy()` |
| `Micros32Extender` | the 64-bit clock made from a 32-bit one |
| `Channel` | the FIFO channel that a Queue implements |
| `TombstoneOrder` (extends `Scheduler`) | history of completed slots, to ask which one is reused |
| `ForeignAwait` (extends `Scheduler`) | a foreign coroutine awaiting `yield()` or `delay()` |
| `SchedulerProofs`, `SlotProofs`, `TimerProofs` | theorems about `Scheduler`: FIFO and passes; types, frames, links, handles and teardown; timers |
| `EventProofs`, `FlagProofs`, `QueueProofs` | theorems about `Event` and `SlotLists`, `ThreadSafeFlag`, `Queue`, on top of `TimerProofs` |
| `FrameProofs`, `Micros32Proofs` | theorems about `FramePool` with `Task`, and about the clock |
| `MCScheduler`, `MCEvent`, `MCThreadSafeFlag`, `MCQueue`, `MCTask` | the instances TLC checks |

### Scheduler

Variables carry the names of the members they model.  `ready` is the intrusive list
from `ready_head_` to `ready_tail_`, and its length is `ready_count_`.  `phase` stands
for `in_poll_`, `shutting_down_` and the place inside `run_poll_pass()`: `idle` (in
`loop()`), `signals`, `timers`, `pass`, `teardown`, `gone`.  `dying` is the slot whose
frame is inside `destroy()`.  `error` is what the latest call reported to
`SIMPLEAWAIT_ON_ERROR`.  `agenda` is a history variable: what the pass found ready and
has not resumed.

| Action | Code |
|---|---|
| `ScheduleTask` | `schedule()`: success, empty Task, no slot, shutting down |
| `PollBegin`, `PollRejected` | entry of `run_poll_pass()`; reentry and shutdown |
| `FireTimer`, `TimersDone` | one selection of `process_due_timers()`; its end or fast path, and the start of `run_pass()` |
| `Resume`, `PassDone` | pop and resume; the end of the pass |
| `Yield`, `Delay`, `AwaitChild`, `AwaitRejected`, `SuspendUnregistered`, `Finish` | what the running task may do at its next suspension point |
| `Reap` | what `run_pass()` does after `destroy()` of a finished frame |
| `TeardownBegin`, `TeardownDetach`, `TeardownEnd` | `~Scheduler()`: one turn of its loop, and its end; open to user code while a frame is destroyed |
| `Tick` | the platform clock |

A task body is user code, so at each step the running task may choose any of its
actions.  User code also runs in `loop()` and in destructors (`UserCode`), and there
it may create tasks, call `poll()`, and operate on Events and flags.

Decisions worth knowing:

- The error hook is taken to return.  The default hook halts; its behaviours are
  prefixes of the modelled ones.
- `run_pass()` reads the parent before `destroy()`; the model reads it afterwards.
  The slot is not reusable until it is completed, so nothing can change it between.
- When no slot is left, the destructors of the refused child run inside
  `start_child_await()`.  They are not a step of their own: anything they may do the
  running task may do just before, and no slot can become free meanwhile.
- The loop of `~Scheduler()` goes forward once: `dying` is its cursor, `Ahead` what it
  has still to visit, and a slot that it has passed is not looked at again.  That no
  such slot gains a frame is for `TeardownReleasesFrames` to show.
- `active_count_` is not updated by `~Scheduler()`, and the model follows.
- Branches of `run_pass()` that the invariants show unreachable (a popped slot that is
  not ready, an empty FIFO inside the budget) are kept.
- `MaxGeneration` and `MaxTick` stand for `UINT32_MAX` and `UINT64_MAX`; small values
  make the ends of the ranges ordinary cases, and no other bound is imposed.
- Static destruction is assumed to start from `loop()`, not from `exit()` inside a task.

### Event

`waiters[e]` is the Event's `WaitQueue`.  `wait()` on a set Event goes on at once,
otherwise the task parks; `set()` latches and moves all waiters to the ready FIFO;
the destructor reports waiters.  Events belong to user code, so `loop()`, tasks and
destructors may use them, also during teardown.

### SlotLists

Every slot has one `next` pointer, used by whichever FIFO the slot is in.  `mem` holds
these pointers, the head and tail of each list and `ready_count_`, and each action of
`Scheduler` or `Event` is joined with what its code does to them: `ready_push()`,
`ready_pop()`, `push_back()`, `pop_front()` and the loop of `wake_all()`.  The pointers never
decide anything; `ListsSpellQueues` says that they always spell the sequences that do.
That holds without any condition on teardown, where tombstones stay linked.  The armed
list of the flags and the awaiter lists of a Queue are sequences only.

### ThreadSafeFlag and the idle wait

A critical section is one atomic step.  `set()` takes two steps per external context:
the critical section, then `platform_wake_scheduler()`.  `wait()` takes two: consume or
find nothing (`await_ready`), then park (`await_suspend`); signals may come between.
`poll_external_signals()` takes one step for the pending mark and one per armed
flag.  `poll_and_wait()` creates the semaphore, polls, samples the clock and decides
(`wait_for_work`), and blocks (`Block`) until the token or the timeout (`WakeUp`).  This is the ESP32 back end; on other boards
`poll_and_wait()` is `poll()`.  On RP2040 the critical section excludes only
interrupts of the same core, as `detail/platform_sync.h` says, and the model's
contexts are then those interrupts.

`wait_for_work()` computes the timeout as `platform_ticks_until()` does, with the split
into whole seconds and a fraction, the upward rounding and the cap at
`MaxFiniteTicks`.  `MicrosPerSecond` stands for 1000000 and `TickRate` for
`configTICK_RATE_HZ`; a FreeRTOS tick falls where the clock passes a multiple of their
quotient (`TickCount`), and every tick counts the timeout of a blocked task down
(`ClockTick`).  FreeRTOS counts ticks, so a wait of k ticks may end up to one tick
early; the loop then polls, finds nothing due and blocks again.  Ticks that fall
between the clock sample and `xSemaphoreTake()`, an interrupt or a preemption there,
do not count the timeout down, so the sleep ends that much late; the history variable
`slip` counts them.  `NoOversleep` bounds a sleep by less than a tick past the deadline
plus `slip`; without that allowance it would be false of the code.

### Queue

The ring is modelled cell by cell, with the code's index arithmetic; `NoValue` marks
raw storage, so constructing over a payload or destroying none would show.  The
nodes of parked senders and receivers live on coroutine frames.  `QueueSend` and
`QueueReceive` are the calls that succeed at once, awaited or not; `QueueSendParks` and
`QueueReceiveParks` the awaits that suspend.  A step of the scheduler that resumes a
task ends its await (`await_resume`), and one that destroys a frame unlinks its nodes
before any other destructor of that frame runs (`DropAwaiters`).

`Channel` is the promise: a sequence to which every value sent is appended and from which
the oldest is delivered.  A bit flips with each send and one with each delivery, so a send that
stored nothing, or a value delivered twice, would be no step of the channel.  Values leave it otherwise in two
ways only: `Close`, once, which is `~Queue()`, and `Withdraw` of a value behind the capacity, possible
only after `Abandon`, which is the start of `~Scheduler()`: a parked sender is destroyed with its value.  The mapping takes the ring's payloads followed by the values
that parked senders hold, so a send enters the channel when it parks, and the admission
of a sender is invisible.  A hand-off to a parked receiver is a send and a delivery in
one, possible only when the channel is empty.  Order is that of delivery to a receiver's
awaiter: a receiver that has been handed a value may run later than a task that
receives the next one.

### FramePool and Task

`blocks` maps the offset of each block's header to the header.  `FirstFit`, `Carve` and
`Free` are operators on such a map, used by `allocate` and `deallocate` and again by the
properties, which ask in every reachable state what any allocation would do.  Addresses
are bytes (`Base + offset`), so alignment is real arithmetic, and `SizeMax` is the end of
`size_t`.  `BlocksTile` counts `bytesUsed` against the bytes that allocated blocks cover.  The loop of `coalesce()` is given by its result: the headers it keeps and the
sizes they get.  A free block's `payloadOffset` is never read, so all free blocks have the
initial one.  `reset()` is the initial state; nothing else calls it outside tests.

`Task` composes the pool with the owners of frames.  A frame is known by its address,
which the pool reuses, so a stale owner would show.  `task` and `awaiter` are objects of user
code, `param` the by-value Task parameter inside a frame, `adopted` the frames that slots point to,
`dying` the stack of frames inside `destroy()`.  While a frame is dying user code runs, so
every operation remains possible until `FreeFrame`, moving from the dying frame's parameter too.

| Action | Code |
|---|---|
| `Call` | a coroutine is called: frame allocation, argument moved in; or exhaustion, an empty Task and the argument destroyed |
| `MoveAssign`, `MoveFromParam`, `reset` | move assignment, also from a Task inside a frame; destruction |
| `Schedule` | `create_task()`, `spawn()`: accepted or refused |
| `CoAwait`, `MoveAwaiter`, `AwaitEmpty`, `AwaitSuspend`, `DropAwaiter` | `operator co_await`, `TaskAwaiter` and its four ends |
| `Retire` | the scheduler destroys the frame of a finished or torn-down task; `~Scheduler()` empties the slot before, `run_pass()` after (`FreeFrame`) |
| `DestroyParam`, `FreeFrame` | inside `destroy()`: the parameter's destructor, then `operator delete` |

The slot that `run_pass()` has not emptied yet is no second owner (`Held`), but one that still points to a
freed frame would be.  When the scheduler accepts a task or retires it is module `Scheduler`'s matter; here
either may happen at any time.

### Micros32Extender

`time` is the true time and `Sample` the only caller of `extend()`; any gap up to `MaxGap` may
pass between two samples.  Two history variables record when the last sample was taken and how many
whole periods nobody saw.

## 3. What TLC checks

| Run | Instance | Shows |
|---|---|---|
| `scheduler` | 3 slots, generation up to 2, ticks 0..2, delays 0 and 1 | queue, pass, frames, links, timers, handles, teardown |
| `scheduler_live` | 2 slots, generation 2, ticks 0..2 | ready tasks run, delays end, parents resume |
| `event` | 3 slots, 2 Events | wait queues exact, links spell the FIFOs, no waiter on a set Event, wake order; parked tasks run again if the Events keep being set |
| `flag` | 2 slots, 2 flags, 1 context, clock 0..3, 2 clock units per 3 ticks, timeouts capped at 4 ticks | armed list exact, no lost signal, no sleep through a signal, timeouts rounded up and capped, no deadline overslept |
| `flag_live` | 1 slot used twice, 1 flag, 2 contexts, clock 0..3, 3 clock units per 2 ticks, timeouts capped at 1 tick | signals reach parked tasks, delays end under `poll_and_wait()` |
| `queue` | 2 slots, ring of 2, 2 values | implements the channel, ring exact, no needless wait, no dead node; parked senders and receivers run again |
| `frames` | 15 bytes with headers of 2, alignments up to 8, sizes 1, 4 and `SIZE_MAX`; 2 Task objects, 2 awaiters | blocks tile the arena, no hidden room, one owner per frame, everything recovered |
| `clock` | period 5, gaps up to 16, time up to 40 | the extended clock is exact up to lost periods and never early |
| `tombstone_order`, `event_teardown`, `foreign_await`, `flag_second_waiter` | 1 or 2 slots | disagreements between code and comments (section 6) |

Why the bounds are enough.  Three slots give a parent, its child and a bystander, or
a grandparent chain; two generations give a slot that is reused and one that is
retired; an initial clock anywhere in `Ticks` puts deadlines at and past the end of
`tick_t`, and a last tick of 2 leaves deadlines that differ from `UINT64_MAX`, which
the cached nearest deadline cannot tell from "none".
Two Events show a slot in two queues if it could be.  Two flags make the walk over
the armed list meet signals before and behind it; the two contexts of `flag_live` make
coalesced and overlapping `set()` calls.  A tick of one and a half clock units never
divides a deadline evenly, and a cap of one tick cuts waits short.  In `flag` a clock unit has
one tick or two, so timeouts of several ticks are computed, counted down and rounded, and a tick may
come between the clock sample and the block; `TimeoutsCover` asks for every span up to beyond the cap.  An arena of 15 bytes has
an unusable last byte and holds three frames of the smallest size or one large and one
small; freed in any order they leave holes, remainders too small to split, and a pool that
refuses.  Gaps of more than three periods lose none, one, two or three wraps.  A ring of two wraps with payloads on both sides of the end;
`loop()` and destructors send and receive too, so two tasks can both be parked on one
side while the other side acts; two values tell order.  Flags and contexts are
symmetric in the `flag` run, Task objects and awaiters in `frames`; slots are not, since the code prefers low indices, and
runs with liveness use no symmetry.

Deadlock is checked everywhere but in `flag` and `flag_live`: there the loop may block with no
more time to pass and no context obliged to signal, which is what the program asked
for, or the model's time is over.  For the same reason `DelaysEndAsleep` excuses a sleep that began late
and in which the model's time ran out (`TimeRunsOut`).

### Fairness

- `Poll` and the signal stage are weakly fair: `loop()` keeps calling `poll()` or
  `poll_and_wait()`, and `poll()` contains no wait.
- A resumed task reaches its next suspension point and destructors return: the
  library is cooperative and promises nothing otherwise.  With flags this needs
  strong fairness: a task may alternate for ever between steps inside `wait()` and
  outside it, which repeatedly disables the suspension.
- Time passes, and a blocked `xSemaphoreTake()` returns once its token is there or its
  timeout is over; `set()` returns.
- Nothing is assumed of external contexts calling `set()`, of Events being set
  or the Queue being
  used (`EventWaitsEnd` and `QueueWaitsEnd` have that as hypotheses), or of teardown starting.

## 4. Properties by component

- Ready FIFO: `ReadyQueueExact`, `PassIsSnapshot`, `OneRunner`, `ReadyTasksRun`.
- Frames, slots and handles: `FramesCounted`, `HandlesStayTrue`.
- Child await: `ChildLink`, `NoAwaitCycle`, `ParentsResume`.
- Timers and clock: `NoOverdueTimer`, `NearestIsReal`, `DelaysEnd`, `LagExact`, `NeverEarly`.
- Teardown: `TeardownReleasesFrames`, `DetachedIsTombstone`.
- Lists: `ListsSpellQueues`.
- Frames: `BlocksTile`, `RefusedOnlyWhenFull`, `AllocationUndone`, `PoolRecovered`,
  `SingleOwner`.
- Event: `WaitersExact`, `NoWaiterWhileSet`, `WakesInOrder`, `EventWaitsEnd`.
- Queue: `ImplementsChannel`, `CellsExact`, `NoNeedlessWait`, `ParkedExact`,
  `ReceiverHasValue`, `QueueWaitsEnd`.
- Flags and idle wait: `ArmedExact`, `NoLostSignal`, `NoSleepOnSignal`,
  `SignalsDelivered`, `TimeoutsCover`, `NoOversleep`, `DelaysEndAsleep`.

`EventTypeOK`, `FlagTypeOK` and `QueueTypeOK` are conjuncts of `WaitersExact`, `ArmedExact` and
`CellsExact`.  TLC checks the scheduler's own invariants on `Scheduler` alone.  A composition
wakes a task only with `wake_all()`, and that it does so only to parked tasks is what
`WaitersExact`, `ArmedExact` and `ParkedExact` say; from this the proofs carry the FIFO and timer
invariants over to the compositions (section 5).

Definitions whose names end in `_mut` (or another suffix after the name of the next
definition) are mutated forms of what follows them: the bug a property would catch.
No specification uses them; `PROJECT.json` pairs each property with one.

## 5. What is proved

Every safety property that a passing run checks is also a theorem, for every value of the
constants; `PROJECT.json` lists them.  What TLC shows for 2 or 3 slots the theorems show for any
number of slots, generations, ticks, Events, flags, contexts, payloads, Task objects and awaiters,
and any arena, ring capacity, tick rate and clock period.

| Module | Theorems | Inductive invariant |
|---|---|---|
| `SchedulerProofs` | `SingleRunner`, `FifoExact`, `PassesAreSnapshots` | `FifoInv` |
| `SlotProofs` | `TypeCorrect`, `FramesExact`, `ChildLinkExact`, `AwaitsAcyclic`, `TeardownComplete`, `TeardownDetaches`, `HandlesTrue` | `SlotInv` |
| `TimerProofs` | `TimersNeverOverdue`, `NearestExact` | `TimerInv` |
| `EventProofs` | `EventWaitersExact`, `EventNeverMissed`, `EventWakesInOrder`; `LinksAreExact` | `EventInv`; `ListInv` |
| `FlagProofs` | `FlagsArmedExactly`, `SignalsNeverLost`, `SleepEndsOnSignal`, `TimeoutsAlwaysCover`, `NeverOversleeps` | `FlagInv` |
| `QueueProofs` | `QueueCellsExact`, `QueueNeverWaitsNeedlessly`, `QueueReceiversServed`, `QueueListsExact`, `QueueIsChannel` | `QueueInv` |
| `FrameProofs` | `PoolTiles`, `PoolRefusesOnlyWhenFull`, `PoolUndoesAllocation`, `FramesOwnedOnce`, `PoolAlwaysRecovers` | `OwnerInv` |
| `Micros32Proofs` | `ReadingLagsExactly`, `ReadingNeverEarly` | `ClockInv` |

### Assumptions

`SchedulerAssumption`: at least one slot, natural limits, durations within the clock's range.
`FlagAssumption` and `QueueAssumption`: positive unit, tick rate, cap and capacity.
`PoolAssumption`: what the `static_assert`s and `alignas` of `FramePool` give, and that `size_t` can
count the arena; frame sizes and alignments are positive, and an alignment need not be a power
of two.  `ExtenderAssumption`: a positive period.  The rest keep markers apart from
values (`NoFlag`, `NoValue`, `NoVar`, the name of the ready list).  TLC evaluates all of them.

### Scheduler

`FifoInv` is `Typed` (`TypeOK` but for the range of `active_count_`), `OneRunner`, `ReadyQueueExact` and `PassIsSnapshot` together; none of the last
three is inductive alone.  A push keeps the FIFO injective only if the pushed slot is not
queued.  For a yield that is because the current task is `running`, which is
`OneRunner`; for an acquired slot, a fired timer and a woken parent because their state is not
`ready`, which is `ReadyQueueExact` itself.  A pop keeps the snapshot only if the FIFO still holds
all of it.  `PushFifo`, `PopFifo` and `PopSnapshot` say what a push and a pop do to an injective sequence
and to its prefix, and there is one lemma per action.

`SlotInv` adds the frames and links.  `FramesCounted` and `ChildLink` end with the start of `~Scheduler()`,
so facts that survive it are added: `FramesAreLive` and `SweptSlotsEmpty`, that no slot behind the loop of
`~Scheduler()` owns a frame, from which its end follows; `CountInRange`, the range of `active_count_`, which is
a count of slots until then and is not touched any more; and `TeardownIsIdle`.  `NoAwaitCycle` speaks of sets of slots, so it needs no induction on chains: the
child of a new await has just been made ready, so a set that contains it has a member that
waits for nobody, and for any other set nothing has changed.  `HandlesStayTrue` is an action property and follows from the same invariant.

`TimerInv` needs, besides the two properties, what holds while `process_due_timers()` is half
way: the cached deadline is then a lower bound only (`NearestCovers`).

### Compositions

A composition extends the scheduler's steps by parking and waking.  The second half of
`TimerProofs` shows that these keep `TimerInv` if the parked task is the running one and the woken
tasks are parked, and that is what `WaitersExact`, `ArmedExact` and `ParkedExact` provide: each composition's
invariant contains `TimerInv`, so the FIFO and timer properties hold there too.

`FlagInv` adds `CallState` (where the thread is inside `wait()`, the walk over the armed flags
and `poll_and_wait()`) and `WakeComing`: from the first critical section of a `poll()` made by
`poll_and_wait()` on, a signal which that walk will not find has left a token or is about to.  `NoSleepOnSignal`
is the case in which the thread is asleep.  `NeverOversleeps` holds from the clock sample on, since every later tick either shortens the timeout or is
counted in `slip`.  The timeout lemmas are arithmetic with
division: the sum of whole seconds and a rounded fraction is the rounded-up number of
ticks.

`QueueInv` adds `ListsExact`, `ReceivingExact` and `ThreadState`, which tie the nodes on frames to the
states of their slots.  For the refinement, `PutsValue`, `TakesValue` and `WithdrawsSender` work out what storing, popping and
destroying a parked sender's frame do to `Contents`, through the ring's index arithmetic (`RingIndex`,
`RingNext`); `DroppedInTeardown` shows that a parked
sender is destroyed by `~Scheduler()` only, since no other step of the scheduler ends the wait of a
parked task.  `QueueRefinesStep` then maps each action to a step of the channel or a stutter.

### Links

`LinksAreExact` is the one statement about pointers.  `ListInv` says of all lists at once that no slot
stands in them twice, also during `~Scheduler()` when states no longer tell, and that `mem` spells
them.  `PushSpells` and `PopSpells` are about arbitrary lists; a slot shared by two lists would break
them.  `WakeListIs` unfolds the loop of `wake_all()`, a recursive function, and `WakeListSpells` follows its iterations.
Both argue by the least iteration that goes wrong (`LeastCounter`), since induction is not available to
the provers.  The loop's bound of `MaxTasks` iterations suffices because a list without repetitions has no
more members (`ListBound`).

### Frames

`Shape` says that the blocks tile the arena and are aligned, `Coalesced` that no two free blocks are
neighbours, without which a refusal could overlook room.  Both are statements about any map of
blocks, so `CarvedShape` and `MergedShape` serve the two operations and the allocations that `AllocationUndone`
supposes alike; `RoomIsFound` gives the completeness of first fit.
`OwnerInv` adds that each address is held by at most one place (`OwnedOnce`) and by one exactly if it is
allocated, and that only allocated frames have parameters, since `FreeFrame` must not leave an
owner behind.  Every action either leaves the places of an address alone or
moves it from one place to another (`Stays`, `Moves`); `HeldKept` and `HeldAdopted` say what that does to the
slots.

### What stays with TLC

Liveness (`ReadyTasksRun`, `DelaysEnd`, `ParentsResume`, `EventWaitsEnd`, `SignalsDelivered`, `DelaysEndAsleep`,
`QueueWaitsEnd`), since fairness and `ENABLED` are beyond the prover, and the counterexamples of section 6.
`TeardownDetaches` is about the scheduler alone; with Events the same property fails, as section 6 says.

## 6. Disagreements between the code and what it says

- `tombstone_order`: `acquire_slot()` reuses the completed slot of lowest index; its
  comment says the oldest.
- `event_teardown`: the comment in `~Scheduler()` says a detached slot cannot be seen
  as still linked.  It stays in its Event's wait queue, so a destructor that sets that
  Event makes the tombstone ready, and its handle is no longer done.
- `foreign_await`: `yield()` and `delay()` do not check who awaits, unlike the other
  awaitables.  A foreign coroutine that awaits one inside the running task queues the
  running task, which can then be queued twice through one link.
- `flag_second_waiter`: a second task may take the signal meant for a parked one
  without the promised `multiple_flag_waiters` report.

## 7. Not modelled, and the plan

Not modelled:

- diagnostics: `stats()` only reads; the counters kept for it alone (`peak_count_`,
  `peakBytesUsed_`, `allocationFailures_`) are left out;
- the back ends of `CriticalSection`, which are SDK calls: the model takes a critical
  section to exclude every context, which is what each back end must provide;
- `waitUntil()` has no action of its own: it is a task that yields until user code
  says otherwise;
- awaiting one extracted `TaskAwaiter` twice, which no `co_await` expression does;
- C++ exceptions thrown by a payload's constructor;
- `force_slot_generation` (test seam), version and umbrella headers, configuration
  macros, hardware sketches under `extras/`, examples and tests.

What is left to prove: that the compositions keep `SlotInv` as well, of which they
now inherit only the FIFO and timer part.  Everything else that is not proved is liveness.
