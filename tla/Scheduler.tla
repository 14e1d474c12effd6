------------------------------ MODULE Scheduler ------------------------------
(***************************************************************************)
(* The cooperative scheduler of SimpleAwait (src/src/simpleawait/          *)
(* scheduler.h): fixed task slots with generations, the FIFO of ready      *)
(* slots, the bounded poll() pass, timers, child await, and teardown.      *)
(*                                                                         *)
(* One thread runs everything here except the clock: the Arduino loop      *)
(* calls poll(), poll() resumes a task, the task's body calls back into    *)
(* the scheduler.  A coroutine body is user code, so the running task may  *)
(* do anything the API allows.  Names ending in _mut are mutated forms of  *)
(* the definition that follows them; no specification uses them.           *)
(***************************************************************************)
EXTENDS Integers, Sequences, FiniteSets, Functions

CONSTANTS
  MaxTasks,      \* SIMPLEAWAIT_MAX_TASKS: number of slots
  MaxGeneration, \* kMaxGeneration, UINT32_MAX in the code
  MaxTick,       \* UINT64_MAX of tick_t: largest time and "no deadline"
  Durations      \* the durations tasks pass to delay_us()

ASSUME SchedulerAssumption ==
  /\ MaxTasks \in Nat \ {0}
  /\ MaxGeneration \in Nat
  /\ MaxTick \in Nat
  /\ Durations \subseteq 0..MaxTick

Slots == 0..(MaxTasks - 1)
Ticks == 0..MaxTick
NoSlot == -1              \* the null Slot*

\* enum class State
LiveStates == {"ready", "running", "waiting_timer", "waiting_child",
               "waiting_local", "suspended"}
States == LiveStates \union {"free", "completed"}

Errors == {"none", "task_limit", "scheduler_reentry", "invalid_task",
           "task_awaited_twice", "deadline_overflow", "unhandled_exception",
           "multiple_flag_waiters", "object_destroyed_with_waiters"}

\* Where the thread is: in loop(), in one of the three stages of poll(), in
\* ~Scheduler(), or past it.
Phases == {"idle", "signals", "timers", "pass", "teardown", "gone"}

VARIABLES
  state,            \* Slot::state
  generation,       \* Slot::generation
  handle,           \* Slot::handle: does the slot own a coroutine frame?
  parent,           \* Slot::parent
  deadline_us,      \* Slot::deadline_us
  ready,            \* ready_head_ .. ready_tail_; its length is ready_count_
  active_count,     \* active_count_
  current,          \* current_
  phase,            \* in_poll_ and shutting_down_, with the stage of poll()
  dying,            \* slot whose frame is inside handle.destroy(); in ~Scheduler()
                    \* also how far its loop over the slots has come
  budget,           \* iterations left of the loop in run_pass()
  now,              \* now_
  nearest_deadline, \* nearest_deadline_
  clock,            \* the platform clock
  error,            \* what the latest library call reported to the error hook
  agenda            \* history: what run_pass() found ready and has not resumed

slotVars == <<state, generation, handle, parent, deadline_us>>
timeVars == <<now, nearest_deadline, clock>>
vars == <<slotVars, ready, active_count, current, phase, dying, budget,
          timeVars, error, agenda>>

\* All but the latest report to the error hook.
restVars == <<slotVars, ready, active_count, current, phase, dying, budget,
              timeVars, agenda>>

in_poll == phase \in {"signals", "timers", "pass"}
shutting_down_mut == phase = "gone"
shutting_down == phase \in {"teardown", "gone"}

\* User code runs in loop(), in the resumed task, and in the destructors of
\* the by-value parameters of a frame that is being destroyed.
UserCode == phase = "idle" \/ current # NoSlot \/ dying # NoSlot

Init ==
  /\ state = [s \in Slots |-> "free"]
  /\ generation = [s \in Slots |-> 0]
  /\ handle = [s \in Slots |-> FALSE]
  /\ parent = [s \in Slots |-> NoSlot]
  /\ deadline_us = [s \in Slots |-> 0]
  /\ ready = << >>
  /\ active_count = 0
  /\ current = NoSlot
  /\ phase = "idle"
  /\ dying = NoSlot
  /\ budget = 0
  /\ now = 0
  /\ nearest_deadline = MaxTick
  /\ clock \in Ticks
  /\ error = "none"
  /\ agenda = << >>

-----------------------------------------------------------------------------
(* Slots and the ready FIFO.                                               *)

\* Slots acquire_slot() may hand out among those in state st.
Reusable_mut(st) == {s \in Slots : state[s] = st}
Reusable(st) == {s \in Slots : state[s] = st /\ generation[s] # MaxGeneration}

First(S, s) == s \in S /\ \A t \in S : s <= t

\* acquire_slot() returns s: the first free slot, else the first completed one.
acquire_slot(s) ==
  \/ First(Reusable("free"), s)
  \/ Reusable("free") = {} /\ First(Reusable("completed"), s)

NoSlotLeft == \A s \in Slots : ~acquire_slot(s)

\* The FIFO after ready_push(s).
ready_push_mut(s) == <<s>> \o ready
ready_push(s) == Append(ready, s)

\* acquire_slot() gives each use of a slot its own generation.
NextGeneration_mut(s) == UNCHANGED generation
NextGeneration(s) == generation' = [generation EXCEPT ![s] = @ + 1]

\* A frame moves into the acquired slot s, with awaiting parent p.
Occupy(s, p) ==
  /\ NextGeneration(s)
  /\ handle' = [handle EXCEPT ![s] = TRUE]
  /\ parent' = [parent EXCEPT ![s] = p]
  /\ ready' = ready_push(s)
  /\ active_count' = active_count + 1

\* TaskHandle::valid() and TaskHandle::done() for the id <<s, g>>.
handle_valid(s, g) == generation[s] = g /\ state[s] # "free"
handle_done(s, g) == generation[s] = g /\ state[s] = "completed"

\* create_task() and spawn(), from any user code.  The Task is empty when it
\* was moved from or when the frame pool had no room for its frame.  Every
\* refusal leaves the Task with its caller.
ScheduleTask ==
  /\ UserCode
  /\ \/ /\ ~shutting_down
        /\ \E s \in Slots :
             /\ acquire_slot(s)
             /\ Occupy(s, NoSlot)
             /\ state' = [state EXCEPT ![s] = "ready"]
        /\ error' = "none"
     \/ /\ \/ ~shutting_down /\ error' = "invalid_task"
           \/ ~shutting_down /\ NoSlotLeft /\ error' = "task_limit"
           \/ shutting_down /\ error' = "none"
        /\ UNCHANGED <<state, generation, handle, parent, ready, active_count>>
  /\ UNCHANGED <<deadline_us, current, phase, dying, budget, timeVars, agenda>>

-----------------------------------------------------------------------------
(* poll(): sample the clock, resolve external signals, fire due timers,    *)
(* then resume the tasks that are ready now.                               *)

\* poll() called by loop().
PollBegin ==
  /\ phase = "idle"
  /\ phase' = "signals"
  /\ now' = clock
  /\ error' = "none"
  /\ UNCHANGED <<slotVars, ready, active_count, current, dying, budget,
                 nearest_deadline, clock, agenda>>

\* poll() called by user code that poll() or ~Scheduler() is running.
PollRejected ==
  /\ phase # "idle"
  /\ UserCode
  /\ error' = IF shutting_down THEN "none" ELSE "scheduler_reentry"
  /\ UNCHANGED restVars

\* poll_external_signals() when no external signal is pending.
NoExternalSignals ==
  /\ phase = "signals"
  /\ phase' = "timers"
  /\ error' = "none"
  /\ UNCHANGED <<slotVars, ready, active_count, current, dying, budget,
                 timeVars, agenda>>

Waiting == {s \in Slots : state[s] = "waiting_timer"}
Due_mut == {s \in Waiting : deadline_us[s] < now}
Due == {s \in Waiting : deadline_us[s] <= now}

\* The slot the selection loop of process_due_timers() ends on: the earliest
\* deadline, and the lowest slot among equals.
Soonest(s) ==
  /\ s \in Due
  /\ \A t \in Due : \/ deadline_us[s] < deadline_us[t]
                    \/ deadline_us[s] = deadline_us[t] /\ s <= t

\* d is the least deadline, or "none" when no task waits on a timer.
IsNearest(d) ==
  /\ \A s \in Waiting : d <= deadline_us[s]
  /\ d = MaxTick \/ \E s \in Waiting : d = deadline_us[s]

recompute_nearest_deadline_mut == UNCHANGED nearest_deadline
recompute_nearest_deadline ==
  nearest_deadline' \in {d \in Ticks : IsNearest(d)}

\* run_pass() starts: its budget is the length of the ready FIFO.
StartPass ==
  /\ phase' = "pass"
  /\ budget' = Len(ready)
  /\ agenda' = ready

FireTimer ==
  /\ phase = "timers"
  /\ now >= nearest_deadline
  /\ \E s \in Slots :
       /\ Soonest(s)
       /\ state' = [state EXCEPT ![s] = "ready"]
       /\ ready' = ready_push(s)
  /\ error' = "none"
  /\ UNCHANGED <<generation, handle, parent, deadline_us, active_count, current,
                 phase, dying, budget, timeVars, agenda>>

TimersDone ==
  /\ phase = "timers"
  /\ \/ now < nearest_deadline /\ UNCHANGED nearest_deadline
     \/ /\ now >= nearest_deadline
        /\ Due = {}
        /\ recompute_nearest_deadline
  /\ StartPass
  /\ error' = "none"
  /\ UNCHANGED <<slotVars, ready, active_count, current, dying, now, clock>>

-----------------------------------------------------------------------------
(* run_pass(): resume the head of the FIFO, let it run until it suspends   *)
(* or finishes, and account for the result.                                *)

Resume ==
  /\ phase = "pass"
  /\ current = NoSlot
  /\ dying = NoSlot
  /\ budget > 0
  /\ ready # << >>
  /\ LET s == Head(ready) IN
       IF state[s] = "ready"
       THEN state' = [state EXCEPT ![s] = "running"] /\ current' = s
       ELSE UNCHANGED <<state, current>>
  /\ ready' = Tail(ready)
  /\ budget' = budget - 1
  /\ agenda' = SubSeq(agenda, 2, Len(agenda))
  /\ error' = "none"
  /\ UNCHANGED <<generation, handle, parent, deadline_us, active_count, phase,
                 dying, timeVars>>

PassDone ==
  /\ phase = "pass"
  /\ current = NoSlot
  /\ dying = NoSlot
  /\ budget = 0 \/ ready = << >>
  /\ phase' = "idle"
  /\ budget' = 0
  /\ agenda' = << >>
  /\ error' = "none"
  /\ UNCHANGED <<slotVars, ready, active_count, current, dying, timeVars>>

\* The running task is at a suspension point: control returns to run_pass().
Suspends_mut ==
  /\ current # NoSlot
  /\ UNCHANGED <<current, phase, dying, budget, agenda>>
Suspends ==
  /\ current # NoSlot
  /\ current' = NoSlot
  /\ UNCHANGED <<phase, dying, budget, agenda>>

\* yield_current()
Requeue_mut ==
  /\ state' = [state EXCEPT ![current] = "ready"]
  /\ UNCHANGED ready
Requeue ==
  /\ state' = [state EXCEPT ![current] = "ready"]
  /\ ready' = ready_push(current)

\* co_await yield()
Yield ==
  /\ Suspends
  /\ Requeue
  /\ error' = "none"
  /\ UNCHANGED <<generation, handle, parent, deadline_us, active_count, timeVars>>

\* add_overflows(now_, d)
add_overflows(d) == d > MaxTick - now

\* arm_current_timer(d) once the deadline is known to fit.
ArmTimer_mut(d) ==
  /\ deadline_us' = [deadline_us EXCEPT ![current] = now + d]
  /\ state' = [state EXCEPT ![current] = "waiting_timer"]
  /\ UNCHANGED nearest_deadline
ArmTimer(d) ==
  /\ deadline_us' = [deadline_us EXCEPT ![current] = now + d]
  /\ state' = [state EXCEPT ![current] = "waiting_timer"]
  /\ nearest_deadline' = IF now + d < nearest_deadline THEN now + d
                                                       ELSE nearest_deadline

\* co_await delay_us(d)
Delay(d) ==
  /\ Suspends
  /\ \/ /\ d # 0
        /\ ~add_overflows(d)
        /\ ArmTimer(d)
        /\ error' = "none"
        /\ UNCHANGED ready
     \/ /\ d = 0 \/ add_overflows(d)
        /\ Requeue
        /\ error' = IF d = 0 THEN "none" ELSE "deadline_overflow"
        /\ UNCHANGED <<deadline_us, nearest_deadline>>
  /\ UNCHANGED <<generation, handle, parent, active_count, now, clock>>

\* start_child_await() with a free slot: the child is queued, the parent waits.
AdoptChild_mut(s) ==
  /\ acquire_slot(s)
  /\ Occupy(s, s)
  /\ state' = [state EXCEPT ![s] = "ready", ![current] = "waiting_child"]
AdoptChild(s) ==
  /\ acquire_slot(s)
  /\ Occupy(s, current)
  /\ state' = [state EXCEPT ![s] = "ready", ![current] = "waiting_child"]

\* co_await of a Task that owns a frame, by the running task.  Without a slot
\* the child's frame is destroyed and the parent requeued.
AwaitChild ==
  /\ Suspends
  /\ state[current] = "running"
  /\ \/ /\ \E s \in Slots : AdoptChild(s)
        /\ error' = "none"
     \/ /\ NoSlotLeft
        /\ Requeue
        /\ error' = "task_limit"
        /\ UNCHANGED <<generation, handle, parent, active_count>>
  /\ UNCHANGED <<deadline_us, timeVars>>

\* Awaits that report an error and do not suspend: an empty Task
\* (task_awaited_twice), or a foreign coroutine nested in the running task
\* awaiting a child, an Event, a flag or a Queue (invalid_task).  One awaiting
\* yield() or delay() is not rejected: see module ForeignAwait.
AwaitRejected ==
  /\ current # NoSlot
  /\ error' \in {"task_awaited_twice", "invalid_task"}
  /\ UNCHANGED restVars

\* The task suspends on an awaitable that registers no wake source.
SuspendUnregistered ==
  /\ Suspends
  /\ state[current] = "running"
  /\ state' = [state EXCEPT ![current] = "suspended"]
  /\ error' = "none"
  /\ UNCHANGED <<generation, handle, parent, deadline_us, ready, active_count,
                 timeVars>>

\* The coroutine returns, or an exception leaves it, and it reaches its final
\* suspension point; handle.destroy() starts.  Until Reap the destructors of the
\* frame's parameters run.
Finish ==
  /\ current # NoSlot
  /\ dying' = current
  /\ current' = NoSlot
  /\ error' \in {"none", "unhandled_exception"}
  /\ UNCHANGED <<slotVars, ready, active_count, phase, budget, timeVars, agenda>>

\* The slot lets go of its destroyed frame.
Release_mut == UNCHANGED <<handle, parent, active_count>>
Release ==
  /\ handle' = [handle EXCEPT ![dying] = FALSE]
  /\ parent' = [parent EXCEPT ![dying] = NoSlot]
  /\ active_count' = active_count - 1

\* The slot becomes a tombstone; a parent that waits is queued for a later pass.
Complete_mut ==
  /\ state' = [state EXCEPT ![dying] = "completed"]
  /\ UNCHANGED ready
Complete ==
  LET p == parent[dying]
      waits == p # NoSlot /\ state[p] = "waiting_child" IN
  \/ /\ waits
     /\ state' = [state EXCEPT ![dying] = "completed", ![p] = "ready"]
     /\ ready' = ready_push(p)
  \/ /\ ~waits
     /\ state' = [state EXCEPT ![dying] = "completed"]
     /\ UNCHANGED ready

\* handle.destroy() has returned.
Reap ==
  /\ phase = "pass"
  /\ dying # NoSlot
  /\ Release
  /\ Complete
  /\ dying' = NoSlot
  /\ error' = "none"
  /\ UNCHANGED <<generation, deadline_us, current, phase, budget, timeVars, agenda>>

-----------------------------------------------------------------------------
(* Parking on a wait queue and waking from it, for Event, ThreadSafeFlag   *)
(* and Queue.                                                              *)

\* wait_on() and park_running(): the running task is parked.
Park ==
  /\ Suspends
  /\ state[current] = "running"
  /\ state' = [state EXCEPT ![current] = "waiting_local"]
  /\ error' = "none"
  /\ UNCHANGED <<generation, handle, parent, deadline_us, ready, active_count,
                 timeVars>>

\* All that waking tasks leaves alone.
sleepVars == <<generation, handle, parent, deadline_us, active_count, current,
               phase, dying, budget, timeVars, agenda>>

\* wake_all(q), and wake_slot(s) with q = <<s>>.
wake_all_mut(q) ==
  /\ ready' = ready \o q
  /\ UNCHANGED state
wake_all_lifo(q) ==
  /\ state' = [s \in Slots |-> IF s \in Range(q) THEN "ready" ELSE state[s]]
  /\ ready' = ready \o [i \in DOMAIN q |-> q[Len(q) + 1 - i]]
wake_all(q) ==
  /\ state' = [s \in Slots |-> IF s \in Range(q) THEN "ready" ELSE state[s]]
  /\ ready' = ready \o q

-----------------------------------------------------------------------------
(* ~Scheduler(), after main() returns: one loop over the slots in order,   *)
(* which detaches each owned frame from its slot and destroys it.          *)

TeardownBegin ==
  /\ phase = "idle"
  /\ phase' = "teardown"
  /\ error' = "none"
  /\ UNCHANGED <<slotVars, ready, active_count, current, dying, budget, timeVars,
                 agenda>>

Owned == {s \in Slots : handle[s] /\ state[s] # "completed"}

\* What the loop has still to visit: it never turns back to a slot it has passed.
Ahead == {s \in Owned : s > dying}

\* A slot is detached from its frame before the frame is destroyed.
Detach_mut(s) == state' = [state EXCEPT ![s] = "completed"] /\ UNCHANGED handle
Detach(s) ==
  /\ handle' = [handle EXCEPT ![s] = FALSE]
  /\ state' = [state EXCEPT ![s] = "completed"]

\* The destroy() of the slot before has returned, if there was one.
TeardownDetach ==
  /\ phase = "teardown"
  /\ \E s \in Slots :
       /\ First(Ahead, s)
       /\ Detach(s)
       /\ dying' = s
  /\ error' = "none"
  /\ UNCHANGED <<generation, parent, deadline_us, ready, active_count, current,
                 phase, budget, timeVars, agenda>>

TeardownEnd ==
  /\ phase = "teardown"
  /\ Ahead = {}
  /\ phase' = "gone"
  /\ dying' = NoSlot
  /\ error' = "none"
  /\ UNCHANGED <<slotVars, ready, active_count, current, budget, timeVars, agenda>>

\* The platform clock advances at any moment.
Tick ==
  /\ clock < MaxTick
  /\ clock' = clock + 1
  /\ UNCHANGED <<slotVars, ready, active_count, current, phase, dying, budget,
                 now, nearest_deadline, error, agenda>>

\* The process has exited.
Exited == phase = "gone" /\ UNCHANGED vars

-----------------------------------------------------------------------------

\* The running task gives up the processor.
TaskSuspends ==
  \/ Yield
  \/ \E d \in Durations : Delay(d)
  \/ AwaitChild
  \/ SuspendUnregistered
  \/ Finish

Poll == PollBegin \/ FireTimer \/ TimersDone \/ Resume \/ PassDone \/ Reap
Teardown == TeardownDetach \/ TeardownEnd

\* Everything but the resolution of external signals.
CoreNext ==
  \/ ScheduleTask
  \/ PollRejected
  \/ Poll
  \/ TaskSuspends
  \/ AwaitRejected
  \/ TeardownBegin
  \/ Teardown
  \/ Tick
  \/ Exited

Next == NoExternalSignals \/ CoreNext

Spec == Init /\ [][Next]_vars

\* loop() keeps calling poll(), every resumed task reaches a suspension point,
\* destructors return, and time passes.
Fairness ==
  /\ WF_vars(NoExternalSignals)
  /\ WF_vars(Poll)
  /\ WF_vars(TaskSuspends)
  /\ WF_vars(Teardown)
  /\ WF_vars(Tick)

FairSpec == Spec /\ Fairness

-----------------------------------------------------------------------------
(* Properties.                                                             *)

\* The values of the variables, but for what active_count counts.
Typed ==
  /\ state \in [Slots -> States]
  /\ generation \in [Slots -> 0..MaxGeneration]
  /\ handle \in [Slots -> BOOLEAN]
  /\ parent \in [Slots -> Slots \union {NoSlot}]
  /\ deadline_us \in [Slots -> Ticks]
  /\ ready \in Seq(Slots)
  /\ active_count \in Int
  /\ current \in Slots \union {NoSlot}
  /\ phase \in Phases
  /\ dying \in Slots \union {NoSlot}
  /\ budget \in Nat
  /\ now \in Ticks
  /\ nearest_deadline \in Ticks
  /\ clock \in Ticks
  /\ error \in Errors
  /\ agenda \in Seq(Slots)

\* Every variable of the scheduler stays in the range of its C++ type, and the
\* unsigned active_count_ between 0 and the number of slots; in particular
\* acquire_slot() never takes a generation past kMaxGeneration and a deadline
\* never leaves tick_t.
TypeOK == Typed /\ active_count \in 0..MaxTasks

\* The ready FIFO holds each task in state ready exactly once and nothing else,
\* whichever of schedule(), yield, timers, child completion or a rejected child
\* await queued it: no task is lost and the intrusive next link is never used
\* twice.  (~Scheduler() abandons the FIFO.)
ReadyQueueExact ==
  ~shutting_down =>
    /\ IsInjective(ready)
    /\ \A s \in Slots : state[s] = "ready" <=> s \in Range(ready)

\* run_pass() resumes exactly the tasks that were ready when it started, each
\* once and in FIFO order: what it has still to pop, the first budget entries
\* of the FIFO, is what remains of that snapshot, whatever the resumed tasks
\* queued meanwhile.
PassIsSnapshot ==
  phase = "pass" => /\ budget <= Len(ready)
                    /\ agenda = SubSeq(ready, 1, budget)

\* At most one task runs, it is the one run_pass() resumed or is destroying,
\* and it does so only inside poll().
OneRunner ==
  ~shutting_down =>
    /\ \A s \in Slots : state[s] = "running" <=> s \in {current, dying}
    /\ current # NoSlot \/ dying # NoSlot => phase = "pass"
    /\ current = NoSlot \/ dying = NoSlot

\* A slot owns a frame exactly while its task is live, and active_count counts
\* those slots, so hasPendingTasks() is exact and no frame outlives its task.
FramesCounted ==
  ~shutting_down =>
    /\ \A s \in Slots : handle[s] <=> state[s] \in LiveStates
    /\ active_count = Cardinality({s \in Slots : handle[s]})

\* A task is in waiting_child exactly while one live child names it as parent:
\* a parent can be neither forgotten by its child nor woken by a stale one,
\* although slots are reused.
ChildLink ==
  ~shutting_down =>
    /\ \A c \in Slots : parent[c] # NoSlot =>
         handle[c] /\ state[parent[c]] = "waiting_child"
    /\ \A p \in Slots : state[p] = "waiting_child" =>
         \E c \in Slots : parent[c] = p
    /\ \A c, d \in Slots : parent[c] = parent[d] /\ parent[c] # NoSlot => c = d

\* Child awaits never form a cycle: in no set of tasks does each one wait for a
\* child in the set, so co_await alone cannot deadlock tasks.
NoAwaitCycle ==
  \A S \in SUBSET Slots :
    S # {} => \E p \in S : ~(state[p] = "waiting_child" /\
                             \E c \in S : parent[c] = p)

\* Once process_due_timers() is over no timer of the pass's sampled time is
\* overdue: the cached nearest deadline never hides one, and a deadline armed
\* during the pass lies in the future.
NoOverdueTimer ==
  phase \in {"pass", "idle"} =>
    \A s \in Waiting : deadline_us[s] > now /\ nearest_deadline <= deadline_us[s]

\* The cached deadline is a real one: poll_and_wait() is never told to sleep
\* until a deadline that no task waits for.
NearestIsReal ==
  ~shutting_down /\ phase # "timers" => IsNearest(nearest_deadline)

\* A TaskHandle never comes to denote another task: once done() holds for an id
\* it holds until the slot is reused, after which valid() is false for ever
\* since generations only grow.
HandlesStayTrue ==
  [][\A s \in Slots :
       /\ generation'[s] >= generation[s]
       /\ generation'[s] # generation[s] => ~handle[s]
       /\ \A g \in 0..MaxGeneration :
            handle_done(s, g) => handle_done(s, g)' \/ ~handle_valid(s, g)']_vars

\* When ~Scheduler() has returned no slot owns a frame, although its one loop
\* never returns to a slot it has passed: the destructors it runs cannot put a
\* task into a slot behind it, since schedule() is refused from then on.
TeardownReleasesFrames == phase = "gone" => \A s \in Slots : ~handle[s]

\* While ~Scheduler() destroys a frame its slot is a detached tombstone: it owns
\* no frame and the task's handle is done, although the destructors call
\* create_task() and poll().  (A destructor that sets an Event can break this:
\* see the run event_teardown.)
DetachedIsTombstone ==
  phase = "teardown" /\ dying # NoSlot =>
    ~handle[dying] /\ state[dying] = "completed"

\* Every ready task is eventually resumed by poll(), however many tasks keep
\* yielding or being created.
ReadyTasksRun ==
  \A s \in Slots : state[s] = "ready" ~> state[s] = "running" \/ shutting_down

\* Every delay ends: a task waiting on a timer eventually runs again.
DelaysEnd ==
  \A s \in Slots :
    state[s] = "waiting_timer" ~> state[s] = "running" \/ shutting_down

\* A parent whose awaited child has finished is eventually resumed.
ParentsResume ==
  \A p, c \in Slots :
    dying = c /\ parent[c] = p ~> state[p] = "running" \/ shutting_down
==============================================================================
