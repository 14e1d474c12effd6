---------------------------- MODULE ThreadSafeFlag ---------------------------
(***************************************************************************)
(* ThreadSafeFlag (src/src/simpleawait/threadsafeflag.h), the resolution   *)
(* of external signals by poll(), and poll_and_wait() with the ESP32 idle  *)
(* wait (detail/platform_idle.h), composed with the scheduler.             *)
(*                                                                         *)
(* set() runs in external contexts (interrupts, other cores) that          *)
(* interleave with every step of the scheduler; the critical sections of   *)
(* detail/platform_sync.h are the atomic steps.  Everything else is        *)
(* scheduler context.                                                      *)
(***************************************************************************)
EXTENDS Scheduler, SequencesExt

CONSTANTS
  Flags,     \* the ThreadSafeFlag objects of the program
  Contexts,  \* the external contexts that call set()
  NoFlag,    \* the null ThreadSafeFlag*
  MicrosPerSecond, \* 1000000: microseconds, the unit of tick_t, per second
  TickRate,        \* configTICK_RATE_HZ: FreeRTOS ticks per second
  MaxFiniteTicks   \* portMAX_DELAY - 1

ASSUME FlagAssumption ==
  /\ NoFlag \notin Flags
  /\ {MicrosPerSecond, TickRate, MaxFiniteTicks} \subseteq Nat \ {0}

VARIABLES
  signaled,  \* ThreadSafeFlag::signaled_
  waiter,    \* ThreadSafeFlag::waiter_
  live,      \* the flag has not been destroyed
  armed,     \* s_armed_head_ and the armed_next_ links behind it
  pending,   \* s_pending_
  walk,      \* flags the loop of poll_external_signals() has yet to visit
  checked,   \* flag for whose wait() await_ready() has just returned false
  set_pc,    \* "wake": the context has left the critical section of set() and
             \* is about to call platform_wake_scheduler()
  wake_ready, \* scheduler_wake has been created
  token,     \* the binary semaphore scheduler_wake is available
  loop,      \* "poll" or, in poll_and_wait(): "pass", "sampled" once the timeout is
             \* computed, and "asleep" inside xSemaphoreTake()
  timeout,   \* ticks after which xSemaphoreTake() gives up
  slip       \* history: tick interrupts between the sample of the clock that the
             \* timeout is computed from and xSemaphoreTake()

flagObjects == <<signaled, waiter, live, armed, pending, walk, checked>>
waitVars == <<wake_ready, token, loop, timeout, slip>>
flagVars == <<flagObjects, set_pc, waitVars>>
fvars == <<vars, flagVars>>

FlagInit ==
  /\ Init
  /\ signaled = [f \in Flags |-> FALSE]
  /\ waiter = [f \in Flags |-> NoSlot]
  /\ live = [f \in Flags |-> TRUE]
  /\ armed = << >>
  /\ pending = FALSE
  /\ walk = << >>
  /\ checked = NoFlag
  /\ set_pc = [c \in Contexts |-> "idle"]
  /\ wake_ready = FALSE
  /\ token = FALSE
  /\ loop = "poll"
  /\ timeout = 0
  /\ slip = 0

\* The scheduler thread is inside a library call of several steps: the idle part
\* of poll_and_wait(), or wait() between await_ready() and await_suspend().
InWait == phase = "idle" /\ loop # "poll"
InCall == InWait \/ checked # NoFlag

-----------------------------------------------------------------------------
(* set(), from any external context, in two steps.                         *)

\* set() marks the scheduler externally pending.
MarkPending_mut(f) == pending' = (pending \/ waiter[f] # NoSlot)
MarkPending(f) == pending' = TRUE

\* The critical section of set().
Set(c, f) ==
  /\ live[f]
  /\ set_pc[c] = "idle"
  /\ signaled' = [signaled EXCEPT ![f] = TRUE]
  /\ MarkPending(f)
  /\ set_pc' = [set_pc EXCEPT ![c] = IF signaled[f] THEN "idle" ELSE "wake"]
  /\ UNCHANGED <<vars, waiter, live, armed, walk, checked, waitVars>>

\* The binary semaphore is given, once it exists.
GiveToken_mut == token' = (token \/ loop = "asleep")
GiveToken == token' = (token \/ wake_ready)

\* set() calls platform_wake_scheduler() if it raised the signal.
platform_wake_scheduler(c) ==
  /\ set_pc[c] = "wake"
  /\ set_pc' = [set_pc EXCEPT ![c] = "idle"]
  /\ GiveToken
  /\ UNCHANGED <<vars, flagObjects, wake_ready, loop, timeout, slip>>

-----------------------------------------------------------------------------
(* Scheduler-context operations on a flag.                                 *)

\* arm() pushes a flag with a waiter on the armed list, unarm() unlinks it.
arm(f) == armed' = <<f>> \o armed
unarm_mut(f) == UNCHANGED armed
unarm(f) ==
  \/ f \notin Range(armed) /\ UNCHANGED armed
  \/ \E i \in DOMAIN armed :
       /\ armed[i] = f
       /\ \A j \in 1..(i - 1) : armed[j] # f
       /\ armed' = RemoveAt(armed, i)

\* co_await f.wait(): await_ready() consumes a signal and the task goes on, or
\* finds none.
WaitConsumes(f) ==
  /\ live[f]
  /\ current # NoSlot
  /\ checked = NoFlag
  /\ signaled[f]
  /\ signaled' = [signaled EXCEPT ![f] = FALSE]
  /\ error' = "none"
  /\ UNCHANGED <<restVars, waiter, live, armed, pending, walk, checked, set_pc, waitVars>>

WaitChecks(f) ==
  /\ live[f]
  /\ current # NoSlot
  /\ checked = NoFlag
  /\ ~signaled[f]
  /\ checked' = f
  /\ error' = "none"
  /\ UNCHANGED <<restVars, signaled, waiter, live, armed, pending, walk, set_pc, waitVars>>

\* await_suspend(): the task parks, even if a signal has arrived since, or is
\* refused because another task is parked.
WaitParks(f) ==
  /\ checked = f
  /\ checked' = NoFlag
  /\ waiter[f] = NoSlot
  /\ waiter' = [waiter EXCEPT ![f] = current]
  /\ arm(f)
  /\ Park
  /\ UNCHANGED <<signaled, live, pending, walk, set_pc, waitVars>>

WaitRejected(f) ==
  /\ checked = f
  /\ checked' = NoFlag
  /\ waiter[f] # NoSlot
  /\ error' = "multiple_flag_waiters"
  /\ UNCHANGED <<restVars, signaled, waiter, live, armed, pending, walk, set_pc, waitVars>>

Clear(f) ==
  /\ live[f]
  /\ UserCode
  /\ ~InCall
  /\ signaled' = [signaled EXCEPT ![f] = FALSE]
  /\ error' = "none"
  /\ UNCHANGED <<restVars, waiter, live, armed, pending, walk, checked, set_pc, waitVars>>

\* ~ThreadSafeFlag(), also of a flag that outlives the scheduler.
Destroy(f) ==
  /\ live[f]
  /\ (UserCode /\ ~InCall) \/ phase = "gone"
  /\ live' = [live EXCEPT ![f] = FALSE]
  /\ waiter' = [waiter EXCEPT ![f] = NoSlot]
  /\ unarm(f)
  /\ error' = IF waiter[f] = NoSlot THEN "none" ELSE "object_destroyed_with_waiters"
  /\ UNCHANGED <<restVars, signaled, pending, walk, checked, set_pc, waitVars>>

-----------------------------------------------------------------------------
(* poll_external_signals(), one critical section per step.                 *)

SignalsDone ==
  /\ phase' = "timers"
  /\ error' = "none"
  /\ UNCHANGED <<slotVars, ready, active_count, current, dying, budget, timeVars,
                 agenda>>

\* The first critical section: nothing pending, or the pending mark is taken.
BeginSignals ==
  /\ phase = "signals"
  /\ walk = << >>
  /\ \/ /\ ~pending \/ armed = << >>
        /\ SignalsDone
        /\ UNCHANGED walk
     \/ /\ pending
        /\ walk' = armed
        /\ armed # << >>
        /\ UNCHANGED vars
  /\ pending' = FALSE
  /\ UNCHANGED <<signaled, waiter, live, armed, checked, set_pc, waitVars>>

\* One iteration of the loop: a signaled flag is consumed, its waiter queued and
\* the flag unlinked.
VisitFlag ==
  /\ phase = "signals"
  /\ walk # << >>
  /\ LET f == Head(walk) IN
       \/ /\ signaled[f] /\ waiter[f] # NoSlot
          /\ signaled' = [signaled EXCEPT ![f] = FALSE]
          /\ wake_all(<<waiter[f]>>)
          /\ waiter' = [waiter EXCEPT ![f] = NoSlot]
          /\ unarm(f)
       \/ /\ ~signaled[f] \/ waiter[f] = NoSlot
          /\ UNCHANGED <<state, ready, signaled, waiter, armed>>
  /\ walk' = Tail(walk)
  /\ phase' = IF Tail(walk) = << >> THEN "timers" ELSE phase
  /\ error' = "none"
  /\ UNCHANGED <<generation, handle, parent, deadline_us, active_count, current,
                 dying, budget, timeVars, agenda, live, pending, checked, set_pc,
                 waitVars>>

-----------------------------------------------------------------------------
(* poll_and_wait().                                                        *)

\* The binary semaphore is created once.
platform_prepare_scheduler_wait == wake_ready' = TRUE

PollAndWait ==
  /\ PollBegin
  /\ loop = "poll"
  /\ loop' = "pass"
  /\ platform_prepare_scheduler_wait
  /\ UNCHANGED <<flagObjects, set_pc, token, timeout, slip>>

PollAndWaitRejected ==
  /\ PollRejected
  /\ checked = NoFlag
  /\ platform_prepare_scheduler_wait
  /\ UNCHANGED <<flagObjects, set_pc, token, loop, timeout, slip>>

has_external_waiters == armed # << >>

portMAX_DELAY == MaxFiniteTicks + 1

\* n / MicrosPerSecond, rounded up.
CeilDiv_mut(n) == n \div MicrosPerSecond
CeilDiv_long(n) == n \div MicrosPerSecond + 1
CeilDiv(n) == n \div MicrosPerSecond + (IF n % MicrosPerSecond # 0 THEN 1 ELSE 0)

\* The timeout in ticks for a finite deadline; both comparisons are against a
\* quotient or a difference, so that no product can pass 64 bits.
platform_timeout_ticks(t, deadline) ==
  LET whole_seconds == (deadline - t) \div MicrosPerSecond
      ticks == whole_seconds * TickRate
      fractional_ticks == CeilDiv(((deadline - t) % MicrosPerSecond) * TickRate) IN
  IF deadline <= t THEN 0
  ELSE IF \/ whole_seconds > MaxFiniteTicks \div TickRate
          \/ fractional_ticks > MaxFiniteTicks - ticks
       THEN MaxFiniteTicks
       ELSE ticks + fractional_ticks

platform_ticks_until_mut(t, deadline) == IF deadline <= t THEN 0 ELSE portMAX_DELAY
platform_ticks_until(t, deadline) ==
  IF deadline = MaxTick THEN portMAX_DELAY ELSE platform_timeout_ticks(t, deadline)

\* wait_for_work() does not block: tasks are ready, or there is no semaphore or
\* neither a timer nor an armed flag (one-tick delay), or the nearest deadline has
\* passed.
NoBlocking ==
  \/ ready # << >>
  \/ ~wake_ready
  \/ nearest_deadline = MaxTick /\ ~has_external_waiters
  \/ platform_ticks_until(clock, nearest_deadline) = 0

\* wait_for_work() up to the computation of the timeout.  All it reads but the
\* clock is changed by the scheduler thread alone.
wait_for_work ==
  /\ InWait
  /\ loop = "pass"
  /\ \/ NoBlocking /\ loop' = "poll" /\ UNCHANGED timeout
     \/ /\ ~NoBlocking
        /\ loop' = "sampled"
        /\ timeout' = platform_ticks_until(clock, nearest_deadline)
  /\ UNCHANGED <<vars, flagObjects, set_pc, wake_ready, token, slip>>

\* xSemaphoreTake() starts to count the timeout: interrupts and tasks of higher
\* priority may have come between, and time has passed.
Block ==
  /\ loop = "sampled"
  /\ loop' = "asleep"
  /\ UNCHANGED <<vars, flagObjects, set_pc, wake_ready, token, timeout, slip>>

\* The FreeRTOS tick interrupts up to time t.
TickCount(t) == (t * TickRate) \div MicrosPerSecond

\* What k tick interrupts leave of the timeout; an infinite one never ends.
TimeoutAfter(k) ==
  IF timeout = portMAX_DELAY THEN timeout ELSE IF k < timeout THEN timeout - k ELSE 0

\* Time passes; each tick interrupt counts a finite timeout down, once
\* xSemaphoreTake() has it.
ClockTick ==
  /\ Tick
  /\ LET k == TickCount(clock') - TickCount(clock) IN
       \/ loop # "sampled" /\ timeout' = TimeoutAfter(k) /\ UNCHANGED slip
       \/ loop = "sampled" /\ slip' = slip + k /\ UNCHANGED timeout
  /\ UNCHANGED <<flagObjects, set_pc, wake_ready, token, loop>>

\* xSemaphoreTake() returns, with the token or because the timeout has expired.
WakeUp ==
  /\ loop = "asleep"
  /\ token \/ timeout = 0
  /\ token' = FALSE
  /\ loop' = "poll"
  /\ timeout' = 0
  /\ slip' = 0
  /\ UNCHANGED <<vars, flagObjects, set_pc, wake_ready>>

-----------------------------------------------------------------------------

\* The steps of the scheduler thread alone.
SchedulerStep == CoreNext /\ ~InCall /\ UNCHANGED <<clock, flagVars>>

SetFlag == \E c \in Contexts : platform_wake_scheduler(c) \/ \E f \in Flags : Set(c, f)

FlagAwaits == \E f \in Flags : WaitChecks(f) \/ WaitParks(f) \/ WaitRejected(f)

FlagNext ==
  \/ SchedulerStep
  \/ SetFlag
  \/ FlagAwaits
  \/ \E f \in Flags : WaitConsumes(f) \/ Clear(f) \/ Destroy(f)
  \/ BeginSignals
  \/ VisitFlag
  \/ PollAndWait
  \/ PollAndWaitRejected
  \/ wait_for_work
  \/ Block
  \/ WakeUp
  \/ ClockTick

FlagSpec == FlagInit /\ [][FlagNext]_fvars

\* loop() keeps calling poll() or poll_and_wait(), tasks and destructors return,
\* time passes, FreeRTOS runs the task whose wait is over, and set() returns.
FlagFairness ==
  /\ WF_fvars((Poll /\ ~InCall /\ UNCHANGED flagVars) \/ PollAndWait)
  /\ WF_fvars(\E f \in Flags : WaitParks(f) \/ WaitRejected(f))
  /\ SF_fvars(TaskSuspends /\ ~InCall /\ UNCHANGED flagVars)
  /\ WF_fvars(Teardown /\ UNCHANGED flagVars)
  /\ WF_fvars(ClockTick)
  /\ WF_fvars(BeginSignals \/ VisitFlag)
  /\ WF_fvars(wait_for_work \/ Block \/ WakeUp)
  /\ \A c \in Contexts : WF_fvars(platform_wake_scheduler(c))

FlagFairSpec == FlagSpec /\ FlagFairness

-----------------------------------------------------------------------------

\* The flags, the armed list and the wake semaphore keep their types; whatever
\* wait() arms is a flag of the program.
FlagTypeOK ==
  /\ signaled \in [Flags -> BOOLEAN]
  /\ waiter \in [Flags -> Slots \union {NoSlot}]
  /\ live \in [Flags -> BOOLEAN]
  /\ armed \in Seq(Flags)
  /\ pending \in BOOLEAN
  /\ walk \in Seq(Flags)
  /\ checked \in Flags \union {NoFlag}
  /\ set_pc \in [Contexts -> {"idle", "wake"}]
  /\ wake_ready \in BOOLEAN
  /\ token \in BOOLEAN
  /\ loop \in {"poll", "pass", "sampled", "asleep"}
  /\ timeout \in 0..portMAX_DELAY
  /\ slip \in Nat

\* The state is well-typed, and the armed list holds exactly the flags with a
\* waiter, each once, so the walk of poll_external_signals() never follows a
\* destroyed flag; the waiters are distinct parked tasks, and only a destroyed flag
\* strands a parked task.
ArmedExact ==
  /\ FlagTypeOK
  /\ ~shutting_down =>
    /\ IsInjective(armed)
    /\ \A f \in Flags : f \in Range(armed) <=> waiter[f] # NoSlot
    /\ \A f \in Flags : waiter[f] # NoSlot =>
         live[f] /\ state[waiter[f]] = "waiting_local"
    /\ \A f, g \in Flags : waiter[f] = waiter[g] /\ waiter[f] # NoSlot => f = g
    /\ \A s \in Slots : state[s] = "waiting_local" =>
         (\E f \in Flags : waiter[f] = s) \/ (\E f \in Flags : ~live[f])

\* A signal for a parked task is never lost, however set() interleaves with
\* wait() and with the walk over the armed flags: either the pending mark makes
\* the next poll() look, or the current walk has yet to visit the flag.
NoLostSignal ==
  \A f \in Flags : signaled[f] /\ waiter[f] # NoSlot => pending \/ f \in Range(walk)

\* poll_and_wait() never sleeps through a signal: if it is blocked while a parked
\* task has been signaled, the semaphore is available or set() is about to give
\* it.  Nor does it block while a task is ready.
NoSleepOnSignal ==
  loop = "asleep" =>
    /\ ready = << >>
    /\ (\E f \in Flags : signaled[f] /\ waiter[f] # NoSlot) =>
         token \/ \E c \in Contexts : set_pc[c] = "wake"

\* A signal for a parked task readies that task, unless scheduler code takes the
\* signal back (clear(), another wait()) or the flag or the scheduler goes away.
SignalsDelivered ==
  \A f \in Flags, s \in Slots :
    signaled[f] /\ waiter[f] = s ~>
      state[s] = "ready" \/ ~signaled[f] \/ ~live[f] \/ shutting_down

\* The timeout poll_and_wait() computes for a deadline r ahead is at least one tick,
\* covers r unless it is capped, and is never a whole tick too long, for every r up
\* to beyond the cap on finite timeouts.
TimeoutsCover ==
  \A r \in 1..((MaxFiniteTicks + 1) * MicrosPerSecond) :
    LET k == platform_timeout_ticks(clock, clock + r) IN
      /\ k \in 1..MaxFiniteTicks
      /\ k < MaxFiniteTicks => k * MicrosPerSecond >= r * TickRate
      /\ (k - 1) * MicrosPerSecond < r * TickRate

\* While poll_and_wait() is blocked or about to block, its timeout is finite and ends
\* less than a tick after the deadline of every task that waits on a timer, whatever
\* was armed, fired or signaled before; only the ticks that fell between the sample
\* of the clock and xSemaphoreTake() come on top.
NoOversleep ==
  loop \in {"sampled", "asleep"} => \A s \in Waiting : deadline_us[s] < MaxTick =>
    /\ timeout # portMAX_DELAY
    /\ timeout > 0 =>
         (TickCount(clock) + timeout - 1 - slip) * MicrosPerSecond
           < deadline_us[s] * TickRate

\* s waits for a deadline that a tick of the model's time follows.
WaitsFor(s) ==
  /\ state[s] = "waiting_timer"
  /\ deadline_us[s] < MaxTick
  /\ CeilDiv(deadline_us[s] * TickRate) <= TickCount(MaxTick)

\* The model's time has run out in a sleep that began late.
TimeRunsOut == loop = "asleep" /\ clock = MaxTick /\ slip > 0

\* Delays end under poll_and_wait() too, even if a wait is cut short by the cap on
\* finite timeouts or begins after its clock sample.  (A deadline of exactly
\* UINT64_MAX is taken for none.)
DelaysEndAsleep ==
  \A s \in Slots :
    WaitsFor(s) ~> state[s] = "running" \/ shutting_down \/ TimeRunsOut

\* Of two tasks waiting on one flag the second is reported as
\* multiple_flag_waiters.
SecondWaiterReported ==
  [][\A f \in Flags :
       WaitConsumes(f) /\ waiter[f] # NoSlot => error' = "multiple_flag_waiters"]_fvars
==============================================================================
