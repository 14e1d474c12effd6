---------------------------- MODULE TimerProofs ------------------------------
(***************************************************************************)
(* Proofs about the timers: the cached nearest deadline and what           *)
(* process_due_timers() leaves behind.  The second half shows that parking *)
(* and waking keep the scheduler's invariant, for the compositions with    *)
(* Event, ThreadSafeFlag and Queue.                                        *)
(***************************************************************************)
EXTENDS SchedulerProofs

\* While process_due_timers() runs the cached deadline is a lower bound; it is
\* still a real one as long as no timer has fired.
NearestCovers ==
  phase = "timers" =>
    /\ \A s \in Waiting : nearest_deadline <= deadline_us[s]
    /\ now < nearest_deadline => IsNearest(nearest_deadline)

\* What the properties rest on: neither is inductive without the other, nor
\* without what holds between two firings.
Timers == NearestIsReal /\ NearestCovers /\ NoOverdueTimer

TimerInv == FifoInv /\ Timers

-----------------------------------------------------------------------------

\* The step arms and fires no timer.
KeepsTimers ==
  /\ UNCHANGED <<deadline_us, now, nearest_deadline>>
  /\ \A s \in Slots : state'[s] = "waiting_timer" <=> state[s] = "waiting_timer"

\* Such a step keeps the timer invariant, in one stage of poll() or from one to
\* the next.
LEMMA KeepsTimersInv ==
  ASSUME Timers, KeepsTimers,
         phase' # phase => \/ phase = "signals" /\ phase' = "timers"
                           \/ phase = "pass" /\ phase' = "idle"
                           \/ phase' \in {"teardown", "gone"}
  PROVE  Timers'
<1>1. Waiting' = Waiting
  BY DEF KeepsTimers, Waiting
<1>2. IsNearest(nearest_deadline)' <=> IsNearest(nearest_deadline)
  BY <1>1 DEF KeepsTimers, IsNearest
<1>3. UNCHANGED <<deadline_us, now, nearest_deadline>>
  BY DEF KeepsTimers
<1>4. NearestIsReal'
  BY <1>2 DEF Timers, NearestIsReal, shutting_down
<1>5. NearestCovers'
  <2>1. IsNearest(nearest_deadline) =>
          \A s \in Waiting : nearest_deadline <= deadline_us[s]
    BY DEF IsNearest
  <2> QED
    BY <1>1, <1>2, <1>3, <2>1
       DEF Timers, NearestCovers, NearestIsReal, shutting_down
<1>6. NoOverdueTimer'
  BY <1>1, <1>3 DEF Timers, NoOverdueTimer
<1> QED
  BY <1>4, <1>5, <1>6 DEF Timers

\* In ~Scheduler() there is nothing to keep.
LEMMA NoTimersInTeardown ==
  ASSUME phase' \in {"teardown", "gone"}
  PROVE  Timers'
  BY DEF Timers, NearestIsReal, NearestCovers, NoOverdueTimer, shutting_down

\* poll() samples the clock: the cached deadline stays as it is.
LEMMA TimersPollBegin == Timers /\ PollBegin => Timers'
<1> SUFFICES ASSUME Timers, PollBegin PROVE Timers'
  OBVIOUS
<1>1. UNCHANGED <<state, deadline_us, nearest_deadline>> /\ phase = "idle"
      /\ phase' = "signals"
  BY DEF PollBegin, slotVars
<1> QED
  BY <1>1 DEF Timers, NearestIsReal, NearestCovers, NoOverdueTimer, IsNearest, Waiting,
              shutting_down

\* A timer fires: the others are no closer than the cached deadline.
LEMMA TimersFire == Typed /\ Timers /\ FireTimer => Timers'
<1> SUFFICES ASSUME Typed, Timers, FireTimer PROVE Timers'
  OBVIOUS
<1>1. PICK s \in Slots : state' = [state EXCEPT ![s] = "ready"]
  BY DEF FireTimer
<1>2. /\ phase = "timers" /\ now >= nearest_deadline
      /\ UNCHANGED <<phase, deadline_us, now, nearest_deadline>>
  BY DEF FireTimer, timeVars
<1>3. Waiting' \subseteq Waiting
  BY <1>1 DEF Waiting, Typed
<1>4. ~(now < nearest_deadline)
  BY <1>2 DEF Typed, Ticks
<1>5. NearestCovers'
  BY <1>2, <1>3, <1>4 DEF Timers, NearestCovers
<1> QED
  BY <1>2, <1>5 DEF Timers, NearestIsReal, NoOverdueTimer

\* process_due_timers() ends with no timer due and a real nearest deadline.
LEMMA TimersDoneKeeps == Typed /\ Timers /\ TimersDone => Timers'
<1> SUFFICES ASSUME Typed, Timers, TimersDone PROVE Timers'
  OBVIOUS
<1>1. phase = "timers" /\ phase' = "pass" /\ UNCHANGED <<state, deadline_us, now>>
  BY DEF TimersDone, StartPass, slotVars
<1>2. Waiting' = Waiting
  BY <1>1 DEF Waiting
<1>3. /\ now \in Int /\ nearest_deadline \in Int /\ nearest_deadline' \in Int
      /\ \A s \in Waiting : deadline_us[s] \in Int
  BY SchedulerAssumption DEF Typed, Ticks, Waiting, TimersDone, recompute_nearest_deadline
<1>4. CASE now < nearest_deadline /\ UNCHANGED nearest_deadline
  <2>1. IsNearest(nearest_deadline)
    BY <1>1, <1>4 DEF Timers, NearestCovers
  <2>2. \A s \in Waiting : now < deadline_us[s] /\ nearest_deadline <= deadline_us[s]
    BY <1>3, <1>4, <2>1 DEF IsNearest
  <2>3. IsNearest(nearest_deadline)'
    BY <1>1, <1>2, <1>4, <2>1 DEF IsNearest
  <2> QED
    BY <1>1, <1>2, <1>3, <1>4, <2>2, <2>3
       DEF Timers, NearestIsReal, NearestCovers, NoOverdueTimer
<1>5. CASE Due = {} /\ recompute_nearest_deadline
  <2>1. IsNearest(nearest_deadline')
    BY <1>5 DEF recompute_nearest_deadline
  <2>2. IsNearest(nearest_deadline)'
    BY <1>1, <1>2, <2>1 DEF IsNearest
  <2>3. \A s \in Waiting : ~(deadline_us[s] <= now)
    BY <1>5 DEF Due
  <2>4. \A s \in Waiting : deadline_us[s] > now /\ nearest_deadline' <= deadline_us[s]
    BY <1>3, <2>1, <2>3 DEF IsNearest
  <2> QED
    BY <1>1, <1>2, <2>2, <2>4 DEF Timers, NearestIsReal, NearestCovers, NoOverdueTimer
<1> QED
  BY <1>4, <1>5 DEF TimersDone

\* arm_current_timer(): the new deadline lies ahead and the cached one follows it.
LEMMA TimersArm ==
  ASSUME Typed, Timers, NEW d \in Durations, d # 0, ~add_overflows(d), ArmTimer(d),
         current \in Slots, state[current] # "waiting_timer", phase = "pass",
         UNCHANGED <<phase, now>>
  PROVE  Timers'
<1>1. /\ now \in Int /\ nearest_deadline \in Int /\ d \in Nat /\ d > 0
      /\ MaxTick \in Nat /\ now + d <= MaxTick /\ nearest_deadline <= MaxTick
      /\ \A s \in Slots : deadline_us[s] \in Int
  BY SchedulerAssumption DEF Typed, Ticks, add_overflows
<1>2. Waiting' = Waiting \union {current} /\ current \notin Waiting
  BY DEF Waiting, ArmTimer, Typed
<1>3. /\ deadline_us'[current] = now + d
      /\ \A s \in Waiting : deadline_us'[s] = deadline_us[s]
  BY <1>2 DEF ArmTimer, Typed, Waiting
<1>4. /\ nearest_deadline' \in {nearest_deadline, now + d}
      /\ nearest_deadline' <= nearest_deadline /\ nearest_deadline' <= now + d
  BY <1>1 DEF ArmTimer
<1>5. IsNearest(nearest_deadline)
  BY DEF Timers, NearestIsReal, shutting_down
<1>6. \A s \in Waiting' : nearest_deadline' <= deadline_us'[s]
  <2>1. ASSUME NEW s \in Waiting PROVE nearest_deadline' <= deadline_us'[s]
    <3>1. nearest_deadline <= deadline_us[s] /\ s \in Slots
      BY <1>5 DEF IsNearest, Waiting
    <3> QED
      BY <1>1, <1>3, <1>4, <3>1
  <2> QED
    BY <1>2, <1>3, <1>4, <2>1
<1>7. nearest_deadline' = MaxTick \/ \E s \in Waiting' : nearest_deadline' = deadline_us'[s]
  BY <1>2, <1>3, <1>4, <1>5 DEF IsNearest
<1>8. \A s \in Waiting' : deadline_us'[s] > now
  <2>1. \A s \in Waiting : deadline_us[s] > now
    BY DEF Timers, NoOverdueTimer
  <2> QED
    BY <1>1, <1>2, <1>3, <2>1
<1> QED
  BY <1>6, <1>7, <1>8 DEF Timers, NearestIsReal, NearestCovers, NoOverdueTimer, IsNearest

\* The running task gives up the processor.
LEMMA TimersTask ==
  ASSUME FifoInv, Timers, TaskSuspends \/ AwaitRejected
  PROVE  Timers'
<1> USE DEF slotVars, timeVars
<1>1. UNCHANGED <<phase, now>> /\ current # NoSlot
  BY DEF TaskSuspends, AwaitRejected, restVars, Yield, Delay, AwaitChild,
         SuspendUnregistered, Finish, Suspends
<1>2. CASE shutting_down
  BY <1>1, <1>2, NoTimersInTeardown DEF shutting_down
<1> SUFFICES ASSUME ~shutting_down PROVE Timers'
  BY <1>2
<1>3. /\ current \in Slots /\ state[current] = "running" /\ phase = "pass"
      /\ state \in [Slots -> States]
  BY <1>1, RunningTask DEF shutting_down, FifoInv, Typed
<1>4. ASSUME NEW st \in States \ {"waiting_timer"},
             state' = [state EXCEPT ![current] = st],
             UNCHANGED <<deadline_us, nearest_deadline>>
      PROVE  Timers'
  <2>1. KeepsTimers
    BY <1>1, <1>3, <1>4 DEF KeepsTimers
  <2> QED
    BY <1>1, <2>1, KeepsTimersInv
<1>5. CASE Finish \/ AwaitRejected
  <2>1. KeepsTimers
    BY <1>5 DEF Finish, AwaitRejected, restVars, KeepsTimers
  <2> QED
    BY <1>1, <2>1, KeepsTimersInv
<1>6. CASE Yield \/ SuspendUnregistered
  BY <1>4, <1>6 DEF Yield, Requeue, SuspendUnregistered, States, LiveStates
<1>7. ASSUME NEW d \in Durations, Delay(d) PROVE Timers'
  <2>1. CASE d # 0 /\ ~add_overflows(d) /\ ArmTimer(d)
    BY <1>1, <1>3, <2>1, TimersArm DEF FifoInv
  <2>2. CASE Requeue /\ UNCHANGED <<deadline_us, nearest_deadline>>
    BY <1>4, <2>2 DEF Requeue, States, LiveStates
  <2> QED
    BY <1>7, <2>1, <2>2 DEF Delay
<1>8. CASE AwaitChild
  <2>1. UNCHANGED <<deadline_us, nearest_deadline>>
    BY <1>8 DEF AwaitChild
  <2>2. CASE Requeue
    BY <1>4, <2>1, <2>2 DEF Requeue, States, LiveStates
  <2>3. ASSUME NEW s \in Slots, AdoptChild(s) PROVE Timers'
    <3>1. state[s] \in {"free", "completed"}
      BY <2>3, AcquiredSlot DEF AdoptChild, FifoInv
    <3>2. state' = [state EXCEPT ![s] = "ready", ![current] = "waiting_child"]
      BY <2>3 DEF AdoptChild
    <3>3. KeepsTimers
      BY <1>1, <1>3, <2>1, <3>1, <3>2 DEF KeepsTimers
    <3> QED
      BY <1>1, <3>3, KeepsTimersInv
  <2> QED
    BY <1>8, <2>2, <2>3 DEF AwaitChild
<1> QED
  BY <1>5, <1>6, <1>7, <1>8 DEF TaskSuspends

\* schedule(), resume and completion touch no timer.
LEMMA TimersElsewhere ==
  ASSUME FifoInv, Timers,
         ScheduleTask \/ PollRejected \/ NoExternalSignals \/ Resume \/ PassDone \/ Reap
           \/ Tick
  PROVE  Timers'
<1> USE DEF slotVars, timeVars
<1>1. /\ state \in [Slots -> States] /\ parent \in [Slots -> Slots \union {NoSlot}]
      /\ ready \in Seq(Slots)
  BY DEF FifoInv, Typed
<1>2. CASE ScheduleTask
  <2>1. CASE UNCHANGED state
    BY <1>2, <2>1, KeepsTimersInv DEF ScheduleTask, KeepsTimers
  <2>2. CASE \E s \in Slots : acquire_slot(s) /\ state' = [state EXCEPT ![s] = "ready"]
    <3>1. PICK s \in Slots : acquire_slot(s) /\ state' = [state EXCEPT ![s] = "ready"]
      BY <2>2
    <3>2. state[s] \in {"free", "completed"}
      BY <3>1, AcquiredSlot DEF FifoInv
    <3>3. KeepsTimers
      BY <1>1, <1>2, <3>1, <3>2 DEF ScheduleTask, KeepsTimers
    <3> QED
      BY <1>2, <3>3, KeepsTimersInv DEF ScheduleTask
  <2> QED
    BY <1>2, <2>1, <2>2 DEF ScheduleTask
<1>3. CASE PollRejected \/ NoExternalSignals \/ PassDone \/ Tick
  BY <1>3, KeepsTimersInv
     DEF PollRejected, restVars, NoExternalSignals, PassDone, Tick, KeepsTimers
<1>4. CASE Resume
  <2>1. Head(ready) \in Slots
    BY <1>1, <1>4 DEF Resume
  <2>2. KeepsTimers
    BY <1>1, <1>4, <2>1 DEF Resume, KeepsTimers
  <2> QED
    BY <1>4, <2>2, KeepsTimersInv DEF Resume
<1>5. CASE Reap
  <2>1. dying \in Slots /\ state[dying] = "running"
    BY <1>5 DEF Reap, FifoInv, Typed, OneRunner, shutting_down
  <2>2. parent[dying] = NoSlot \/ parent[dying] \in Slots
    BY <1>1, <2>1
  <2>3. KeepsTimers
    BY <1>1, <1>5, <2>1, <2>2 DEF Reap, Complete, KeepsTimers
  <2> QED
    BY <1>5, <2>3, KeepsTimersInv DEF Reap
<1> QED
  BY <1>2, <1>3, <1>4, <1>5

\* Every step keeps the timer invariant.
LEMMA TimerNext == TimerInv /\ [Next]_vars => TimerInv'
<1> SUFFICES ASSUME TimerInv, [Next]_vars PROVE TimerInv'
  OBVIOUS
<1> USE DEF TimerInv
<1>1. FifoInv' /\ Typed
  BY FifoNext DEF FifoInv
<1>2. CASE UNCHANGED vars
  <2>1. KeepsTimers /\ UNCHANGED phase
    BY <1>2 DEF vars, slotVars, timeVars, KeepsTimers
  <2> QED
    BY <1>1, <2>1, KeepsTimersInv
<1>3. CASE TeardownBegin \/ Teardown
  <2>1. phase' \in {"teardown", "gone"}
    BY <1>3 DEF TeardownBegin, Teardown, TeardownDetach, TeardownEnd
  <2> QED
    BY <1>1, <2>1, NoTimersInTeardown
<1> QED
  BY <1>1, <1>2, <1>3, TimersPollBegin, TimersFire, TimersDoneKeeps, TimersTask,
     TimersElsewhere DEF Next, CoreNext, Poll, Exited

\* No timer is armed in a new Scheduler.
LEMMA TimerInit == Init => TimerInv
<1> SUFFICES ASSUME Init PROVE TimerInv
  OBVIOUS
<1>1. FifoInv
  BY FifoInit
<1>2. Waiting = {}
  BY DEF Init, Waiting
<1> QED
  BY <1>1, <1>2 DEF Init, TimerInv, Timers, NearestIsReal, NearestCovers, NoOverdueTimer,
                    IsNearest

\* After process_due_timers() no timer is overdue, for any deadlines and clock: the
\* cached nearest deadline never hides a due timer.
THEOREM TimersNeverOverdue == Spec => []NoOverdueTimer
<1>1. TimerInv => NoOverdueTimer
  BY DEF TimerInv, Timers
<1> QED
  BY <1>1, TimerInit, TimerNext, PTL DEF Spec

\* Outside process_due_timers() the cached nearest deadline is the least deadline
\* of a waiting task, or none.
THEOREM NearestExact == Spec => []NearestIsReal
<1>1. TimerInv => NearestIsReal
  BY DEF TimerInv, Timers
<1> QED
  BY <1>1, TimerInit, TimerNext, PTL DEF Spec

-----------------------------------------------------------------------------
(* Parking and waking.                                                     *)

\* Concatenation of disjoint queues.
LEMMA ConcatFifo ==
  ASSUME NEW S, NEW q \in Seq(S), NEW r \in Seq(S)
  PROVE  /\ Range(q \o r) = Range(q) \union Range(r)
         /\ IsInjective(q) /\ IsInjective(r) /\ Range(q) \cap Range(r) = {}
              => IsInjective(q \o r)
         /\ \A n \in 0..Len(q) : SubSeq(q \o r, 1, n) = SubSeq(q, 1, n)
<1>1. /\ q \o r \in Seq(S) /\ Len(q) \in Nat /\ Len(r) \in Nat
      /\ Len(q \o r) = Len(q) + Len(r)
      /\ DOMAIN q = 1..Len(q) /\ DOMAIN r = 1..Len(r)
      /\ DOMAIN (q \o r) = 1..(Len(q) + Len(r))
      /\ \A i \in 1..(Len(q) + Len(r)) :
           (q \o r)[i] = IF i <= Len(q) THEN q[i] ELSE r[i - Len(q)]
  OBVIOUS
<1>2. Range(q \o r) = Range(q) \union Range(r)
  <2>1. \A x \in Range(q \o r) : x \in Range(q) \union Range(r)
    BY <1>1 DEF Range
  <2>2. \A x \in Range(q) : x \in Range(q \o r)
    BY <1>1 DEF Range
  <2>3. ASSUME NEW x \in Range(r) PROVE x \in Range(q \o r)
    <3>1. PICK i \in 1..Len(r) : x = r[i]
      BY <1>1 DEF Range
    <3>2. i + Len(q) \in 1..(Len(q) + Len(r)) /\ (q \o r)[i + Len(q)] = r[i]
      BY <1>1
    <3> QED
      BY <1>1, <3>1, <3>2 DEF Range
  <2> QED
    BY <2>1, <2>2, <2>3
<1>3. ASSUME IsInjective(q), IsInjective(r), Range(q) \cap Range(r) = {}
      PROVE  IsInjective(q \o r)
  <2>1. ASSUME NEW i \in 1..(Len(q) + Len(r)), NEW j \in 1..(Len(q) + Len(r)),
               (q \o r)[i] = (q \o r)[j]
        PROVE  i = j
    <3>1. CASE i <= Len(q) /\ j <= Len(q)
      BY <1>1, <1>3, <2>1, <3>1 DEF IsInjective
    <3>2. CASE ~(i <= Len(q)) /\ ~(j <= Len(q))
      <4>1. i - Len(q) \in 1..Len(r) /\ j - Len(q) \in 1..Len(r)
        BY <1>1, <3>2
      <4>2. r[i - Len(q)] = r[j - Len(q)]
        BY <1>1, <2>1, <3>2
      <4>3. i - Len(q) = j - Len(q)
        BY <1>1, <1>3, <4>1, <4>2 DEF IsInjective
      <4> QED
        BY <1>1, <4>3
    <3>3. CASE i <= Len(q) /\ ~(j <= Len(q))
      <4>1. (q \o r)[i] \in Range(q) /\ (q \o r)[j] \in Range(r)
        BY <1>1, <3>3 DEF Range
      <4> QED
        BY <1>3, <2>1, <4>1
    <3>4. CASE ~(i <= Len(q)) /\ j <= Len(q)
      <4>1. (q \o r)[j] \in Range(q) /\ (q \o r)[i] \in Range(r)
        BY <1>1, <3>4 DEF Range
      <4> QED
        BY <1>3, <2>1, <4>1
    <3> QED
      BY <3>1, <3>2, <3>3, <3>4
  <2> QED
    BY <1>1, <2>1 DEF IsInjective
<1>4. ASSUME NEW n \in 0..Len(q) PROVE SubSeq(q \o r, 1, n) = SubSeq(q, 1, n)
  <2>1. /\ \A i \in 1..n : q[i] \in S
        /\ \A i \in 1..n : (q \o r)[i] \in S
    BY <1>1
  <2>2. /\ SubSeq(q, 1, n) \in Seq(S) /\ Len(SubSeq(q, 1, n)) = n
        /\ SubSeq(q \o r, 1, n) \in Seq(S) /\ Len(SubSeq(q \o r, 1, n)) = n
        /\ \A i \in 1..n : SubSeq(q, 1, n)[i] = q[i]
        /\ \A i \in 1..n : SubSeq(q \o r, 1, n)[i] = (q \o r)[i]
    BY <1>1, <2>1, SubSeqProperties
  <2> QED
    BY <1>1, <2>2
<1> QED
  BY <1>2, <1>3, <1>4

\* r is the sequence q without its entry i.
Drops(q, i, r) ==
  /\ i \in 1..Len(q) /\ Len(r) = Len(q) - 1
  /\ \A j \in 1..(Len(q) - 1) : r[j] = IF j < i THEN q[j] ELSE q[j + 1]

\* Without repetitions nothing but that entry is gone.
LEMMA DropIndex ==
  ASSUME NEW S, NEW q \in Seq(S), NEW r \in Seq(S), NEW i, Drops(q, i, r)
  PROVE  IsInjective(q) => IsInjective(r) /\ Range(r) = Range(q) \ {q[i]}
<1> SUFFICES ASSUME IsInjective(q) PROVE IsInjective(r) /\ Range(r) = Range(q) \ {q[i]}
  OBVIOUS
<1> DEFINE n == Len(q)
<1>a. n \in Nat /\ i \in 1..n /\ DOMAIN q = 1..n /\ DOMAIN r = 1..(n - 1)
  BY DEF Drops
<1>b. \A j \in 1..(n - 1) : r[j] = IF j < i THEN q[j] ELSE q[j + 1]
  BY DEF Drops
<1> HIDE DEF n
<1> DEFINE up(j) == IF j < i THEN j ELSE j + 1
<1>1. \A j \in 1..(n - 1) : up(j) \in 1..n /\ up(j) # i
  BY <1>a
<1>2. \A j, l \in 1..(n - 1) : up(j) = up(l) => j = l
  BY <1>a
<1>3. \A k \in 1..n : k # i => \E j \in 1..(n - 1) : k = up(j)
  <2>1. ASSUME NEW k \in 1..n, k < i PROVE k \in 1..(n - 1) /\ k = up(k)
    BY <1>a, <2>1
  <2>2. ASSUME NEW k \in 1..n, k > i PROVE k - 1 \in 1..(n - 1) /\ k = up(k - 1)
    BY <1>a, <2>2
  <2> HIDE DEF up
  <2> QED
    BY <1>a, <2>1, <2>2
<1>4. \A j \in 1..(n - 1) : r[j] = q[up(j)]
  BY <1>b
<1>5. \A k, l \in 1..n : q[k] = q[l] => k = l
  BY <1>a DEF IsInjective
<1> HIDE DEF up
<1>6. IsInjective(r)
  BY <1>1, <1>2, <1>4, <1>5, <1>a DEF IsInjective
<1>7. Range(r) = Range(q) \ {q[i]}
  <2>1. ASSUME NEW x \in Range(r) PROVE x \in Range(q) /\ x # q[i]
    BY <1>1, <1>4, <1>5, <1>a DEF Range
  <2>2. ASSUME NEW x \in Range(q), x # q[i] PROVE x \in Range(r)
    <3>1. PICK k \in 1..n : x = q[k]
      BY <1>a DEF Range
    <3>2. PICK j \in 1..(n - 1) : k = up(j)
      BY <1>3, <2>2, <3>1
    <3>3. x = r[j]
      BY <1>4, <3>1, <3>2
    <3> QED
      BY <1>a, <3>3 DEF Range
  <2> QED
    BY <2>1, <2>2
<1> QED
  BY <1>6, <1>7

\* What follows entry i of a sequence.
LEMMA Suffix ==
  ASSUME NEW S, NEW q \in Seq(S), NEW i \in 1..Len(q)
  PROVE  LET b == SubSeq(q, i + 1, Len(q)) IN
         /\ b \in Seq(S) /\ Len(b) = Len(q) - i
         /\ \A j \in 1..(Len(q) - i) : b[j] = q[i + j]
<1> DEFINE n == Len(q)
           b == SubSeq(q, i + 1, n)
<1>1. n \in Nat /\ i \in 1..n /\ \A j \in (i + 1)..n : q[j] \in S
  OBVIOUS
<1>2. i + 1 \in Int /\ n \in Int
  BY <1>1
<1>3. /\ b \in Seq(S)
      /\ Len(b) = IF i + 1 <= n THEN n - (i + 1) + 1 ELSE 0
      /\ \A j \in 1..(n - (i + 1) + 1) : b[j] = q[(i + 1) + j - 1]
  BY <1>1, <1>2, SubSeqProperties
<1> HIDE DEF n, b
<1>4. Len(b) = n - i
  BY <1>1, <1>3
<1>5. ASSUME NEW j \in 1..(n - i) PROVE b[j] = q[i + j]
  <2>1. j \in 1..(n - (i + 1) + 1) /\ (i + 1) + j - 1 = i + j
    BY <1>1
  <2> QED
    BY <1>3, <2>1
<1> QED
  BY <1>3, <1>4, <1>5 DEF n, b

\* What is left of a queue when its entry i is unlinked.
LEMMA UnlinkFifo ==
  ASSUME NEW S, NEW q \in Seq(S), NEW i \in 1..Len(q)
  PROVE  LET r == SubSeq(q, 1, i - 1) \o SubSeq(q, i + 1, Len(q)) IN
         /\ r \in Seq(S) /\ Drops(q, i, r)
         /\ IsInjective(q) => IsInjective(r) /\ Range(r) = Range(q) \ {q[i]}
<1> DEFINE n == Len(q)
           a == SubSeq(q, 1, i - 1)
           b == SubSeq(q, i + 1, Len(q))
           r == a \o b
<1>1. n \in Nat /\ i \in 1..n /\ DOMAIN q = 1..n /\ \A j \in 1..n : q[j] \in S
  OBVIOUS
<1>2. a \in Seq(S) /\ Len(a) = i - 1 /\ \A j \in 1..(i - 1) : a[j] = q[j]
  <2>1. \A j \in 1..(i - 1) : q[j] \in S
    BY <1>1
  <2> QED
    BY <1>1, <2>1, SubSeqProperties
<1>3. b \in Seq(S) /\ Len(b) = n - i /\ \A j \in 1..(n - i) : b[j] = q[i + j]
  BY Suffix
<1> HIDE DEF a, b
<1>4. /\ r \in Seq(S) /\ Len(r) = Len(a) + Len(b)
      /\ \A j \in 1..(Len(a) + Len(b)) :
           r[j] = IF j <= Len(a) THEN a[j] ELSE b[j - Len(a)]
  BY <1>2, <1>3, ConcatProperties
<1> HIDE DEF n, r
<1>5. Len(r) = n - 1 /\ DOMAIN r = 1..(n - 1)
  BY <1>1, <1>2, <1>3, <1>4
<1>6. ASSUME NEW j \in 1..(n - 1)
      PROVE  r[j] = IF j < i THEN q[j] ELSE q[j + 1]
  <2>1. j \in 1..(Len(a) + Len(b)) /\ (j <= Len(a) <=> j < i) /\ j - Len(a) = j - (i - 1)
    BY <1>1, <1>2, <1>3
  <2>2. CASE j < i
    <3>1. j \in 1..(i - 1)
      BY <1>1, <2>2
    <3> QED
      BY <1>2, <1>4, <2>1, <2>2, <3>1
  <2>3. CASE ~(j < i)
    <3>1. j - (i - 1) \in 1..(n - i) /\ i + (j - (i - 1)) = j + 1
      BY <1>1, <2>3
    <3>2. r[j] = b[j - (i - 1)]
      BY <1>4, <2>1, <2>3
    <3> QED
      BY <1>3, <2>3, <3>1, <3>2
  <2> QED
    BY <2>2, <2>3
<1>7. Drops(q, i, r)
  BY <1>5, <1>6 DEF n, Drops
<1>8. IsInjective(q) => IsInjective(r) /\ Range(r) = Range(q) \ {q[i]}
  BY <1>4, <1>7, DropIndex
<1> QED
  BY <1>4, <1>7, <1>8 DEF a, b, r

\* A step that changes nothing of the scheduler but the latest error.
LEMMA ReportKeeps ==
  ASSUME TimerInv, UNCHANGED restVars, error' \in Errors
  PROVE  TimerInv'
<1> USE DEF restVars, slotVars, timeVars
<1>1. Typed'
  BY DEF TimerInv, FifoInv, Typed
<1>2. FifoInv'
  BY <1>1 DEF TimerInv, FifoInv, OneRunner, ReadyQueueExact, PassIsSnapshot, shutting_down
<1>3. KeepsTimers /\ UNCHANGED phase
  BY DEF KeepsTimers
<1> QED
  BY <1>2, <1>3, KeepsTimersInv DEF TimerInv

\* Parking the running task keeps the scheduler's invariant.
LEMMA ParkKeeps == TimerInv /\ Park => TimerInv'
<1> SUFFICES ASSUME TimerInv, Park PROVE TimerInv'
  OBVIOUS
<1> USE DEF timeVars
<1>1. /\ state \in [Slots -> States]
      /\ state' = [state EXCEPT ![current] = "waiting_local"]
      /\ state[current] = "running" /\ UNCHANGED phase
  BY DEF TimerInv, FifoInv, Typed, Park, Suspends
<1>2. Typed'
  BY DEF TimerInv, FifoInv, Typed, Park, Suspends, States, LiveStates, Errors
<1>3. FifoInv'
  <2>1. CASE shutting_down
    BY <1>1, <1>2, <2>1 DEF FifoInv, OneRunner, ReadyQueueExact, PassIsSnapshot,
                            shutting_down
  <2>2. CASE ~shutting_down
    BY <1>2, <2>2, SuspendKeepsFifo DEF TimerInv, Park
  <2> QED
    BY <2>1, <2>2
<1>4. KeepsTimers
  BY <1>1 DEF KeepsTimers, Park
<1> QED
  BY <1>1, <1>3, <1>4, KeepsTimersInv DEF TimerInv

\* Waking distinct parked tasks, in order, keeps it, also when the resolution of
\* external signals ends with it.
LEMMA WakeKeeps ==
  ASSUME TimerInv, NEW q \in Seq(Slots), wake_all(q),
         UNCHANGED <<generation, handle, parent, deadline_us, active_count, current,
                     dying, budget, timeVars, agenda>>,
         phase' = phase \/ (phase = "signals" /\ phase' = "timers"),
         error' \in Errors,
         ~shutting_down => /\ IsInjective(q)
                           /\ \A s \in Range(q) : state[s] = "waiting_local"
  PROVE  TimerInv'
<1> USE DEF timeVars
<1>1. /\ state \in [Slots -> States] /\ ready \in Seq(Slots)
      /\ state' = [s \in Slots |-> IF s \in Range(q) THEN "ready" ELSE state[s]]
      /\ ready' = ready \o q /\ (shutting_down <=> shutting_down')
  BY DEF TimerInv, FifoInv, Typed, wake_all, shutting_down
<1>2. Typed'
  BY <1>1 DEF TimerInv, FifoInv, Typed, States, LiveStates, Phases
<1>3. CASE shutting_down
  <2>1. FifoInv'
    BY <1>1, <1>2, <1>3 DEF FifoInv, OneRunner, ReadyQueueExact, PassIsSnapshot,
                            shutting_down
  <2> QED
    BY <1>1, <1>3, <2>1, NoTimersInTeardown DEF TimerInv, shutting_down
<1>4. CASE ~shutting_down
  <2>1. IsInjective(q) /\ \A s \in Range(q) : s \in Slots /\ state[s] = "waiting_local"
    BY <1>4 DEF Range
  <2>2. /\ IsInjective(ready)
        /\ \A s \in Slots : state[s] = "ready" <=> s \in Range(ready)
    BY <1>4 DEF TimerInv, FifoInv, ReadyQueueExact
  <2>3. Range(ready') = Range(ready) \union Range(q) /\ IsInjective(ready')
    <3>1. Range(ready) \cap Range(q) = {}
      BY <2>1, <2>2
    <3> QED
      BY <1>1, <2>1, <2>2, <3>1, ConcatFifo
  <2>4. \A s \in Slots : state'[s] = "ready" <=> s \in Range(ready')
    BY <1>1, <2>2, <2>3
  <2>5. ReadyQueueExact'
    BY <2>3, <2>4 DEF ReadyQueueExact
  <2>6. OneRunner'
    BY <1>1, <1>4, <2>1 DEF TimerInv, FifoInv, OneRunner, shutting_down
  <2>7. PassIsSnapshot'
    <3> SUFFICES ASSUME phase = "pass"
                 PROVE  budget <= Len(ready') /\ agenda = SubSeq(ready', 1, budget)
      BY DEF PassIsSnapshot
    <3>1. budget \in 0..Len(ready) /\ agenda = SubSeq(ready, 1, budget)
      BY DEF TimerInv, FifoInv, PassIsSnapshot, Typed
    <3>2. Len(ready') = Len(ready) + Len(q) /\ Len(q) \in Nat
      BY <1>1
    <3>3. SubSeq(ready', 1, budget) = SubSeq(ready, 1, budget)
      BY <1>1, <3>1, ConcatFifo
    <3> QED
      BY <1>1, <3>1, <3>2, <3>3
  <2>8. KeepsTimers
    BY <1>1, <2>1 DEF KeepsTimers
  <2> QED
    BY <1>1, <1>2, <2>5, <2>6, <2>7, <2>8, KeepsTimersInv DEF TimerInv, FifoInv
<1> QED
  BY <1>3, <1>4

\* A step of the scheduler alone parks and wakes nobody.
LEMMA SchedulerKeepsParked ==
  ASSUME FifoInv, [Next]_vars, ~shutting_down
  PROVE  \A s \in Slots : state'[s] = "waiting_local" <=> state[s] = "waiting_local"
<1> USE DEF slotVars
<1>1. /\ state \in [Slots -> States] /\ parent \in [Slots -> Slots \union {NoSlot}]
      /\ ready \in Seq(Slots)
  BY DEF FifoInv, Typed
<1>2. CASE \/ UNCHANGED vars \/ Tick \/ PollBegin \/ NoExternalSignals \/ PollRejected
           \/ TimersDone \/ PassDone \/ TeardownBegin \/ AwaitRejected \/ Finish
  BY <1>2 DEF vars, Tick, PollBegin, NoExternalSignals, PollRejected, restVars, TimersDone,
              PassDone, TeardownBegin, AwaitRejected, Finish
<1>3. CASE ScheduleTask
  <2>1. CASE UNCHANGED state
    BY <2>1
  <2>2. ASSUME NEW s \in Slots, acquire_slot(s), state' = [state EXCEPT ![s] = "ready"]
        PROVE  \A t \in Slots : state'[t] = "waiting_local" <=> state[t] = "waiting_local"
    BY <1>1, <2>2, AcquiredSlot DEF FifoInv
  <2> QED
    BY <1>3, <2>1, <2>2 DEF ScheduleTask
<1>4. CASE FireTimer
  BY <1>1, <1>4 DEF FireTimer, Soonest, Due, Waiting
<1>5. CASE Resume
  <2>1. Head(ready) \in Slots
    BY <1>1, <1>5 DEF Resume
  <2> QED
    BY <1>1, <1>5, <2>1 DEF Resume
<1>6. CASE Reap
  <2>1. dying \in Slots /\ state[dying] = "running"
    BY <1>6 DEF Reap, FifoInv, Typed, OneRunner, shutting_down
  <2>2. parent[dying] = NoSlot \/ parent[dying] \in Slots
    BY <1>1, <2>1
  <2> QED
    BY <1>1, <1>6, <2>1, <2>2 DEF Reap, Complete
<1>7. CASE Yield \/ (\E d \in Durations : Delay(d)) \/ SuspendUnregistered \/ AwaitChild
  <2>1. current # NoSlot
    BY <1>7 DEF Yield, Delay, SuspendUnregistered, AwaitChild, Suspends
  <2>2. current \in Slots /\ state[current] = "running"
    BY <2>1, RunningTask DEF shutting_down
  <2>3. CASE \E st \in States \ {"waiting_local"} : state' = [state EXCEPT ![current] = st]
    BY <1>1, <2>2, <2>3
  <2>4. ASSUME NEW s \in Slots, AdoptChild(s)
        PROVE  \A t \in Slots : state'[t] = "waiting_local" <=> state[t] = "waiting_local"
    <3>1. state[s] \in {"free", "completed"}
      BY <2>4, AcquiredSlot DEF AdoptChild, FifoInv
    <3> QED
      BY <1>1, <2>2, <2>4, <3>1 DEF AdoptChild
  <2> QED
    BY <1>7, <2>3, <2>4 DEF Yield, Delay, SuspendUnregistered, AwaitChild, Requeue, ArmTimer,
                            States, LiveStates
<1>8. ~Teardown
  BY DEF Teardown, TeardownDetach, TeardownEnd, shutting_down
<1> QED
  BY <1>2, <1>3, <1>4, <1>5, <1>6, <1>7, <1>8
     DEF Next, CoreNext, Poll, TaskSuspends, Exited

\* Nothing leaves ~Scheduler().
LEMMA TeardownIsFinal == [Next]_vars /\ shutting_down => shutting_down'
<1> SUFFICES ASSUME [Next]_vars, shutting_down PROVE shutting_down'
  OBVIOUS
<1> USE DEF shutting_down
<1>1. CASE ScheduleTask \/ PollRejected \/ Tick \/ AwaitRejected \/ UNCHANGED vars
  BY <1>1 DEF ScheduleTask, PollRejected, Tick, AwaitRejected, restVars, vars
<1>2. CASE TaskSuspends
  BY <1>2 DEF TaskSuspends, Yield, Delay, AwaitChild, SuspendUnregistered, Finish, Suspends
<1>3. CASE TeardownBegin \/ Teardown
  BY <1>3 DEF TeardownBegin, Teardown, TeardownDetach, TeardownEnd
<1>4. ~(NoExternalSignals \/ Poll)
  BY DEF NoExternalSignals, Poll, PollBegin, FireTimer, TimersDone, Resume, PassDone, Reap
<1> QED
  BY <1>1, <1>2, <1>3, <1>4 DEF Next, CoreNext, Exited

\* The steps of the scheduler neither leave nor enter the resolution of external
\* signals, but for poll() itself, and ~Scheduler() starts in loop().
LEMMA CoreStages ==
  ASSUME CoreNext
  PROVE  /\ phase = "signals" => phase' = "signals"
         /\ phase' = "signals" => phase \in {"signals", "idle"}
         /\ shutting_down' => shutting_down \/ phase = "idle"
         /\ (current # NoSlot => phase = "pass") => (current' # NoSlot => phase' = "pass")
<1> USE DEF shutting_down
<1>1. CASE ScheduleTask \/ PollRejected \/ AwaitRejected \/ Tick \/ Exited
  BY <1>1 DEF ScheduleTask, PollRejected, AwaitRejected, restVars, Tick, Exited, vars
<1>2. CASE Poll
  BY <1>2 DEF Poll, PollBegin, FireTimer, TimersDone, StartPass, Resume, PassDone, Reap
<1>3. CASE TaskSuspends
  BY <1>3 DEF TaskSuspends, Yield, Delay, AwaitChild, SuspendUnregistered, Finish, Suspends
<1>4. CASE TeardownBegin \/ Teardown
  BY <1>4 DEF TeardownBegin, Teardown, TeardownDetach, TeardownEnd
<1> QED
  BY <1>1, <1>2, <1>3, <1>4 DEF CoreNext
==============================================================================
