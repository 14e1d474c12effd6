--------------------------- MODULE SchedulerProofs ---------------------------
(***************************************************************************)
(* Proofs about the scheduler, for any number of slots, generations and    *)
(* ticks and any durations.                                                *)
(***************************************************************************)
EXTENDS Scheduler, SequenceTheorems, TLAPS

\* A slot that acquire_slot() returns has a generation left to use.
LEMMA AcquiredSlot ==
  ASSUME NEW s \in Slots, Typed, acquire_slot(s)
  PROVE  /\ generation[s] \in 0..MaxGeneration
         /\ generation[s] + 1 \in 0..MaxGeneration
         /\ state[s] \in {"free", "completed"}
  BY SchedulerAssumption DEF Typed, acquire_slot, First, Reusable

\* Occupying an acquired slot keeps the types of what it writes.
LEMMA OccupyTypes ==
  ASSUME NEW s \in Slots, NEW p \in Slots \union {NoSlot},
         Typed, acquire_slot(s), Occupy(s, p)
  PROVE  /\ generation' \in [Slots -> 0..MaxGeneration]
         /\ handle' \in [Slots -> BOOLEAN]
         /\ parent' \in [Slots -> Slots \union {NoSlot}]
         /\ ready' \in Seq(Slots)
         /\ active_count' \in Int
<1>1. generation' \in [Slots -> 0..MaxGeneration]
  BY AcquiredSlot DEF Typed, Occupy, NextGeneration
<1>2. handle' \in [Slots -> BOOLEAN]
  BY DEF Typed, Occupy, NextGeneration
<1>3. parent' \in [Slots -> Slots \union {NoSlot}]
  BY DEF Typed, Occupy, NextGeneration
<1>4. ready' \in Seq(Slots) /\ active_count' \in Int
  BY DEF Typed, Occupy, NextGeneration, ready_push
<1> QED
  BY <1>1, <1>2, <1>3, <1>4

\* The initial state of a Scheduler object is well typed.
LEMMA TypeInit == Init => Typed
  BY SchedulerAssumption
     DEF Init, Typed, Slots, NoSlot, Ticks, States, LiveStates, Phases, Errors

\* schedule() keeps the types: acquire_slot() has refused slots at kMaxGeneration.
LEMMA TypeScheduleTask == Typed /\ ScheduleTask => Typed'
<1> SUFFICES ASSUME Typed, ScheduleTask PROVE Typed'
  OBVIOUS
<1> USE DEF ScheduleTask, timeVars
<1>1. CASE \E s \in Slots : /\ acquire_slot(s)
                            /\ Occupy(s, NoSlot)
                            /\ state' = [state EXCEPT ![s] = "ready"]
                            /\ error' = "none"
  BY <1>1, OccupyTypes DEF Typed, States, LiveStates, Errors
<1>2. CASE UNCHANGED <<state, generation, handle, parent, ready, active_count>>
  BY <1>2 DEF Typed, Errors
<1> QED
  BY <1>1, <1>2

\* Every stage of poll(), and a rejected poll(), keeps the types.
LEMMA TypePoll == Typed /\ (Poll \/ NoExternalSignals \/ PollRejected) => Typed'
<1> SUFFICES ASSUME Typed, Poll \/ NoExternalSignals \/ PollRejected
             PROVE  Typed'
  OBVIOUS
<1> USE DEF slotVars, timeVars, Typed, Phases, Errors
<1>1. CASE PollBegin \/ NoExternalSignals \/ PollRejected
  BY <1>1 DEF PollBegin, NoExternalSignals, PollRejected, restVars
<1>2. CASE FireTimer
  BY <1>2 DEF FireTimer, ready_push, States, LiveStates
<1>3. CASE TimersDone
  BY <1>3 DEF TimersDone, StartPass, recompute_nearest_deadline
<1>4. CASE Resume
  <2>1. agenda' \in Seq(Slots)
    BY <1>4 DEF Resume
  <2>2. state' \in [Slots -> States] /\ current' \in Slots \union {NoSlot}
    <3>1. Head(ready) \in Slots
      BY <1>4 DEF Resume
    <3>2. CASE state[Head(ready)] = "ready"
      BY <1>4, <3>1, <3>2 DEF Resume, States, LiveStates
    <3>3. CASE state[Head(ready)] # "ready"
      BY <1>4, <3>3 DEF Resume
    <3> QED
      BY <3>2, <3>3
  <2>3. ready' \in Seq(Slots) /\ budget' \in Nat
    BY <1>4 DEF Resume
  <2> QED
    BY <1>4, <2>1, <2>2, <2>3 DEF Resume
<1>5. CASE PassDone
  BY <1>5 DEF PassDone
<1>6. CASE Reap
  <2>1. handle' \in [Slots -> BOOLEAN]
    BY <1>6 DEF Reap, Release
  <2>2. parent' \in [Slots -> Slots \union {NoSlot}] /\ active_count' \in Int
    BY <1>6 DEF Reap, Release
  <2>3. state' \in [Slots -> States] /\ ready' \in Seq(Slots)
    <3> DEFINE p == parent[dying]
               waits == p # NoSlot /\ state[p] = "waiting_child"
    <3>1. CASE waits
      <4>1. p \in Slots
        BY <1>6, <3>1 DEF Reap
      <4>2. /\ state' = [state EXCEPT ![dying] = "completed", ![p] = "ready"]
            /\ ready' = ready_push(p)
        BY <1>6, <3>1 DEF Reap, Complete
      <4> HIDE DEF p, waits
      <4>3. state' \in [Slots -> States]
        BY <4>2 DEF States, LiveStates
      <4>4. ready' \in Seq(Slots)
        BY <4>1, <4>2 DEF ready_push
      <4> QED
        BY <4>3, <4>4
    <3>2. CASE ~waits
      BY <1>6, <3>2 DEF Reap, Complete, States, LiveStates
    <3> QED
      BY <3>1, <3>2
  <2> QED
    BY <1>6, <2>1, <2>2, <2>3 DEF Reap
<1> QED
  BY <1>1, <1>2, <1>3, <1>4, <1>5, <1>6 DEF Poll

\* Whatever the running task awaits keeps the types: a deadline is stored only
\* when add_overflows() is false.
LEMMA TypeTask == Typed /\ (TaskSuspends \/ AwaitRejected) => Typed'
<1> SUFFICES ASSUME Typed, TaskSuspends \/ AwaitRejected PROVE Typed'
  OBVIOUS
<1> USE DEF slotVars, timeVars, Typed, Errors
<1>1. CASE Yield
  BY <1>1 DEF Yield, Suspends, Requeue, ready_push, States, LiveStates
<1>2. ASSUME NEW d \in Durations, Delay(d) PROVE Typed'
  <2>1. CASE d = 0 \/ add_overflows(d)
    <3>1. Requeue /\ UNCHANGED <<deadline_us, nearest_deadline>>
      BY <1>2, <2>1 DEF Delay
    <3>2. error' \in Errors
      BY <1>2, <2>1 DEF Delay
    <3> QED
      BY <1>2, <3>1, <3>2 DEF Delay, Suspends, Requeue, ready_push, States, LiveStates
  <2>2. CASE ~add_overflows(d) /\ d # 0
    <3>1. now + d \in Ticks
      BY <2>2, SchedulerAssumption DEF add_overflows, Ticks
    <3> QED
      BY <1>2, <2>2, <3>1 DEF Delay, Suspends, ArmTimer, States, LiveStates
  <2> QED
    BY <2>1, <2>2
<1>3. CASE AwaitChild
  <2>1. CASE \E s \in Slots : AdoptChild(s)
    BY <1>3, <2>1, OccupyTypes
       DEF AwaitChild, AdoptChild, Suspends, States, LiveStates
  <2>2. CASE ~ \E s \in Slots : AdoptChild(s)
    <3>1. Requeue /\ error' = "task_limit" /\ Suspends
          /\ UNCHANGED <<generation, handle, parent, active_count, deadline_us, timeVars>>
      BY <1>3, <2>2 DEF AwaitChild
    <3> QED
      BY <3>1 DEF Suspends, Requeue, ready_push, States, LiveStates
  <2> QED
    BY <2>1, <2>2
<1>4. CASE SuspendUnregistered
  BY <1>4 DEF SuspendUnregistered, Suspends, States, LiveStates
<1>5. CASE Finish \/ AwaitRejected
  BY <1>5 DEF Finish, AwaitRejected, restVars
<1> QED
  BY <1>1, <1>2, <1>3, <1>4, <1>5 DEF TaskSuspends

\* ~Scheduler() keeps the types.
LEMMA TypeTeardown == Typed /\ (TeardownBegin \/ Teardown) => Typed'
<1> SUFFICES ASSUME Typed, TeardownBegin \/ Teardown PROVE Typed'
  OBVIOUS
<1> USE DEF slotVars, timeVars, Typed, Phases, Errors
<1>1. CASE TeardownBegin \/ TeardownEnd
  BY <1>1 DEF TeardownBegin, TeardownEnd
<1>2. CASE TeardownDetach
  BY <1>2 DEF TeardownDetach, Detach, States, LiveStates
<1> QED
  BY <1>1, <1>2 DEF Teardown

\* The clock stays within tick_t.
LEMMA TypeTick == Typed /\ Tick => Typed'
<1> SUFFICES ASSUME Typed, Tick PROVE Typed'
  OBVIOUS
<1>1. clock' \in Ticks
  BY SchedulerAssumption DEF Tick, Typed, Ticks
<1> QED
  BY <1>1 DEF Tick, Typed, slotVars

\* Every step of the scheduler keeps the types.
LEMMA TypeNext == Typed /\ [Next]_vars => Typed'
<1> SUFFICES ASSUME Typed, [Next]_vars PROVE Typed'
  OBVIOUS
<1>1. CASE UNCHANGED vars
  BY <1>1 DEF Typed, vars, slotVars, timeVars
<1> QED
  BY <1>1, TypeScheduleTask, TypePoll, TypeTask, TypeTeardown, TypeTick
     DEF Next, CoreNext, Exited

-----------------------------------------------------------------------------
(* The ready FIFO as a sequence.                                           *)

\* Pushing a slot that is not queued.
LEMMA PushFifo ==
  ASSUME NEW q \in Seq(Slots), NEW s \in Slots
  PROVE  /\ Range(Append(q, s)) = Range(q) \union {s}
         /\ IsInjective(q) /\ s \notin Range(q) => IsInjective(Append(q, s))
         /\ \A n \in 0..Len(q) : SubSeq(Append(q, s), 1, n) = SubSeq(q, 1, n)
<1> USE DEF Range, IsInjective
<1>1. /\ Append(q, s) \in Seq(Slots)
      /\ DOMAIN q = 1..Len(q) /\ Len(q) \in Nat
      /\ DOMAIN Append(q, s) = 1..(Len(q) + 1)
      /\ Len(Append(q, s)) = Len(q) + 1
      /\ \A i \in 1..Len(q) : Append(q, s)[i] = q[i]
      /\ Append(q, s)[Len(q) + 1] = s
  OBVIOUS
<1>2. Range(Append(q, s)) = Range(q) \union {s}
  BY <1>1
<1>3. IsInjective(q) /\ s \notin Range(q) => IsInjective(Append(q, s))
  BY <1>1
<1>4. ASSUME NEW n \in 0..Len(q)
      PROVE  SubSeq(Append(q, s), 1, n) = SubSeq(q, 1, n)
  <2>1. /\ \A i \in 1..n : q[i] \in Slots
        /\ \A i \in 1..n : Append(q, s)[i] \in Slots
    BY <1>1
  <2>2. /\ SubSeq(q, 1, n) \in Seq(Slots) /\ Len(SubSeq(q, 1, n)) = n
        /\ SubSeq(Append(q, s), 1, n) \in Seq(Slots)
        /\ Len(SubSeq(Append(q, s), 1, n)) = n
        /\ \A i \in 1..n : SubSeq(q, 1, n)[i] = q[i]
        /\ \A i \in 1..n : SubSeq(Append(q, s), 1, n)[i] = Append(q, s)[i]
    BY <1>1, <2>1, SubSeqProperties
  <2> QED
    BY <1>1, <2>2
<1> QED
  BY <1>2, <1>3, <1>4

\* Popping the head.
LEMMA PopFifo ==
  ASSUME NEW q \in Seq(Slots), q # << >>
  PROVE  /\ Head(q) \in Range(q)
         /\ Tail(q) \in Seq(Slots)
         /\ Len(Tail(q)) = Len(q) - 1
         /\ IsInjective(q) => /\ IsInjective(Tail(q))
                              /\ Range(Tail(q)) = Range(q) \ {Head(q)}
<1> USE DEF Range, IsInjective
<1>1. /\ DOMAIN q = 1..Len(q) /\ Len(q) \in Nat /\ Len(q) > 0
      /\ Head(q) = q[1]
      /\ Tail(q) \in Seq(Slots)
      /\ Len(Tail(q)) = Len(q) - 1
      /\ DOMAIN Tail(q) = 1..(Len(q) - 1)
      /\ \A i \in 1..(Len(q) - 1) : Tail(q)[i] = q[i + 1]
  OBVIOUS
<1>2. Head(q) \in Range(q)
  BY <1>1
<1>3. ASSUME IsInjective(q) PROVE IsInjective(Tail(q))
  BY <1>1, <1>3
<1>4. ASSUME IsInjective(q) PROVE Range(Tail(q)) = Range(q) \ {Head(q)}
  <2>1. ASSUME NEW x \in Range(Tail(q)) PROVE x \in Range(q) \ {Head(q)}
    BY <1>1, <1>4
  <2>2. ASSUME NEW x \in Range(q) \ {Head(q)} PROVE x \in Range(Tail(q))
    <3>1. PICK i \in 1..Len(q) : x = q[i]
      BY <1>1
    <3>2. i - 1 \in 1..(Len(q) - 1) /\ Tail(q)[i - 1] = q[i]
      BY <1>1, <3>1
    <3> QED
      BY <1>1, <3>1, <3>2
  <2> QED
    BY <2>1, <2>2
<1> QED
  BY <1>1, <1>2, <1>3, <1>4

\* What is left of the first n entries when the head is popped.
LEMMA PopSnapshot ==
  ASSUME NEW q \in Seq(Slots), NEW n \in 1..Len(q)
  PROVE  SubSeq(SubSeq(q, 1, n), 2, Len(SubSeq(q, 1, n))) = SubSeq(Tail(q), 1, n - 1)
<1> DEFINE a == SubSeq(q, 1, n)
<1>1. q # << >> /\ DOMAIN q = 1..Len(q) /\ Len(q) \in Nat
  OBVIOUS
<1>2. /\ Len(Tail(q)) = Len(q) - 1
      /\ \A i \in 1..(Len(q) - 1) : Tail(q)[i] = q[i + 1] /\ Tail(q)[i] \in Slots
  BY <1>1
<1>3. /\ a \in Seq(Slots) /\ Len(a) = n
      /\ \A i \in 1..n : a[i] = q[i]
  BY <1>1, SubSeqProperties
<1> HIDE DEF a
<1>4. /\ SubSeq(a, 2, n) \in Seq(Slots) /\ Len(SubSeq(a, 2, n)) = n - 1
      /\ \A i \in 1..(n - 1) : SubSeq(a, 2, n)[i] = a[i + 1]
  <2>1. \A i \in 2..n : a[i] \in Slots
    BY <1>3
  <2> QED
    BY <2>1, SubSeqProperties
<1>5. /\ SubSeq(Tail(q), 1, n - 1) \in Seq(Slots)
      /\ Len(SubSeq(Tail(q), 1, n - 1)) = n - 1
      /\ \A i \in 1..(n - 1) : SubSeq(Tail(q), 1, n - 1)[i] = Tail(q)[i]
  <2>1. \A i \in 1..(n - 1) : Tail(q)[i] \in Slots
    BY <1>2
  <2> QED
    BY <2>1, SubSeqProperties
<1>6. \A i \in 1..(n - 1) : SubSeq(a, 2, n)[i] = SubSeq(Tail(q), 1, n - 1)[i]
  BY <1>2, <1>3, <1>4, <1>5
<1>7. SubSeq(a, 2, n) = SubSeq(Tail(q), 1, n - 1)
  BY <1>4, <1>5, <1>6
<1> QED
  BY <1>3, <1>7 DEF a

-----------------------------------------------------------------------------
(* One runner, an exact FIFO and the snapshot of a pass.                   *)

\* Each of the three needs the others: a task is pushed only because it is known
\* not to be queued, which OneRunner says of the running task.
FifoInv == Typed /\ OneRunner /\ ReadyQueueExact /\ PassIsSnapshot

\* The step makes s ready, pushes it, and makes no other task ready or not.
Pushes(s) ==
  /\ ready' = ready_push(s)
  /\ \A t \in Slots : state'[t] = "ready" <=> t = s \/ state[t] = "ready"

\* Pushing a slot that becomes ready keeps the ready FIFO exact.
LEMMA PushKeepsFifo ==
  ASSUME Typed, ReadyQueueExact, ~shutting_down,
         NEW s \in Slots, state[s] # "ready", Pushes(s)
  PROVE  ReadyQueueExact'
<1>1. s \notin Range(ready) /\ IsInjective(ready)
  BY DEF ReadyQueueExact
<1>2. /\ Range(ready') = Range(ready) \union {s}
      /\ IsInjective(ready')
  BY <1>1, PushFifo DEF Pushes, ready_push, Typed
<1>3. \A t \in Slots : state'[t] = "ready" <=> t \in Range(ready')
  BY <1>2 DEF Pushes, ReadyQueueExact
<1> QED
  BY <1>2, <1>3 DEF ReadyQueueExact

\* Pushing at the tail leaves alone what run_pass() has still to pop.
LEMMA PushKeepsSnapshot ==
  ASSUME Typed, PassIsSnapshot, NEW s \in Slots, ready' = ready_push(s),
         UNCHANGED <<phase, budget, agenda>>
  PROVE  PassIsSnapshot'
<1> SUFFICES ASSUME phase = "pass"
             PROVE  budget <= Len(ready') /\ agenda = SubSeq(ready', 1, budget)
  BY DEF PassIsSnapshot
<1>1. budget \in 0..Len(ready) /\ agenda = SubSeq(ready, 1, budget)
  BY DEF PassIsSnapshot, Typed
<1>2. ready' = Append(ready, s) /\ Len(ready') = Len(ready) + 1
  BY DEF ready_push, Typed
<1>3. SubSeq(ready', 1, budget) = SubSeq(ready, 1, budget)
  BY <1>1, <1>2, PushFifo DEF Typed
<1> QED
  BY <1>1, <1>2, <1>3 DEF Typed

\* An empty FIFO is exact.
LEMMA FifoInit == Init => FifoInv
<1> SUFFICES ASSUME Init PROVE FifoInv
  OBVIOUS
<1>1. Typed
  BY TypeInit
<1>2. OneRunner
  BY DEF Init, OneRunner, shutting_down, NoSlot, Slots
<1>3. ReadyQueueExact
  BY DEF Init, ReadyQueueExact, IsInjective, Range
<1>4. PassIsSnapshot
  BY DEF Init, PassIsSnapshot
<1> QED
  BY <1>1, <1>2, <1>3, <1>4 DEF FifoInv

\* schedule() queues an acquired slot, which was free or completed and so not queued.
LEMMA FifoScheduleTask == FifoInv /\ ScheduleTask => FifoInv'
<1> SUFFICES ASSUME FifoInv, ScheduleTask PROVE FifoInv'
  OBVIOUS
<1> USE DEF FifoInv
<1>1. Typed'
  BY TypeScheduleTask
<1>2. UNCHANGED <<current, phase, dying, budget, agenda>>
  BY DEF ScheduleTask
<1>3. CASE ~shutting_down /\ \E s \in Slots : /\ acquire_slot(s)
                                             /\ Occupy(s, NoSlot)
                                             /\ state' = [state EXCEPT ![s] = "ready"]
  <2>1. PICK s \in Slots : /\ acquire_slot(s)
                           /\ Occupy(s, NoSlot)
                           /\ state' = [state EXCEPT ![s] = "ready"]
    BY <1>3
  <2>2. state[s] \in {"free", "completed"}
    BY <2>1, AcquiredSlot
  <2>3. Pushes(s)
    BY <2>1 DEF Pushes, Occupy, NextGeneration, Typed
  <2>4. OneRunner'
    BY <1>2, <2>1, <2>2 DEF OneRunner, shutting_down, Typed
  <2> QED
    BY <1>1, <1>2, <1>3, <2>2, <2>3, <2>4, PushKeepsFifo, PushKeepsSnapshot DEF Pushes
<1>4. CASE UNCHANGED <<state, ready>>
  BY <1>1, <1>2, <1>4 DEF OneRunner, ReadyQueueExact, PassIsSnapshot, shutting_down
<1> QED
  BY <1>3, <1>4 DEF ScheduleTask

\* Sampling the clock, resolving signals and firing timers keep the FIFO invariant.
LEMMA FifoPollStages ==
  FifoInv /\ (PollBegin \/ NoExternalSignals \/ PollRejected \/ FireTimer \/ TimersDone)
    => FifoInv'
<1> SUFFICES ASSUME FifoInv,
                    PollBegin \/ NoExternalSignals \/ PollRejected \/ FireTimer
                      \/ TimersDone
             PROVE  FifoInv'
  OBVIOUS
<1> USE DEF FifoInv, slotVars
<1>1. Typed'
  BY TypePoll DEF Poll
<1>2. CASE PollBegin \/ NoExternalSignals \/ PollRejected
  BY <1>1, <1>2 DEF PollBegin, NoExternalSignals, PollRejected, restVars, OneRunner,
                    ReadyQueueExact, PassIsSnapshot, shutting_down
<1>3. CASE FireTimer
  <2>1. PICK s \in Slots : /\ Soonest(s)
                           /\ state' = [state EXCEPT ![s] = "ready"]
                           /\ ready' = ready_push(s)
    BY <1>3 DEF FireTimer
  <2>2. state[s] = "waiting_timer"
    BY <2>1 DEF Soonest, Due, Waiting
  <2>3. Pushes(s)
    BY <2>1 DEF Pushes, Typed
  <2>4. phase = "timers" /\ UNCHANGED <<current, dying, phase, budget, agenda>>
    BY <1>3 DEF FireTimer
  <2>5. OneRunner'
    BY <2>1, <2>2, <2>4 DEF OneRunner, shutting_down, Typed
  <2> QED
    BY <1>1, <2>2, <2>3, <2>4, <2>5, PushKeepsFifo, PushKeepsSnapshot
       DEF Pushes, shutting_down
<1>4. CASE TimersDone
  <2>1. /\ phase = "timers" /\ phase' = "pass"
        /\ budget' = Len(ready) /\ agenda' = ready
        /\ UNCHANGED <<state, ready, current, dying>>
    BY <1>4 DEF TimersDone, StartPass
  <2>2. SubSeq(ready, 1, Len(ready)) = ready
    BY DEF Typed
  <2> QED
    BY <1>1, <2>1, <2>2
       DEF OneRunner, ReadyQueueExact, PassIsSnapshot, shutting_down, Typed
<1> QED
  BY <1>2, <1>3, <1>4

\* ready_pop() and resume() keep it: the head leaves both FIFO and snapshot.
LEMMA FifoResume == FifoInv /\ Resume => FifoInv'
<1> SUFFICES ASSUME FifoInv, Resume PROVE FifoInv'
  OBVIOUS
<1> USE DEF FifoInv
<1> DEFINE s == Head(ready)
<1>1. Typed'
  BY TypePoll DEF Poll
<1>2. /\ ready # << >> /\ ready \in Seq(Slots) /\ ready' = Tail(ready)
      /\ phase = "pass" /\ ~shutting_down /\ UNCHANGED <<phase, dying>>
      /\ current = NoSlot /\ dying = NoSlot
  BY DEF Resume, Typed, shutting_down
<1>3. s \in Slots /\ s \in Range(ready)
  BY <1>2, PopFifo
<1>4. state[s] = "ready" /\ IsInjective(ready)
  BY <1>2, <1>3 DEF ReadyQueueExact
<1>5. state' = [state EXCEPT ![s] = "running"] /\ current' = s
  BY <1>4 DEF Resume
<1>6. IsInjective(ready') /\ Range(ready') = Range(ready) \ {s}
  BY <1>2, <1>4, PopFifo
<1> HIDE DEF s
<1>7. ReadyQueueExact'
  BY <1>2, <1>3, <1>5, <1>6 DEF ReadyQueueExact, Typed
<1>8. OneRunner'
  BY <1>2, <1>3, <1>5 DEF OneRunner, Typed, NoSlot, Slots
<1>9. PassIsSnapshot'
  <2>1. budget \in 1..Len(ready) /\ agenda = SubSeq(ready, 1, budget)
    BY <1>2 DEF Resume, PassIsSnapshot, Typed
  <2>2. agenda' = SubSeq(Tail(ready), 1, budget - 1) /\ budget' = budget - 1
    BY <2>1, PopSnapshot DEF Resume, Typed
  <2>3. budget' <= Len(ready')
    BY <1>2, <2>1, PopFifo DEF Resume, Typed
  <2> QED
    BY <1>2, <2>2, <2>3 DEF PassIsSnapshot
<1> QED
  BY <1>1, <1>7, <1>8, <1>9

\* The end of run_pass() keeps it.
LEMMA FifoPassDone == FifoInv /\ PassDone => FifoInv'
<1> SUFFICES ASSUME FifoInv, PassDone PROVE FifoInv'
  OBVIOUS
<1>1. Typed'
  BY TypePoll DEF Poll, FifoInv
<1> QED
  BY <1>1 DEF FifoInv, PassDone, slotVars, OneRunner, ReadyQueueExact,
              PassIsSnapshot, shutting_down

\* Destroying a finished frame and queueing its parent keep it: the parent was
\* waiting_child, so it was not queued.
LEMMA FifoReap == FifoInv /\ Reap => FifoInv'
<1> SUFFICES ASSUME FifoInv, Reap PROVE FifoInv'
  OBVIOUS
<1> USE DEF FifoInv
<1> DEFINE p == parent[dying]
           waits == p # NoSlot /\ state[p] = "waiting_child"
<1>1. Typed'
  BY TypePoll DEF Poll
<1>2. /\ phase = "pass" /\ ~shutting_down /\ dying \in Slots /\ dying' = NoSlot
      /\ UNCHANGED <<phase, current, budget, agenda>>
      /\ state[dying] = "running" /\ current = NoSlot
  BY DEF Reap, Typed, OneRunner, shutting_down
<1>3. CASE waits
  <2>1. p \in Slots /\ state[p] = "waiting_child"
    BY <1>2, <1>3 DEF Typed
  <2>2. /\ state' = [state EXCEPT ![dying] = "completed", ![p] = "ready"]
        /\ ready' = ready_push(p)
    BY <1>3 DEF Reap, Complete
  <2> HIDE DEF p, waits
  <2>3. Pushes(p)
    BY <1>2, <2>1, <2>2 DEF Pushes, Typed
  <2>4. OneRunner'
    BY <1>2, <2>1, <2>2 DEF OneRunner, Typed, NoSlot, Slots
  <2> QED
    BY <1>1, <1>2, <2>1, <2>3, <2>4, PushKeepsFifo, PushKeepsSnapshot DEF Pushes
<1>4. CASE ~waits
  <2>1. state' = [state EXCEPT ![dying] = "completed"] /\ UNCHANGED ready
    BY <1>4 DEF Reap, Complete
  <2>2. OneRunner'
    BY <1>2, <2>1 DEF OneRunner, Typed, NoSlot, Slots
  <2>3. ReadyQueueExact'
    BY <1>2, <2>1 DEF ReadyQueueExact, Typed
  <2>4. PassIsSnapshot'
    BY <1>2, <2>1 DEF PassIsSnapshot
  <2> QED
    BY <1>1, <2>2, <2>3, <2>4
<1> QED
  BY <1>3, <1>4

\* What is known while a task runs.
LEMMA RunningTask ==
  ASSUME FifoInv, current # NoSlot, phase # "teardown", phase # "gone"
  PROVE  /\ current \in Slots /\ state[current] = "running"
         /\ dying = NoSlot /\ phase = "pass" /\ ~shutting_down
  BY DEF FifoInv, Typed, OneRunner, shutting_down

\* When the running task suspends nothing runs any more.
LEMMA SuspendEndsRunning ==
  ASSUME FifoInv, ~shutting_down, Suspends,
         NEW st \in States \ {"running"}, state' = [state EXCEPT ![current] = st]
  PROVE  OneRunner'
<1>1. current \in Slots /\ dying = NoSlot
  BY RunningTask DEF Suspends, shutting_down
<1>2. ASSUME NEW s \in Slots
      PROVE  state'[s] # "running"
  <2>1. state \in [Slots -> States] /\ s # NoSlot
    BY DEF FifoInv, Typed, Slots, NoSlot
  <2>2. s # current => state[s] # "running"
    BY <1>1, <2>1 DEF FifoInv, OneRunner
  <2> QED
    BY <2>1, <2>2
<1>3. current' = NoSlot /\ dying' = NoSlot
  BY <1>1 DEF Suspends
<1>4. \A s \in Slots : s \notin {current', dying'}
  BY <1>3 DEF Slots, NoSlot
<1> QED
  BY <1>2, <1>3, <1>4 DEF OneRunner

\* The running task suspends in a state other than ready or running.
LEMMA SuspendKeepsFifo ==
  ASSUME FifoInv, Typed', ~shutting_down, Suspends,
         NEW st \in {"waiting_timer", "waiting_local", "suspended"},
         state' = [state EXCEPT ![current] = st], UNCHANGED ready
  PROVE  FifoInv'
<1>1. current \in Slots /\ state[current] = "running" /\ dying = NoSlot
  BY RunningTask DEF Suspends, shutting_down
<1>2. OneRunner'
  BY SuspendEndsRunning DEF States, LiveStates
<1>3. ReadyQueueExact'
  BY <1>1 DEF FifoInv, ReadyQueueExact, Suspends, Typed, shutting_down
<1>4. PassIsSnapshot'
  BY DEF FifoInv, PassIsSnapshot, Suspends
<1> QED
  BY <1>2, <1>3, <1>4 DEF FifoInv

\* The running task suspends and is queued again.
LEMMA RequeueKeepsFifo ==
  ASSUME FifoInv, Typed', ~shutting_down, Suspends, Requeue
  PROVE  FifoInv'
<1>1. current \in Slots /\ state[current] = "running" /\ dying = NoSlot
  BY RunningTask DEF Suspends, shutting_down
<1>2. Pushes(current)
  BY <1>1 DEF Pushes, Requeue, FifoInv, Typed
<1>3. OneRunner'
  BY SuspendEndsRunning DEF Requeue, States, LiveStates
<1> QED
  BY <1>1, <1>2, <1>3, PushKeepsFifo, PushKeepsSnapshot DEF FifoInv, Suspends, Pushes

\* Whatever the running task awaits keeps the FIFO invariant.
LEMMA FifoTask ==
  FifoInv /\ ~shutting_down /\ (TaskSuspends \/ AwaitRejected) => FifoInv'
<1> SUFFICES ASSUME FifoInv, ~shutting_down, TaskSuspends \/ AwaitRejected
             PROVE  FifoInv'
  OBVIOUS
<1>1. Typed'
  BY TypeTask DEF FifoInv
<1>2. CASE Yield
  BY <1>1, <1>2, RequeueKeepsFifo DEF Yield
<1>3. ASSUME NEW d \in Durations, Delay(d) PROVE FifoInv'
  <2>1. Suspends
    BY <1>3 DEF Delay
  <2>2. CASE Requeue
    BY <1>1, <2>1, <2>2, RequeueKeepsFifo
  <2>3. CASE ArmTimer(d) /\ UNCHANGED ready
    BY <1>1, <2>1, <2>3, SuspendKeepsFifo DEF ArmTimer
  <2> QED
    BY <1>3, <2>2, <2>3 DEF Delay
<1>4. CASE AwaitChild
  <2>1. Suspends
    BY <1>4 DEF AwaitChild
  <2>2. CASE Requeue
    BY <1>1, <2>1, <2>2, RequeueKeepsFifo
  <2>3. ASSUME NEW s \in Slots, AdoptChild(s) PROVE FifoInv'
    <3>1. current \in Slots /\ state[current] = "running" /\ dying = NoSlot
      BY <2>1, RunningTask DEF Suspends, shutting_down
    <3>2. state[s] \in {"free", "completed"}
      BY <2>3, AcquiredSlot DEF AdoptChild, FifoInv
    <3>3. /\ state' = [state EXCEPT ![s] = "ready", ![current] = "waiting_child"]
          /\ ready' = ready_push(s)
      BY <2>3 DEF AdoptChild, Occupy, NextGeneration
    <3>4. Pushes(s)
      BY <3>1, <3>2, <3>3 DEF Pushes, FifoInv, Typed
    <3>5. OneRunner'
      BY <2>1, <3>1, <3>2, <3>3
         DEF FifoInv, OneRunner, Suspends, Typed, NoSlot, Slots, shutting_down
    <3> QED
      BY <1>1, <2>1, <3>2, <3>4, <3>5, PushKeepsFifo, PushKeepsSnapshot
         DEF FifoInv, Suspends, Pushes
  <2> QED
    BY <1>4, <2>2, <2>3 DEF AwaitChild
<1>5. CASE SuspendUnregistered
  BY <1>1, <1>5, SuspendKeepsFifo DEF SuspendUnregistered
<1>6. CASE Finish
  BY <1>1, <1>6, RunningTask DEF Finish, slotVars, FifoInv, OneRunner, ReadyQueueExact,
                                 PassIsSnapshot, shutting_down, NoSlot
<1>7. CASE AwaitRejected
  BY <1>1, <1>7 DEF AwaitRejected, restVars, slotVars, FifoInv, OneRunner, ReadyQueueExact,
                    PassIsSnapshot, shutting_down
<1> QED
  BY <1>2, <1>3, <1>4, <1>5, <1>6, <1>7 DEF TaskSuspends

\* ~Scheduler() keeps it, since the FIFO is abandoned there.
LEMMA FifoTeardown == FifoInv /\ (TeardownBegin \/ Teardown) => FifoInv'
<1> SUFFICES ASSUME FifoInv, TeardownBegin \/ Teardown PROVE FifoInv'
  OBVIOUS
<1>1. Typed'
  BY TypeTeardown DEF FifoInv
<1>2. phase' \in {"teardown", "gone"}
  BY DEF TeardownBegin, Teardown, TeardownDetach, Detach, TeardownEnd
<1> QED
  BY <1>1, <1>2 DEF FifoInv, OneRunner, ReadyQueueExact, PassIsSnapshot, shutting_down

\* The FIFO invariant is inductive.
LEMMA FifoNext == FifoInv /\ [Next]_vars => FifoInv'
<1> SUFFICES ASSUME FifoInv, [Next]_vars PROVE FifoInv'
  OBVIOUS
<1>1. Typed'
  BY TypeNext DEF FifoInv
<1>2. CASE UNCHANGED vars \/ Tick
  BY <1>1, <1>2 DEF Tick, vars, slotVars, FifoInv, OneRunner, ReadyQueueExact,
                    PassIsSnapshot, shutting_down
<1>3. CASE TaskSuspends \/ AwaitRejected
  <2>1. CASE ~shutting_down
    BY <1>3, <2>1, FifoTask
  <2>2. CASE shutting_down
    <3>1. UNCHANGED phase
      BY <1>3 DEF TaskSuspends, AwaitRejected, restVars, Yield, Delay, AwaitChild,
                  SuspendUnregistered, Finish, Suspends
    <3> QED
      BY <1>1, <2>2, <3>1 DEF FifoInv, OneRunner, ReadyQueueExact, PassIsSnapshot,
                              shutting_down
  <2> QED
    BY <2>1, <2>2
<1> QED
  BY <1>2, <1>3, FifoScheduleTask, FifoPollStages, FifoResume, FifoPassDone, FifoReap,
     FifoTeardown DEF Next, CoreNext, Poll, Exited

\* The ready FIFO is exact in every execution: no ready task is lost or queued
\* twice, whatever mix of create_task(), yields, delays, child awaits, timers and
\* completions the tasks and their destructors produce.
THEOREM FifoExact == Spec => []ReadyQueueExact
<1>1. FifoInv => ReadyQueueExact
  BY DEF FifoInv
<1> QED
  BY <1>1, FifoInit, FifoNext, PTL DEF Spec

\* run_pass() resumes exactly the tasks that were ready when it started, in order.
THEOREM PassesAreSnapshots == Spec => []PassIsSnapshot
<1>1. FifoInv => PassIsSnapshot
  BY DEF FifoInv
<1> QED
  BY <1>1, FifoInit, FifoNext, PTL DEF Spec

\* At most one task runs, and only inside poll().
THEOREM SingleRunner == Spec => []OneRunner
<1>1. FifoInv => OneRunner
  BY DEF FifoInv
<1> QED
  BY <1>1, FifoInit, FifoNext, PTL DEF Spec
==============================================================================
