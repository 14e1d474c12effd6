----------------------------- MODULE SlotProofs ------------------------------
(***************************************************************************)
(* Proofs about what slots own: coroutine frames, the link from an awaited *)
(* child to its parent, TaskHandles, and teardown.                         *)
(***************************************************************************)
EXTENDS SchedulerProofs, FiniteSetTheorems

\* A frame belongs to a live task, in ~Scheduler() too.
FramesAreLive == \A s \in Slots : handle[s] => state[s] \in LiveStates

\* ~Scheduler() runs in no task.
TeardownIsIdle == shutting_down => current = NoSlot

\* No slot that the loop of ~Scheduler() has passed owns a frame.
SweptSlotsEmpty ==
  phase = "teardown" => \A s \in Slots : s <= dying => ~handle[s]

\* active_count_ never leaves the range of a count of slots, although ~Scheduler()
\* stops counting.
CountInRange == active_count \in 0..MaxTasks

\* FramesCounted and ChildLink say nothing of ~Scheduler(), which they need not
\* survive; FramesAreLive and SweptSlotsEmpty do, and give TeardownReleasesFrames:
\* the slots behind the loop are empty and no live slot is ahead of it.
SlotInv ==
  /\ FifoInv
  /\ FramesCounted
  /\ FramesAreLive
  /\ CountInRange
  /\ ChildLink
  /\ NoAwaitCycle
  /\ TeardownIsIdle
  /\ SweptSlotsEmpty
  /\ TeardownReleasesFrames
  /\ DetachedIsTombstone

-----------------------------------------------------------------------------
(* The kinds of step.                                                      *)

\* Tasks change state, but none becomes or stops being live or waiting_child.
Moves ==
  /\ UNCHANGED <<generation, handle, parent, active_count>>
  /\ \A s \in Slots : \/ state'[s] = state[s]
                      \/ /\ state[s] \in LiveStates \ {"waiting_child"}
                         /\ state'[s] \in LiveStates \ {"waiting_child"}

\* No step but TeardownBegin enters ~Scheduler(), and none leaves it.
SamePhaseOfLife ==
  /\ shutting_down <=> shutting_down'
  /\ shutting_down => UNCHANGED <<state, phase, dying, current>>

\* schedule() succeeds with slot s.
Schedules(s) ==
  /\ acquire_slot(s)
  /\ Occupy(s, NoSlot)
  /\ state' = [state EXCEPT ![s] = "ready"]

\* schedule() either occupies a slot outside ~Scheduler() or moves no task.
LEMMA ScheduleKinds ==
  ASSUME FifoInv, ScheduleTask
  PROVE  /\ SamePhaseOfLife
         /\ Moves \/ (~shutting_down /\ \E s \in Slots : Schedules(s))
<1>1. UNCHANGED <<phase, dying, current>>
  BY DEF ScheduleTask
<1>2. CASE UNCHANGED <<state, generation, handle, parent, active_count>>
  BY <1>1, <1>2 DEF SamePhaseOfLife, Moves, shutting_down
<1>3. CASE ~shutting_down /\ \E s \in Slots : Schedules(s)
  BY <1>1, <1>3 DEF SamePhaseOfLife, shutting_down
<1> QED
  BY <1>2, <1>3 DEF ScheduleTask, Schedules

\* The stages of poll() other than Reap only move tasks: a timer's owner and the
\* head of the FIFO are live and not waiting_child.
LEMMA PollKinds ==
  ASSUME FifoInv,
         PollBegin \/ NoExternalSignals \/ PollRejected \/ FireTimer \/ TimersDone
           \/ Resume \/ PassDone
  PROVE  SamePhaseOfLife /\ Moves
<1> USE DEF SamePhaseOfLife, Moves, shutting_down, slotVars
<1>1. CASE PollBegin \/ NoExternalSignals \/ PollRejected \/ TimersDone \/ PassDone
  BY <1>1 DEF PollBegin, NoExternalSignals, PollRejected, restVars, TimersDone, StartPass,
              PassDone
<1>2. CASE FireTimer
  <2>1. PICK s \in Slots : Soonest(s) /\ state' = [state EXCEPT ![s] = "ready"]
    BY <1>2 DEF FireTimer
  <2>2. state[s] = "waiting_timer" /\ state \in [Slots -> States]
    BY <2>1 DEF Soonest, Due, Waiting, FifoInv, Typed
  <2> QED
    BY <1>2, <2>1, <2>2 DEF FireTimer, LiveStates
<1>3. CASE Resume
  <2>1. ready # << >> /\ ready \in Seq(Slots) /\ state \in [Slots -> States]
    BY <1>3 DEF Resume, FifoInv, Typed
  <2>2. Head(ready) \in Slots
    BY <2>1
  <2>3. CASE state[Head(ready)] = "ready"
    BY <1>3, <2>1, <2>2, <2>3 DEF Resume, LiveStates
  <2>4. CASE state[Head(ready)] # "ready"
    BY <1>3, <2>4 DEF Resume
  <2> QED
    BY <2>3, <2>4
<1> QED
  BY <1>1, <1>2, <1>3

\* A task that gives up the processor either starts a child or is only moved.
LEMMA TaskKinds ==
  ASSUME SlotInv, TaskSuspends \/ AwaitRejected
  PROVE  /\ SamePhaseOfLife /\ ~shutting_down
         /\ Moves \/ (Suspends /\ \E s \in Slots : AdoptChild(s))
<1> USE DEF slotVars
<1>1. /\ UNCHANGED phase
      /\ current # NoSlot
  BY DEF TaskSuspends, AwaitRejected, restVars, Yield, Delay, AwaitChild,
         SuspendUnregistered, Finish, Suspends
<1>2. ~shutting_down /\ SamePhaseOfLife
  BY <1>1 DEF SlotInv, TeardownIsIdle, SamePhaseOfLife, shutting_down
<1>3. /\ current \in Slots /\ state[current] = "running" /\ state \in [Slots -> States]
  BY <1>1, <1>2, RunningTask DEF SlotInv, shutting_down, FifoInv, Typed
<1>4. ASSUME NEW st \in LiveStates \ {"waiting_child"},
             state' = [state EXCEPT ![current] = st],
             UNCHANGED <<generation, handle, parent, active_count>>
      PROVE  Moves
  BY <1>3, <1>4 DEF Moves, LiveStates
<1>5. CASE Finish \/ AwaitRejected
  BY <1>2, <1>5 DEF Finish, AwaitRejected, restVars, Moves
<1>6. CASE Yield \/ SuspendUnregistered
  BY <1>2, <1>4, <1>6 DEF Yield, Requeue, SuspendUnregistered, LiveStates
<1>7. CASE \E d \in Durations : Delay(d)
  BY <1>2, <1>4, <1>7 DEF Delay, Requeue, ArmTimer, LiveStates
<1>8. CASE AwaitChild
  BY <1>2, <1>4, <1>8 DEF AwaitChild, Requeue, LiveStates
<1> QED
  BY <1>5, <1>6, <1>7, <1>8 DEF TaskSuspends

-----------------------------------------------------------------------------
(* What each kind of step does to the slots.                               *)

\* What HandlesStayTrue says of a step.
HandleStep ==
  \A s \in Slots :
    /\ generation'[s] >= generation[s]
    /\ generation'[s] # generation[s] => ~handle[s]
    /\ \A g \in 0..MaxGeneration :
         handle_done(s, g) => handle_done(s, g)' \/ ~handle_valid(s, g)'

\* The slots that own a frame are finitely many, so they can be counted.
LEMMA FramesFinite == IsFiniteSet({s \in Slots : handle[s]})
<1>1. IsFiniteSet(Slots)
  BY SchedulerAssumption, FS_Interval DEF Slots
<1> QED
  BY <1>1, FS_Subset

\* A set of slots is no larger than the array of slots.
LEMMA SlotsBound ==
  ASSUME NEW F \in SUBSET Slots PROVE Cardinality(F) \in 0..MaxTasks
<1>1. IsFiniteSet(Slots) /\ Cardinality(Slots) = MaxTasks
  BY SchedulerAssumption, FS_Interval DEF Slots
<1>2. Cardinality(F) \in Nat /\ Cardinality(F) <= Cardinality(Slots)
  BY <1>1, FS_Subset, FS_CardinalityType
<1> QED
  BY <1>1, <1>2, SchedulerAssumption

\* No new await, no new cycle of awaits.
LEMMA NoNewAwaitNoCycle ==
  ASSUME NoAwaitCycle,
         \A p, c \in Slots : state'[p] = "waiting_child" /\ parent'[c] = p
                             => state[p] = "waiting_child" /\ parent[c] = p
  PROVE  NoAwaitCycle'
<1> SUFFICES ASSUME NEW S \in SUBSET Slots, S # {}
             PROVE  \E p \in S : ~(state'[p] = "waiting_child" /\
                                   \E c \in S : parent'[c] = p)
  BY DEF NoAwaitCycle
<1>1. PICK p \in S : ~(state[p] = "waiting_child" /\ \E c \in S : parent[c] = p)
  BY DEF NoAwaitCycle
<1> QED
  BY <1>1

\* Moving tasks keeps the slot invariant.
LEMMA MovesKeepSlots ==
  ASSUME SlotInv, FifoInv', SamePhaseOfLife, Moves
  PROVE  SlotInv' /\ HandleStep
<1>1. UNCHANGED <<generation, handle, parent, active_count>>
  BY DEF Moves
<1>2. \A s \in Slots : /\ state'[s] \in LiveStates <=> state[s] \in LiveStates
                       /\ state'[s] = "waiting_child" <=> state[s] = "waiting_child"
                       /\ state'[s] = "completed" <=> state[s] = "completed"
  BY DEF Moves, LiveStates
<1>3. \A s \in Slots : parent[s] # NoSlot => parent[s] \in Slots
  BY DEF SlotInv, FifoInv, Typed
<1>4. FramesCounted'
  BY <1>1, <1>2 DEF SlotInv, FramesCounted, SamePhaseOfLife
<1>5. FramesAreLive'
  BY <1>1, <1>2 DEF SlotInv, FramesAreLive
<1>6. ChildLink'
  BY <1>1, <1>2, <1>3 DEF SlotInv, ChildLink, SamePhaseOfLife
<1>7. NoAwaitCycle'
  BY <1>1, <1>2, NoNewAwaitNoCycle DEF SlotInv
<1>8. TeardownIsIdle'
  BY DEF SlotInv, TeardownIsIdle, SamePhaseOfLife
<1>9. /\ TeardownReleasesFrames' /\ DetachedIsTombstone' /\ SweptSlotsEmpty'
      /\ CountInRange'
  BY <1>1 DEF SlotInv, TeardownReleasesFrames, DetachedIsTombstone, SweptSlotsEmpty,
              CountInRange, SamePhaseOfLife, shutting_down
<1>10. HandleStep
  <2>1. generation \in [Slots -> 0..MaxGeneration] /\ MaxGeneration \in Nat
    BY SchedulerAssumption DEF SlotInv, FifoInv, Typed
  <2> QED
    BY <1>1, <1>2, <2>1 DEF HandleStep, handle_done, handle_valid
<1> QED
  BY <1>4, <1>5, <1>6, <1>7, <1>8, <1>9, <1>10 DEF SlotInv

\* A slot that is acquired owns no frame and nobody awaits through it.
LEMMA AcquiredIsClear ==
  ASSUME SlotInv, ~shutting_down, NEW s \in Slots, acquire_slot(s)
  PROVE  /\ state[s] \in {"free", "completed"} /\ ~handle[s] /\ parent[s] = NoSlot
         /\ \A c \in Slots : parent[c] # s
<1>1. state[s] \in {"free", "completed"}
  BY AcquiredSlot DEF SlotInv, FifoInv
<1>2. ~handle[s] /\ handle[s] \in BOOLEAN
  BY <1>1 DEF SlotInv, FramesAreLive, LiveStates, FifoInv, Typed
<1>3. parent[s] = NoSlot
  BY <1>2 DEF SlotInv, ChildLink
<1>4. \A c \in Slots : parent[c] # s
  BY <1>1 DEF SlotInv, ChildLink, Slots, NoSlot
<1> QED
  BY <1>1, <1>2, <1>3, <1>4

\* A new generation invalidates the handles of the slot's last task and no other.
LEMMA OccupyKeepsHandles ==
  ASSUME SlotInv, ~shutting_down, NEW s \in Slots, NEW p, acquire_slot(s), Occupy(s, p),
         \A t \in Slots \ {s} : state[t] = "completed" => state'[t] = "completed"
  PROVE  HandleStep
<1>1. ~handle[s]
  BY AcquiredIsClear
<1>2. /\ generation \in [Slots -> 0..MaxGeneration] /\ MaxGeneration \in Nat
      /\ generation' = [generation EXCEPT ![s] = @ + 1]
  BY SchedulerAssumption DEF SlotInv, FifoInv, Typed, Occupy, NextGeneration
<1>3. ASSUME NEW t \in Slots, t # s
      PROVE  generation'[t] = generation[t] /\ generation[t] \in Nat
  BY <1>2, <1>3
<1>4. generation'[s] = generation[s] + 1 /\ generation[s] \in Nat
  BY <1>2
<1> QED
  BY <1>1, <1>3, <1>4 DEF HandleStep, handle_done, handle_valid

\* A slot that takes a frame is counted once more.
LEMMA OccupyCounts ==
  ASSUME SlotInv, ~shutting_down, NEW s \in Slots, NEW p, acquire_slot(s), Occupy(s, p)
  PROVE  active_count' = Cardinality({t \in Slots : handle'[t]})
<1> DEFINE F == {t \in Slots : handle[t]}
<1>1. s \notin F
  BY AcquiredIsClear
<1>2. {t \in Slots : handle'[t]} = F \union {s}
  BY DEF SlotInv, FifoInv, Typed, Occupy
<1>3. active_count = Cardinality(F) /\ active_count' = active_count + 1
  BY DEF SlotInv, FramesCounted, Occupy
<1>4. IsFiniteSet(F)
  BY FramesFinite
<1> QED
  BY <1>1, <1>2, <1>3, <1>4, FS_AddElement

\* schedule() keeps the slot invariant.
LEMMA ScheduleKeepsSlots ==
  ASSUME SlotInv, FifoInv', SamePhaseOfLife, ~shutting_down,
         NEW s \in Slots, Schedules(s)
  PROVE  SlotInv' /\ HandleStep
<1>1. /\ state[s] \in {"free", "completed"} /\ ~handle[s] /\ parent[s] = NoSlot
      /\ \A c \in Slots : parent[c] # s
  BY AcquiredIsClear DEF Schedules
<1>2. /\ state \in [Slots -> States] /\ handle \in [Slots -> BOOLEAN]
      /\ parent \in [Slots -> Slots \union {NoSlot}]
  BY DEF SlotInv, FifoInv, Typed
<1>3. /\ state' = [state EXCEPT ![s] = "ready"]
      /\ handle' = [handle EXCEPT ![s] = TRUE]
      /\ parent' = [parent EXCEPT ![s] = NoSlot]
      /\ ~shutting_down'
  BY DEF Schedules, Occupy, SamePhaseOfLife
<1>4. UNCHANGED parent
  BY <1>1, <1>2, <1>3
<1>5. FramesCounted'
  <2>1. \A t \in Slots : handle'[t] <=> state'[t] \in LiveStates
    BY <1>2, <1>3 DEF SlotInv, FramesCounted, LiveStates
  <2> QED
    BY <2>1, OccupyCounts DEF FramesCounted, Schedules
<1>6. FramesAreLive'
  BY <1>2, <1>3 DEF SlotInv, FramesAreLive, LiveStates
<1>7. ChildLink'
  BY <1>1, <1>2, <1>3, <1>4 DEF SlotInv, ChildLink
<1>8. NoAwaitCycle'
  BY <1>2, <1>3, <1>4, NoNewAwaitNoCycle DEF SlotInv
<1>9. /\ TeardownIsIdle' /\ TeardownReleasesFrames' /\ DetachedIsTombstone'
      /\ SweptSlotsEmpty' /\ CountInRange'
  <2>1. CountInRange'
    BY <1>3, <1>5, SlotsBound DEF FramesCounted, CountInRange
  <2> QED
    BY <2>1, <1>3
       DEF TeardownIsIdle, TeardownReleasesFrames, DetachedIsTombstone,
       SweptSlotsEmpty, shutting_down
<1>10. HandleStep
  BY <1>2, <1>3, OccupyKeepsHandles DEF Schedules
<1> QED
  BY <1>5, <1>6, <1>7, <1>8, <1>9, <1>10 DEF SlotInv

\* Starting a child keeps it: the parent runs, so nobody awaits it and it awaits
\* nobody, and the new child cannot close a cycle because it is ready.
LEMMA AdoptKeepsSlots ==
  ASSUME SlotInv, FifoInv', SamePhaseOfLife, ~shutting_down, Suspends,
         NEW s \in Slots, AdoptChild(s)
  PROVE  SlotInv' /\ HandleStep
<1>1. /\ state[s] \in {"free", "completed"} /\ ~handle[s] /\ parent[s] = NoSlot
      /\ \A c \in Slots : parent[c] # s
  BY AcquiredIsClear DEF AdoptChild
<1>2. /\ state \in [Slots -> States] /\ handle \in [Slots -> BOOLEAN]
      /\ parent \in [Slots -> Slots \union {NoSlot}]
  BY DEF SlotInv, FifoInv, Typed
<1>3. /\ state' = [state EXCEPT ![s] = "ready", ![current] = "waiting_child"]
      /\ handle' = [handle EXCEPT ![s] = TRUE]
      /\ parent' = [parent EXCEPT ![s] = current]
      /\ ~shutting_down'
  BY DEF AdoptChild, Occupy, SamePhaseOfLife
<1>4. current \in Slots /\ state[current] = "running" /\ current # s
  BY <1>1, RunningTask DEF SlotInv, Suspends, shutting_down
<1>5. handle[current] /\ \A c \in Slots : parent[c] # current
  BY <1>4 DEF SlotInv, FramesCounted, ChildLink, LiveStates, Slots, NoSlot
<1>6. FramesCounted'
  <2>1. \A t \in Slots : handle'[t] <=> state'[t] \in LiveStates
    BY <1>2, <1>3, <1>4, <1>5 DEF SlotInv, FramesCounted, LiveStates
  <2> QED
    BY <2>1, OccupyCounts DEF FramesCounted, AdoptChild
<1>7. FramesAreLive'
  BY <1>2, <1>3, <1>4 DEF SlotInv, FramesAreLive, LiveStates
<1>8. ChildLink'
  <2>1. ASSUME NEW c \in Slots, parent'[c] # NoSlot
        PROVE  handle'[c] /\ state'[parent'[c]] = "waiting_child"
    BY <1>1, <1>2, <1>3, <1>4, <1>5, <2>1 DEF SlotInv, ChildLink
  <2>2. ASSUME NEW p \in Slots, state'[p] = "waiting_child"
        PROVE  \E c \in Slots : parent'[c] = p
    <3>1. CASE p = current
      BY <1>2, <1>3, <3>1
    <3>2. CASE p # current
      BY <1>1, <1>2, <1>3, <2>2, <3>2 DEF SlotInv, ChildLink, Slots, NoSlot
    <3> QED
      BY <3>1, <3>2
  <2>3. ASSUME NEW c \in Slots, NEW d \in Slots,
               parent'[c] = parent'[d], parent'[c] # NoSlot
        PROVE  c = d
    BY <1>2, <1>3, <1>5, <2>3 DEF SlotInv, ChildLink
  <2> QED
    BY <2>1, <2>2, <2>3 DEF ChildLink
<1>9. NoAwaitCycle'
  <2> SUFFICES ASSUME NEW S \in SUBSET Slots, S # {}
               PROVE  \E p \in S : ~(state'[p] = "waiting_child" /\
                                     \E c \in S : parent'[c] = p)
    BY DEF NoAwaitCycle
  <2>1. CASE s \in S
    BY <1>2, <1>3, <1>4, <2>1
  <2>2. CASE s \notin S
    <3>1. PICK p \in S : ~(state[p] = "waiting_child" /\ \E c \in S : parent[c] = p)
      BY DEF SlotInv, NoAwaitCycle
    <3>2. ~ \E c \in S : parent'[c] = current
      BY <1>2, <1>3, <1>5, <2>2
    <3>3. p # current => state'[p] = state[p]
      BY <1>2, <1>3, <2>2
    <3>4. \A c \in S : parent'[c] = parent[c]
      BY <1>2, <1>3, <2>2
    <3> QED
      BY <3>1, <3>2, <3>3, <3>4
  <2> QED
    BY <2>1, <2>2
<1>10. /\ TeardownIsIdle' /\ TeardownReleasesFrames' /\ DetachedIsTombstone'
       /\ SweptSlotsEmpty' /\ CountInRange'
  <2>1. CountInRange'
    BY <1>3, <1>6, SlotsBound DEF FramesCounted, CountInRange
  <2> QED
    BY <2>1, <1>3
       DEF TeardownIsIdle, TeardownReleasesFrames, DetachedIsTombstone,
       SweptSlotsEmpty, shutting_down
<1>11. HandleStep
  BY <1>2, <1>3, <1>4, OccupyKeepsHandles DEF AdoptChild
<1> QED
  BY <1>6, <1>7, <1>8, <1>9, <1>10, <1>11 DEF SlotInv

\* Releasing the frame of a finished task keeps it: a parent is waiting_child, and
\* it is the only slot the finished one names.
LEMMA ReapKeepsSlots ==
  ASSUME SlotInv, FifoInv', Reap
  PROVE  SlotInv' /\ HandleStep
<1>1. /\ dying \in Slots /\ state[dying] = "running" /\ ~shutting_down
      /\ ~shutting_down'
  BY DEF SlotInv, FifoInv, Typed, OneRunner, Reap, shutting_down
<1>2. /\ state \in [Slots -> States] /\ handle \in [Slots -> BOOLEAN]
      /\ parent \in [Slots -> Slots \union {NoSlot}] /\ active_count \in Int
  BY DEF SlotInv, FifoInv, Typed
<1>3. /\ handle' = [handle EXCEPT ![dying] = FALSE]
      /\ parent' = [parent EXCEPT ![dying] = NoSlot]
      /\ active_count' = active_count - 1
      /\ UNCHANGED generation
  BY DEF Reap, Release
<1>4. handle[dying] /\ \A c \in Slots : parent[c] # dying
  BY <1>1 DEF SlotInv, FramesCounted, ChildLink, LiveStates, Slots, NoSlot
<1>5. \A t \in Slots :
        state'[t] = IF t = dying THEN "completed"
                    ELSE IF t = parent[dying] THEN "ready" ELSE state[t]
  <2>1. CASE parent[dying] = NoSlot
    BY <1>1, <1>2, <2>1 DEF Reap, Complete, Slots, NoSlot
  <2>2. CASE parent[dying] # NoSlot
    <3>1. parent[dying] \in Slots /\ parent[dying] # dying
          /\ state[parent[dying]] = "waiting_child"
      BY <1>1, <1>2, <1>4, <2>2 DEF SlotInv, ChildLink
    <3>2. state' = [state EXCEPT ![dying] = "completed", ![parent[dying]] = "ready"]
      BY <2>2, <3>1 DEF Reap, Complete
    <3> QED
      BY <1>1, <1>2, <3>1, <3>2
  <2> QED
    BY <2>1, <2>2
<1>6. ASSUME NEW t \in Slots, t = parent[dying]
      PROVE  /\ t # dying /\ state[t] = "waiting_child"
             /\ \A c \in Slots : parent'[c] # t
  BY <1>1, <1>2, <1>3, <1>4, <1>6 DEF SlotInv, ChildLink, Slots, NoSlot
<1>7. FramesCounted'
  <2> DEFINE F == {t \in Slots : handle[t]}
  <2>1. \A t \in Slots : handle'[t] <=> state'[t] \in LiveStates
    BY <1>1, <1>2, <1>3, <1>5, <1>6 DEF SlotInv, FramesCounted, LiveStates
  <2>2. dying \in F /\ {t \in Slots : handle'[t]} = F \ {dying}
    BY <1>1, <1>2, <1>3, <1>4
  <2>3. active_count = Cardinality(F)
    BY <1>1 DEF SlotInv, FramesCounted
  <2>4. IsFiniteSet(F)
    BY FramesFinite
  <2>5. active_count' = Cardinality(F \ {dying})
    BY <1>3, <2>2, <2>3, <2>4, FS_RemoveElement
  <2> QED
    BY <2>1, <2>2, <2>5 DEF FramesCounted
<1>8. FramesAreLive'
  BY <1>1, <1>7 DEF FramesAreLive, FramesCounted
<1>9. ChildLink'
  <2>1. ASSUME NEW c \in Slots, parent'[c] # NoSlot
        PROVE  /\ c # dying /\ parent[c] = parent'[c] /\ parent[c] \in Slots
               /\ handle'[c] /\ state'[parent'[c]] = "waiting_child"
    BY <1>1, <1>2, <1>3, <1>4, <1>5, <1>6, <2>1 DEF SlotInv, ChildLink
  <2>2. ASSUME NEW p \in Slots, state'[p] = "waiting_child"
        PROVE  \E c \in Slots : parent'[c] = p
    BY <1>1, <1>2, <1>3, <1>5, <2>2 DEF SlotInv, ChildLink
  <2>3. ASSUME NEW c \in Slots, NEW d \in Slots,
               parent'[c] = parent'[d], parent'[c] # NoSlot
        PROVE  c = d
    BY <1>1, <2>1, <2>3 DEF SlotInv, ChildLink
  <2> QED
    BY <2>1, <2>2, <2>3 DEF ChildLink
<1>10. NoAwaitCycle'
  <2>1. ASSUME NEW p \in Slots, NEW c \in Slots,
               state'[p] = "waiting_child", parent'[c] = p
        PROVE  state[p] = "waiting_child" /\ parent[c] = p
    BY <1>1, <1>2, <1>3, <1>5, <2>1 DEF Slots, NoSlot
  <2> QED
    BY <2>1, NoNewAwaitNoCycle DEF SlotInv
<1>11. /\ TeardownIsIdle' /\ TeardownReleasesFrames' /\ DetachedIsTombstone'
       /\ SweptSlotsEmpty' /\ CountInRange'
  <2>1. CountInRange'
    BY <1>1, <1>7, SlotsBound DEF FramesCounted, CountInRange
  <2> QED
    BY <2>1, <1>1
       DEF TeardownIsIdle, TeardownReleasesFrames, DetachedIsTombstone,
       SweptSlotsEmpty, shutting_down
<1>12. HandleStep
  <2>1. generation \in [Slots -> 0..MaxGeneration] /\ MaxGeneration \in Nat
    BY SchedulerAssumption DEF SlotInv, FifoInv, Typed
  <2>2. \A s \in Slots : generation'[s] = generation[s] /\ generation[s] \in Nat
    BY <1>3, <2>1
  <2>3. \A s \in Slots : state[s] = "completed" => state'[s] = "completed"
    BY <1>5, <1>6
  <2> QED
    BY <2>2, <2>3 DEF HandleStep, handle_done, handle_valid
<1> QED
  BY <1>7, <1>8, <1>9, <1>10, <1>11, <1>12 DEF SlotInv

\* ~Scheduler() keeps it: no task runs when it starts, it detaches a frame from its
\* slot before destroying it, and what it passes over between two frames owns none.
LEMMA TeardownKeepsSlots ==
  ASSUME SlotInv, FifoInv', TeardownBegin \/ Teardown
  PROVE  SlotInv' /\ HandleStep
<1> USE DEF slotVars
<1>1. shutting_down' /\ UNCHANGED <<generation, parent, current>>
  BY DEF TeardownBegin, Teardown, TeardownDetach, Detach, TeardownEnd,
         shutting_down
<1>2. FramesCounted' /\ ChildLink' /\ CountInRange'
  BY <1>1 DEF FramesCounted, ChildLink, SlotInv, CountInRange, TeardownBegin, Teardown,
              TeardownDetach, TeardownEnd
<1>3. TeardownIsIdle'
  BY <1>1 DEF SlotInv, TeardownIsIdle, FifoInv, OneRunner, TeardownBegin, Teardown,
              TeardownDetach, TeardownEnd, shutting_down
<1>4. \A s \in Slots : generation'[s] = generation[s] /\ generation[s] \in Nat
  BY <1>1, SchedulerAssumption DEF SlotInv, FifoInv, Typed
<1>5. CASE TeardownDetach
  <2>1. PICK s \in Slots : First(Ahead, s) /\ Detach(s) /\ dying' = s
    BY <1>5 DEF TeardownDetach
  <2>2. /\ handle' = [handle EXCEPT ![s] = FALSE]
        /\ state' = [state EXCEPT ![s] = "completed"]
        /\ phase' = "teardown"
    BY <1>5, <2>1 DEF TeardownDetach, Detach
  <2>3. state \in [Slots -> States] /\ handle \in [Slots -> BOOLEAN]
    BY DEF SlotInv, FifoInv, Typed
  <2>4. FramesAreLive'
    BY <2>2, <2>3 DEF SlotInv, FramesAreLive
  <2>5. NoAwaitCycle'
    BY <1>1, <2>2, <2>3, NoNewAwaitNoCycle DEF SlotInv
  <2>6. TeardownReleasesFrames' /\ DetachedIsTombstone'
    BY <2>1, <2>2, <2>3 DEF TeardownReleasesFrames, DetachedIsTombstone
  <2>7. SweptSlotsEmpty'
    <3> SUFFICES ASSUME NEW t \in Slots, t <= s, t # s PROVE ~handle[t]
      BY <2>1, <2>2, <2>3 DEF SweptSlotsEmpty
    <3>1. t \in Int /\ s \in Int /\ dying \in Int
      BY DEF SlotInv, FifoInv, Typed, Slots, NoSlot
    <3>2. CASE t <= dying
      BY <1>5, <3>2 DEF SlotInv, SweptSlotsEmpty, TeardownDetach
    <3>3. CASE t > dying
      <4>1. t \notin Owned
        BY <2>1, <3>1, <3>3 DEF First, Ahead
      <4> QED
        BY <4>1 DEF Owned, SlotInv, FramesAreLive, LiveStates
    <3> QED
      BY <3>1, <3>2, <3>3
  <2>8. HandleStep
    BY <1>4, <2>2, <2>3 DEF HandleStep, handle_done, handle_valid
  <2> QED
    BY <1>2, <1>3, <2>4, <2>5, <2>6, <2>7, <2>8 DEF SlotInv
<1>6. CASE TeardownBegin \/ TeardownEnd
  <2>1. UNCHANGED <<state, handle, parent>>
    BY <1>6 DEF TeardownBegin, TeardownEnd
  <2>2. FramesAreLive' /\ NoAwaitCycle'
    BY <2>1, NoNewAwaitNoCycle DEF SlotInv, FramesAreLive
  <2>3. DetachedIsTombstone' /\ SweptSlotsEmpty'
    <3>1. CASE TeardownBegin
      <4>1. dying' = NoSlot
        BY <3>1 DEF TeardownBegin, SlotInv, FifoInv, OneRunner, shutting_down
      <4> QED
        BY <4>1 DEF DetachedIsTombstone, SweptSlotsEmpty, Slots, NoSlot
    <3>2. CASE TeardownEnd
      BY <3>2 DEF TeardownEnd, DetachedIsTombstone, SweptSlotsEmpty
    <3> QED
      BY <1>6, <3>1, <3>2
  <2>4. TeardownReleasesFrames'
    <3>1. CASE TeardownEnd
      <4> SUFFICES ASSUME NEW s \in Slots PROVE ~handle[s]
        BY <2>1 DEF TeardownReleasesFrames
      <4>1. s \in Int /\ dying \in Int
        BY DEF SlotInv, FifoInv, Typed, Slots, NoSlot
      <4>2. CASE s <= dying
        BY <3>1, <4>2 DEF SlotInv, SweptSlotsEmpty, TeardownEnd
      <4>3. CASE s > dying
        BY <3>1, <4>3 DEF TeardownEnd, Ahead, Owned, SlotInv, FramesAreLive, LiveStates
      <4> QED
        BY <4>1, <4>2, <4>3
    <3>2. CASE TeardownBegin
      BY <3>2 DEF TeardownBegin, TeardownReleasesFrames
    <3> QED
      BY <1>6, <3>1, <3>2
  <2>5. HandleStep
    BY <1>4, <2>1 DEF HandleStep, handle_done, handle_valid
  <2> QED
    BY <1>2, <1>3, <2>2, <2>3, <2>4, <2>5 DEF SlotInv
<1> QED
  BY <1>5, <1>6 DEF Teardown

-----------------------------------------------------------------------------

\* A new Scheduler owns nothing.
LEMMA SlotInit == Init => SlotInv
<1> SUFFICES ASSUME Init PROVE SlotInv
  OBVIOUS
<1>1. FifoInv
  BY FifoInit
<1>2. {s \in Slots : handle[s]} = {}
  BY DEF Init
<1>3. FramesCounted
  BY <1>2, FS_EmptySet DEF Init, FramesCounted, LiveStates
<1>4. NoAwaitCycle
  BY DEF Init, NoAwaitCycle
<1> QED
  BY <1>1, <1>3, <1>4, SchedulerAssumption
     DEF Init, SlotInv, FramesAreLive, CountInRange, ChildLink, TeardownIsIdle,
         SweptSlotsEmpty, TeardownReleasesFrames, DetachedIsTombstone, shutting_down

\* Every step of the scheduler keeps the slot invariant and treats handles well.
LEMMA SlotNext == SlotInv /\ [Next]_vars => SlotInv' /\ HandleStep
<1> SUFFICES ASSUME SlotInv, [Next]_vars PROVE SlotInv' /\ HandleStep
  OBVIOUS
<1>1. FifoInv'
  BY FifoNext DEF SlotInv
<1>2. CASE UNCHANGED vars \/ Tick
  <2>1. SamePhaseOfLife /\ Moves
    BY <1>2 DEF Tick, vars, slotVars, SamePhaseOfLife, Moves, shutting_down
  <2> QED
    BY <1>1, <2>1, MovesKeepSlots
<1>3. CASE ScheduleTask
  BY <1>1, <1>3, ScheduleKinds, ScheduleKeepsSlots, MovesKeepSlots DEF SlotInv
<1>4. CASE \/ PollBegin \/ NoExternalSignals \/ PollRejected \/ FireTimer \/ TimersDone
           \/ Resume \/ PassDone
  BY <1>1, <1>4, PollKinds, MovesKeepSlots DEF SlotInv
<1>5. CASE TaskSuspends \/ AwaitRejected
  BY <1>1, <1>5, TaskKinds, AdoptKeepsSlots, MovesKeepSlots
<1>6. CASE Reap
  BY <1>1, <1>6, ReapKeepsSlots
<1>7. CASE TeardownBegin \/ Teardown
  BY <1>1, <1>7, TeardownKeepsSlots
<1> QED
  BY <1>2, <1>3, <1>4, <1>5, <1>6, <1>7 DEF Next, CoreNext, Poll, Exited

\* The slot invariant holds in every state of every execution.
THEOREM SlotInvariant == Spec => []SlotInv
  BY SlotInit, SlotNext, PTL DEF Spec

\* The scheduler's variables keep the ranges of their C++ types: generations do
\* not wrap, deadlines stay within tick_t, active_count_ never passes below zero
\* or above the number of slots, and every index is a slot.
THEOREM TypeCorrect == Spec => []TypeOK
<1>1. SlotInv => TypeOK
  BY DEF SlotInv, FifoInv, CountInRange, TypeOK
<1> QED
  BY <1>1, SlotInvariant, PTL

\* A slot owns a frame exactly while its task is live, and active_count_ counts
\* those slots: hasPendingTasks() is exact for any number of slots.
THEOREM FramesExact == Spec => []FramesCounted
<1>1. SlotInv => FramesCounted
  BY DEF SlotInv
<1> QED
  BY <1>1, SlotInvariant, PTL

\* A task is in waiting_child exactly while one live child names it as parent, so
\* its completion finds a parent to queue and no stale child wakes a reused slot.
THEOREM ChildLinkExact == Spec => []ChildLink
<1>1. SlotInv => ChildLink
  BY DEF SlotInv
<1> QED
  BY <1>1, SlotInvariant, PTL

\* Child awaits never deadlock tasks in a cycle.
THEOREM AwaitsAcyclic == Spec => []NoAwaitCycle
<1>1. SlotInv => NoAwaitCycle
  BY DEF SlotInv
<1> QED
  BY <1>1, SlotInvariant, PTL

\* When ~Scheduler() has returned no slot owns a frame: no slot behind its loop
\* gains one, however the destructors it runs call create_task() and poll().
THEOREM TeardownComplete == Spec => []TeardownReleasesFrames
<1>1. SlotInv => TeardownReleasesFrames
  BY DEF SlotInv
<1> QED
  BY <1>1, SlotInvariant, PTL

\* A frame that ~Scheduler() is destroying is detached from its slot.
THEOREM TeardownDetaches == Spec => []DetachedIsTombstone
<1>1. SlotInv => DetachedIsTombstone
  BY DEF SlotInv
<1> QED
  BY <1>1, SlotInvariant, PTL

\* A TaskHandle never comes to denote another task, for any kMaxGeneration:
\* acquire_slot() skips a slot whose generations are used up.
THEOREM HandlesTrue == Spec => HandlesStayTrue
<1>1. SlotInv /\ [Next]_vars => HandleStep
  BY SlotNext
<1> QED
  BY <1>1, SlotInvariant, PTL DEF Spec, HandlesStayTrue, HandleStep
==============================================================================
