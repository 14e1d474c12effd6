----------------------------- MODULE QueueProofs -----------------------------
(***************************************************************************)
(* Proofs about Queue composed with the scheduler, for every capacity, any *)
(* payloads and any number of tasks, and that it implements the Channel.   *)
(***************************************************************************)
EXTENDS Queue, TimerProofs, FiniteSetTheorems

\* The slots of the parked senders, in the order of their nodes.
SlotsOf(q) == [i \in 1..Len(q) |-> q[i].slot]

\* Where the thread is: a task runs in run_pass() only, and what ~Scheduler() is
\* destroying has been detached from its slot.
ThreadState ==
  /\ current # NoSlot => phase = "pass"
  /\ shutting_down /\ dying # NoSlot => state[dying] = "completed"

\* The wait lists hold the parked tasks, each once; a destroyed Queue is empty.
ListsExact ==
  /\ IsInjective(SlotsOf(senders)) /\ IsInjective(receivers)
  /\ exists => \A s \in Slots : state[s] = "waiting_local" <=>
                 s \in Range(SlotsOf(senders)) \/ s \in Range(receivers)
  /\ ~exists => senders = << >> /\ receivers = << >> /\ count = 0

\* A suspended receive() is parked or has been woken, and no send() is suspended in
\* the same task.
ReceivingExact ==
  /\ \A s \in receiving : state[s] \in {"ready", "waiting_local"}
  /\ Range(receivers) \subseteq receiving
  /\ Range(SlotsOf(senders)) \cap receiving = {}

QueueInv ==
  /\ TimerInv
  /\ CellsExact
  /\ NoNeedlessWait
  /\ ReceiverHasValue
  /\ ThreadState
  /\ ListsExact
  /\ ReceivingExact

-----------------------------------------------------------------------------
(* The wait lists.                                                         *)

Nodes == [slot : Slots, value : Values]

\* The slots of a list of nodes, when a node is appended, popped or dropped.
LEMMA SlotsOfList ==
  ASSUME NEW q \in Seq(Nodes)
  PROVE  /\ SlotsOf(q) \in Seq(Slots) /\ Len(SlotsOf(q)) = Len(q)
         /\ \A i \in 1..Len(q) : SlotsOf(q)[i] = q[i].slot
         /\ q = << >> <=> SlotsOf(q) = << >>
<1> DEFINE n == Len(q)
           p == [i \in 1..n |-> q[i].slot]
<1>1. n \in Nat /\ (q = << >> <=> n = 0)
  OBVIOUS
<1>2. \A i \in 1..n : q[i] \in Nodes
  OBVIOUS
<1>3. \A i \in 1..n : q[i].slot \in Slots
  BY <1>2 DEF Nodes
<1>4. p \in [1..n -> Slots] /\ \A i \in 1..n : p[i] = q[i].slot
  BY <1>3
<1> HIDE DEF n, p
<1>5. p \in Seq(Slots) /\ Len(p) = n /\ (p = << >> <=> n = 0)
  BY <1>1, <1>4
<1> QED
  BY <1>1, <1>4, <1>5 DEF SlotsOf, n, p

LEMMA SlotsOfAppend ==
  ASSUME NEW q \in Seq(Nodes), NEW a \in Nodes
  PROVE  SlotsOf(Append(q, a)) = Append(SlotsOf(q), a.slot)
<1> DEFINE r == Append(q, a)
           t == SlotsOf(r)
           u == Append(SlotsOf(q), a.slot)
<1>1. /\ r \in Seq(Nodes) /\ Len(r) = Len(q) + 1 /\ r[Len(q) + 1] = a
      /\ \A i \in 1..Len(q) : r[i] = q[i]
  OBVIOUS
<1>2. a.slot \in Slots /\ Len(q) \in Nat
  BY DEF Nodes
<1> HIDE DEF r
<1>3. /\ t \in Seq(Slots) /\ Len(t) = Len(q) + 1
      /\ \A i \in 1..(Len(q) + 1) : t[i] = r[i].slot
  BY <1>1, SlotsOfList
<1>4. SlotsOf(q) \in Seq(Slots) /\ Len(SlotsOf(q)) = Len(q)
      /\ \A i \in 1..Len(q) : SlotsOf(q)[i] = q[i].slot
  BY SlotsOfList
<1> DEFINE p == SlotsOf(q)
<1>5. p \in Seq(Slots) /\ Len(p) = Len(q) /\ \A i \in 1..Len(q) : p[i] = q[i].slot
  BY <1>4
<1> HIDE DEF p
<1>6. /\ Append(p, a.slot) \in Seq(Slots) /\ Len(Append(p, a.slot)) = Len(q) + 1
      /\ \A i \in 1..Len(q) : Append(p, a.slot)[i] = q[i].slot
      /\ Append(p, a.slot)[Len(q) + 1] = a.slot
  BY <1>2, <1>5
<1>7. /\ u \in Seq(Slots) /\ Len(u) = Len(q) + 1
      /\ \A i \in 1..Len(q) : u[i] = q[i].slot
      /\ u[Len(q) + 1] = a.slot
  BY <1>6 DEF p
<1> HIDE DEF t, u
<1>8. ASSUME NEW i \in 1..(Len(q) + 1) PROVE t[i] = u[i]
  <2>1. CASE i \in 1..Len(q)
    <3>1. r[i] = q[i]
      BY <1>1, <2>1
    <3>2. t[i] = r[i].slot
      BY <1>3
    <3>3. u[i] = q[i].slot
      BY <1>7, <2>1
    <3> QED
      BY <3>1, <3>2, <3>3
  <2>2. CASE i = Len(q) + 1
    <3>1. r[i] = a
      BY <1>1, <2>2
    <3>2. t[i] = r[i].slot
      BY <1>3
    <3>3. u[i] = a.slot
      BY <1>7, <2>2
    <3> QED
      BY <3>1, <3>2, <3>3
  <2> QED
    BY <1>2, <2>1, <2>2
<1>9. t = u
  BY <1>2, <1>3, <1>7, <1>8
<1> QED
  BY <1>9 DEF t, u, r

LEMMA SlotsOfTail ==
  ASSUME NEW q \in Seq(Nodes), q # << >>
  PROVE  /\ SlotsOf(Tail(q)) = Tail(SlotsOf(q)) /\ SlotsOf(q) # << >>
         /\ Head(SlotsOf(q)) = Head(q).slot /\ Tail(q) \in Seq(Nodes)
<1> DEFINE p == SlotsOf(q)
           r == Tail(q)
           t == SlotsOf(r)
           n == Len(q)
<1>1. /\ n \in Nat \ {0} /\ r \in Seq(Nodes) /\ Len(r) = n - 1 /\ Head(q) = q[1]
      /\ \A i \in 1..(n - 1) : r[i] = q[i + 1]
  OBVIOUS
<1>2. p \in Seq(Slots) /\ Len(p) = n /\ \A i \in 1..n : p[i] = q[i].slot
  BY SlotsOfList
<1> HIDE DEF r, p, n
<1>3. t \in Seq(Slots) /\ Len(t) = n - 1 /\ \A i \in 1..(n - 1) : t[i] = r[i].slot
  BY <1>1, SlotsOfList
<1> HIDE DEF t
<1>4. p # << >>
  BY <1>1, <1>2
<1>5. /\ Tail(p) \in Seq(Slots) /\ Len(Tail(p)) = n - 1 /\ Head(p) = p[1]
      /\ \A i \in 1..(n - 1) : Tail(p)[i] = p[i + 1]
  BY <1>2, <1>4
<1>6. ASSUME NEW i \in 1..(n - 1) PROVE t[i] = Tail(p)[i]
  <2>1. i + 1 \in 1..n
    BY <1>1
  <2> QED
    BY <1>1, <1>2, <1>3, <1>5, <2>1
<1>7. t = Tail(p)
  BY <1>1, <1>3, <1>5, <1>6
<1>8. Head(p) = q[1].slot
  BY <1>1, <1>2, <1>5
<1> QED
  BY <1>1, <1>4, <1>7, <1>8 DEF t, r, p

LEMMA SlotsOfDrop ==
  ASSUME NEW q \in Seq(Nodes), NEW r \in Seq(Nodes), NEW i \in 1..Len(q), Drops(q, i, r)
  PROVE  Drops(SlotsOf(q), i, SlotsOf(r))
<1> DEFINE p == SlotsOf(q)
           t == SlotsOf(r)
<1>1. p \in Seq(Slots) /\ Len(p) = Len(q) /\ \A k \in 1..Len(q) : p[k] = q[k].slot
  BY SlotsOfList
<1>2. t \in Seq(Slots) /\ Len(t) = Len(r) /\ \A k \in 1..Len(r) : t[k] = r[k].slot
  BY SlotsOfList
<1>3. Len(r) = Len(q) - 1 /\ Len(q) \in Nat
      /\ \A j \in 1..(Len(q) - 1) : r[j] = IF j < i THEN q[j] ELSE q[j + 1]
  BY DEF Drops
<1> HIDE DEF p, t
<1>4. ASSUME NEW j \in 1..(Len(q) - 1) PROVE t[j] = IF j < i THEN p[j] ELSE p[j + 1]
  <2>1. j \in 1..Len(q) /\ j + 1 \in 1..Len(q)
    BY <1>3
  <2> QED
    BY <1>1, <1>2, <1>3, <2>1
<1>5. Len(t) = Len(p) - 1
  BY <1>1, <1>2, <1>3
<1> QED
  BY <1>1, <1>4, <1>5 DEF Drops, p, t

\* unlink_sender() and unlink_receiver() take one slot off a list.
LEMMA UnlinkSender ==
  ASSUME senders \in Seq(Nodes), NEW s, unlink_sender(s)
  PROVE  /\ senders' \in Seq(Nodes)
         /\ \/ UNCHANGED senders
            \/ \E i \in 1..Len(senders) : /\ senders[i].slot = s
                                          /\ Drops(senders, i, senders')
         /\ senders = << >> => senders' = << >>
         /\ IsInjective(SlotsOf(senders)) =>
              /\ IsInjective(SlotsOf(senders'))
              /\ Range(SlotsOf(senders')) = Range(SlotsOf(senders)) \ {s}
<1> DEFINE q == senders
           p == SlotsOf(q)
<1>1. p \in Seq(Slots) /\ Len(p) = Len(q) /\ \A i \in 1..Len(q) : p[i] = q[i].slot
  BY SlotsOfList
<1>2. DOMAIN q = 1..Len(q) /\ DOMAIN p = 1..Len(q)
  BY <1>1
<1>3. CASE (\A i \in DOMAIN q : q[i].slot # s) /\ UNCHANGED senders
  <2>1. s \notin Range(p)
    BY <1>1, <1>2, <1>3 DEF Range
  <2> QED
    BY <1>3, <2>1
<1>4. ASSUME NEW i \in DOMAIN q, q[i].slot = s, senders' = RemoveAt(q, i)
      PROVE  /\ senders' \in Seq(Nodes) /\ Drops(q, i, senders') /\ q # << >>
             /\ IsInjective(p) => /\ IsInjective(SlotsOf(senders'))
                                  /\ Range(SlotsOf(senders')) = Range(p) \ {s}
  <2>1. i \in 1..Len(q)
    BY <1>2, <1>4
  <2>2. senders' = SubSeq(q, 1, i - 1) \o SubSeq(q, i + 1, Len(q))
    BY <1>4 DEF RemoveAt
  <2>3. q \in Seq(Nodes)
    OBVIOUS
  <2> DEFINE r == senders'
  <2> HIDE DEF q
  <2>4. r \in Seq(Nodes) /\ Drops(q, i, r)
    BY <2>1, <2>2, <2>3, UnlinkFifo
  <2> HIDE DEF r
  <2>5. Drops(p, i, SlotsOf(r)) /\ SlotsOf(r) \in Seq(Slots)
    BY <2>1, <2>3, <2>4, SlotsOfDrop, SlotsOfList
  <2>6. p[i] = s
    BY <1>1, <1>4, <2>1
  <2> HIDE DEF p
  <2> DEFINE t == SlotsOf(r)
  <2>7. Drops(p, i, t) /\ t \in Seq(Slots)
    BY <2>5
  <2> HIDE DEF t
  <2>8. IsInjective(p) => IsInjective(t) /\ Range(t) = Range(p) \ {p[i]}
    BY <1>1, <2>7, DropIndex
  <2>9. q # << >>
    BY <2>1, <2>3
  <2> QED
    BY <2>4, <2>6, <2>8, <2>9 DEF t, r
<1> QED
  BY <1>2, <1>3, <1>4 DEF unlink_sender

LEMMA UnlinkReceiver ==
  ASSUME receivers \in Seq(Slots), NEW s, unlink_receiver(s)
  PROVE  /\ receivers' \in Seq(Slots)
         /\ receivers = << >> => receivers' = << >>
         /\ IsInjective(receivers) => /\ IsInjective(receivers')
                                      /\ Range(receivers') = Range(receivers) \ {s}
<1> DEFINE q == receivers
<1>1. DOMAIN q = 1..Len(q) /\ q \in Seq(Slots)
  OBVIOUS
<1>2. CASE (\A i \in DOMAIN q : q[i] # s) /\ UNCHANGED receivers
  <2>1. s \notin Range(q)
    BY <1>2 DEF Range
  <2> QED
    BY <1>2, <2>1
<1>3. ASSUME NEW i \in DOMAIN q, q[i] = s, receivers' = RemoveAt(q, i)
      PROVE  /\ receivers' \in Seq(Slots) /\ q # << >>
             /\ IsInjective(q) => /\ IsInjective(receivers')
                                  /\ Range(receivers') = Range(q) \ {s}
  <2>1. i \in 1..Len(q)
    BY <1>1, <1>3
  <2>2. receivers' = SubSeq(q, 1, i - 1) \o SubSeq(q, i + 1, Len(q))
    BY <1>3 DEF RemoveAt
  <2> HIDE DEF q
  <2>3. LET r == SubSeq(q, 1, i - 1) \o SubSeq(q, i + 1, Len(q)) IN
        /\ r \in Seq(Slots)
        /\ IsInjective(q) => IsInjective(r) /\ Range(r) = Range(q) \ {q[i]}
    BY <1>1, <2>1, UnlinkFifo
  <2>4. q # << >>
    BY <1>1, <2>1
  <2> QED
    BY <1>3, <2>2, <2>3, <2>4
<1> QED
  BY <1>2, <1>3 DEF unlink_receiver

-----------------------------------------------------------------------------
(* The ring buffer.                                                        *)

\* How far cell i is from the head h, and what the remainders of the properties are.
Distance(i, h) == IF i >= h THEN i - h ELSE (i - h) + Capacity

LEMMA Remainder ==
  ASSUME NEW c \in Nat \ {0}, NEW k \in 0..(c - 1)
  PROVE  k % c = k /\ (k - c) % c = k /\ (k + c) % c = k
<1>1. k % c = k
  OBVIOUS
<1>2. (k - c) % c = k
  OBVIOUS
<1>3. (k + c) % c = k
  OBVIOUS
<1> QED
  BY <1>1, <1>2, <1>3

LEMMA RingDistance ==
  ASSUME NEW i \in Cells, NEW h \in Cells
  PROVE  (i - h) % Capacity = Distance(i, h) /\ Distance(i, h) \in 0..(Capacity - 1)
<1>1. Capacity \in Nat \ {0} /\ i \in 0..(Capacity - 1) /\ h \in 0..(Capacity - 1)
  BY QueueAssumption DEF Cells
<1>2. Distance(i, h) \in 0..(Capacity - 1)
  BY <1>1 DEF Distance
<1>3. CASE i >= h
  <2>1. i - h = Distance(i, h)
    BY <1>3 DEF Distance
  <2> QED
    BY <1>1, <1>2, <2>1, Remainder
<1>4. CASE ~(i >= h)
  <2>1. i - h = Distance(i, h) - Capacity
    BY <1>1, <1>4 DEF Distance
  <2> QED
    BY <1>1, <1>2, <2>1, Remainder
<1> QED
  BY <1>2, <1>3, <1>4

LEMMA RingIndex ==
  ASSUME NEW h \in Cells, NEW k \in 0..(Capacity - 1)
  PROVE  /\ tail_index(h, k) = (h + k) % Capacity
         /\ tail_index(h, k) \in Cells /\ Distance(tail_index(h, k), h) = k
         /\ \A i \in Cells : Distance(i, h) = k => i = tail_index(h, k)
<1>1. Capacity \in Nat \ {0} /\ h \in 0..(Capacity - 1)
  BY QueueAssumption DEF Cells
<1>2. /\ tail_index(h, k) \in Cells /\ Distance(tail_index(h, k), h) = k
      /\ \A i \in Cells : Distance(i, h) = k => i = tail_index(h, k)
  BY <1>1 DEF tail_index, Distance, Cells
<1>3. tail_index(h, k) = (h + k) % Capacity
  <2>1. CASE h + k >= Capacity
    <3>1. h + k - Capacity \in 0..(Capacity - 1) /\ h + k = (h + k - Capacity) + Capacity
      BY <1>1, <2>1
    <3>2. (h + k) % Capacity = h + k - Capacity
      BY <1>1, <3>1, Remainder
    <3> QED
      BY <2>1, <3>2 DEF tail_index
  <2>2. CASE ~(h + k >= Capacity)
    <3>1. h + k \in 0..(Capacity - 1)
      BY <1>1, <2>2
    <3>2. (h + k) % Capacity = h + k
      BY <1>1, <3>1, Remainder
    <3> QED
      BY <2>2, <3>2 DEF tail_index
  <2> QED
    BY <2>1, <2>2
<1> QED
  BY <1>2, <1>3

\* The ring seen from the next cell on: the head is now the last cell.
LEMMA RingNext ==
  ASSUME NEW h \in Cells
  PROVE  /\ next_index(h) \in Cells
         /\ tail_index(next_index(h), Capacity - 1) = h
         /\ Distance(h, next_index(h)) = Capacity - 1
         /\ \A i \in Cells : i # h => Distance(i, next_index(h)) = Distance(i, h) - 1
         /\ \A k \in 0..(Capacity - 1) :
              k + 1 < Capacity => tail_index(next_index(h), k) = tail_index(h, k + 1)
<1>1. Capacity \in Nat \ {0} /\ h \in 0..(Capacity - 1)
  BY QueueAssumption DEF Cells
<1>2. /\ next_index(h) \in Cells
      /\ tail_index(next_index(h), Capacity - 1) = h
      /\ Distance(h, next_index(h)) = Capacity - 1
  BY <1>1 DEF next_index, tail_index, Distance, Cells
<1>3. \A i \in Cells : i # h => Distance(i, next_index(h)) = Distance(i, h) - 1
  BY <1>1 DEF next_index, Distance, Cells
<1>4. \A k \in 0..(Capacity - 1) :
        k + 1 < Capacity => tail_index(next_index(h), k) = tail_index(h, k + 1)
  BY <1>1 DEF next_index, tail_index
<1> QED
  BY <1>2, <1>3, <1>4

\* What CellsExact says of a live Queue.
LEMMA CellsByDistance ==
  ASSUME QueueTypeOK
  PROVE  CellsExact <=>
           (exists => \A i \in Cells : cells[i] # NoValue <=> Distance(i, head) < count)
<1>1. head \in Cells
  BY DEF QueueTypeOK
<1>2. \A i \in Cells : (i - head) % Capacity = Distance(i, head)
  BY <1>1, RingDistance
<1> QED
  BY <1>2 DEF CellsExact

-----------------------------------------------------------------------------
(* Steps of the scheduler.                                                 *)

\* The task that a step of the scheduler leaves running or being destroyed.
Entered == IF current' # NoSlot THEN current' ELSE dying'

\* The step keeps where the thread is, and moves no ready or parked task but the one
\* it enters.
LEMMA SchedulerMoves ==
  ASSUME FifoInv, ThreadState, Next
  PROVE  /\ ThreadState'
         /\ \A s \in Slots : /\ state'[s] = "waiting_local" => state[s] = "waiting_local"
                             /\ state[s] \in {"ready", "waiting_local"} /\ s # Entered =>
                                  state'[s] = state[s]
         /\ Entered \in Slots =>
              state'[Entered] \notin {"ready", "waiting_local"}
<1> USE DEF slotVars
<1>1. /\ state \in [Slots -> States] /\ parent \in [Slots -> Slots \union {NoSlot}]
      /\ ready \in Seq(Slots) /\ NoSlot \notin Slots
      /\ current \in Slots \union {NoSlot} /\ dying \in Slots \union {NoSlot}
  BY DEF FifoInv, Typed, Slots, NoSlot
<1>2. FifoInv'
  BY FifoNext
<1> DEFINE Keeps == \A s \in Slots :
             /\ state'[s] = "waiting_local" => state[s] = "waiting_local"
             /\ state[s] \in {"ready", "waiting_local"} /\ s # Entered =>
                  state'[s] = state[s]
<1>3. ~shutting_down => (dying # NoSlot => phase = "pass")
  BY DEF FifoInv, OneRunner
<1>4. ASSUME ThreadState', Entered \in Slots
      PROVE  state'[Entered] \notin {"ready", "waiting_local"}
  <2>1. CASE shutting_down'
    <3>1. Entered = dying' /\ dying' # NoSlot
      BY <1>1, <1>4, <2>1 DEF ThreadState, Entered, shutting_down
    <3> QED
      BY <1>4, <2>1, <3>1 DEF ThreadState
  <2>2. CASE ~shutting_down'
    <3>1. Entered = current' \/ Entered = dying'
      BY DEF Entered
    <3>2. state'[Entered] = "running"
      BY <1>2, <1>4, <2>2, <3>1 DEF FifoInv, OneRunner
    <3> QED
      BY <3>2
  <2> QED
    BY <2>1, <2>2
<1> SUFFICES Keeps /\ ThreadState'
  BY <1>4
<1>5. CASE PollBegin \/ NoExternalSignals \/ PollRejected \/ TimersDone \/ PassDone
           \/ TeardownBegin \/ AwaitRejected \/ Finish \/ Tick \/ Exited
  <2>1. UNCHANGED state
    BY <1>5 DEF vars, Tick, Exited, PollBegin, NoExternalSignals, PollRejected, restVars,
                TimersDone, PassDone, TeardownBegin, AwaitRejected, Finish
  <2>2. ThreadState'
    BY <1>3, <1>5, <2>1
       DEF vars, Tick, Exited, PollBegin, NoExternalSignals, PollRejected, restVars,
           TimersDone, StartPass, PassDone, TeardownBegin, AwaitRejected, Finish, ThreadState,
           shutting_down
  <2> QED
    BY <2>1, <2>2
<1>6. CASE ScheduleTask
  <2>1. UNCHANGED <<current, phase, dying>>
    BY <1>6 DEF ScheduleTask
  <2>2. CASE UNCHANGED state
    BY <2>1, <2>2 DEF ThreadState, shutting_down
  <2>3. ASSUME NEW s \in Slots, acquire_slot(s), state' = [state EXCEPT ![s] = "ready"],
               ~shutting_down
        PROVE  Keeps /\ ThreadState'
    <3>1. state[s] \in {"free", "completed"}
      BY <2>3, AcquiredSlot DEF FifoInv
    <3> QED
      BY <1>1, <2>1, <2>3, <3>1 DEF ThreadState, shutting_down
  <2> QED
    BY <1>6, <2>2, <2>3 DEF ScheduleTask
<1>7. CASE FireTimer
  <2>1. UNCHANGED <<current, phase, dying>> /\ phase = "timers"
    BY <1>7 DEF FireTimer
  <2>2. ThreadState'
    BY <2>1 DEF ThreadState, shutting_down
  <2> QED
    BY <1>1, <1>7, <2>2 DEF FireTimer, Soonest, Due, Waiting
<1>8. CASE Resume
  <2>1. Head(ready) \in Slots /\ phase = "pass" /\ UNCHANGED phase
    BY <1>1, <1>8 DEF Resume
  <2>2. ThreadState'
    BY <2>1 DEF ThreadState, shutting_down
  <2>3. CASE state[Head(ready)] = "ready"
    <3>1. state' = [state EXCEPT ![Head(ready)] = "running"] /\ current' = Head(ready)
      BY <1>8, <2>3 DEF Resume
    <3>2. Entered = Head(ready)
      BY <1>1, <2>1, <3>1 DEF Entered
    <3> QED
      BY <1>1, <2>1, <2>2, <3>1, <3>2
  <2>4. CASE state[Head(ready)] # "ready"
    BY <1>8, <2>2, <2>4 DEF Resume
  <2> QED
    BY <2>3, <2>4
<1>9. CASE Reap
  <2>1. dying \in Slots /\ state[dying] = "running" /\ phase' = "pass"
    BY <1>9 DEF Reap, FifoInv, Typed, OneRunner, shutting_down
  <2>2. parent[dying] = NoSlot \/ parent[dying] \in Slots
    BY <1>1, <2>1
  <2>3. ThreadState'
    BY <2>1 DEF ThreadState, shutting_down
  <2> QED
    BY <1>1, <1>9, <2>1, <2>2, <2>3 DEF Reap, Complete
<1>10. CASE Yield \/ (\E d \in Durations : Delay(d)) \/ SuspendUnregistered \/ AwaitChild
  <2>1. current # NoSlot /\ current' = NoSlot /\ UNCHANGED phase
    BY <1>10 DEF Yield, Delay, SuspendUnregistered, AwaitChild, Suspends
  <2>2. current \in Slots /\ state[current] = "running" /\ phase = "pass"
    BY <2>1, RunningTask DEF ThreadState
  <2>3. ThreadState'
    BY <2>1, <2>2 DEF ThreadState, shutting_down
  <2>4. CASE \E st \in States \ {"waiting_local"} : state' = [state EXCEPT ![current] = st]
    BY <1>1, <2>2, <2>3, <2>4
  <2>5. ASSUME NEW s \in Slots, AdoptChild(s) PROVE Keeps
    <3>1. state[s] \in {"free", "completed"}
      BY <2>5, AcquiredSlot DEF AdoptChild, FifoInv
    <3> QED
      BY <1>1, <2>2, <2>5, <3>1 DEF AdoptChild
  <2> QED
    BY <1>10, <2>3, <2>4, <2>5 DEF Yield, Delay, SuspendUnregistered, AwaitChild, Requeue,
                                  ArmTimer, States, LiveStates
<1>11. CASE Teardown
  <2>1. phase = "teardown" /\ phase' \in {"teardown", "gone"} /\ UNCHANGED current
        /\ current = NoSlot
    BY <1>11 DEF Teardown, TeardownDetach, TeardownEnd, ThreadState
  <2>2. CASE TeardownDetach
    <3>1. PICK s \in Slots : state' = [state EXCEPT ![s] = "completed"] /\ dying' = s
      BY <2>2 DEF TeardownDetach, Detach
    <3>2. Entered = s
      BY <2>1, <3>1 DEF Entered
    <3>3. ThreadState'
      BY <1>1, <2>1, <3>1 DEF ThreadState
    <3> QED
      BY <1>1, <3>1, <3>2, <3>3
  <2>3. CASE TeardownEnd
    BY <2>1, <2>3 DEF TeardownEnd, ThreadState
  <2> QED
    BY <1>11, <2>2, <2>3 DEF Teardown
<1> QED
  BY <1>5, <1>6, <1>7, <1>8, <1>9, <1>10, <1>11 DEF Next, CoreNext, Poll, TaskSuspends

-----------------------------------------------------------------------------
(* Every step keeps the invariant.                                         *)

LEMMA QueueTypes ==
  ASSUME QueueInv
  PROVE  /\ QueueTypeOK /\ senders \in Seq(Nodes) /\ receivers \in Seq(Slots)
         /\ state \in [Slots -> States] /\ NoSlot \notin Slots
         /\ Capacity \in Nat \ {0} /\ NoValue \notin Values
  BY QueueAssumption
     DEF QueueInv, CellsExact, QueueTypeOK, Nodes, TimerInv, FifoInv, Typed, Slots, NoSlot

\* A step of the scheduler, with the destruction of the awaiters of the task that it
\* resumes or destroys.
LEMMA QueueSchedulerKeeps ==
  ASSUME QueueInv, QueueSchedulerStep
  PROVE  QueueInv'
<1> DEFINE x == Entered
<1>1. /\ Next /\ DropAwaiters(x) /\ UNCHANGED <<cells, head, count, exists, last, sent, received>>
  BY DEF QueueSchedulerStep, Entered, ring, history
<1>2. TimerInv'
  BY <1>1, TimerNext DEF QueueInv
<1>3. /\ ThreadState'
      /\ \A s \in Slots : /\ state'[s] = "waiting_local" => state[s] = "waiting_local"
                          /\ state[s] \in {"ready", "waiting_local"} /\ s # x =>
                               state'[s] = state[s]
      /\ x \in Slots => state'[x] \notin {"ready", "waiting_local"}
  BY <1>1, SchedulerMoves DEF QueueInv, TimerInv
<1> HIDE DEF x
<1>4. /\ receiving' = receiving \ {x}
      /\ result' = [t \in Slots |-> IF t = x THEN NoValue ELSE result[t]]
      /\ unlink_sender(x) /\ unlink_receiver(x)
  BY <1>1 DEF DropAwaiters
<1>5. /\ QueueTypeOK /\ senders \in Seq(Nodes) /\ receivers \in Seq(Slots)
      /\ IsInjective(SlotsOf(senders)) /\ IsInjective(receivers)
      /\ receiving \subseteq Slots /\ result \in [Slots -> Values \union {NoValue}]
  BY QueueTypes DEF QueueInv, ListsExact, QueueTypeOK
<1>6. /\ senders' \in Seq(Nodes) /\ (senders = << >> => senders' = << >>)
      /\ IsInjective(SlotsOf(senders'))
      /\ Range(SlotsOf(senders')) = Range(SlotsOf(senders)) \ {x}
  BY <1>4, <1>5, UnlinkSender
<1>7. /\ receivers' \in Seq(Slots) /\ (receivers = << >> => receivers' = << >>)
      /\ IsInjective(receivers') /\ Range(receivers') = Range(receivers) \ {x}
  BY <1>4, <1>5, UnlinkReceiver
<1>8. receiving' \subseteq Slots /\ result' \in [Slots -> Values \union {NoValue}]
  BY <1>4, <1>5
<1>9. QueueTypeOK'
  BY <1>1, <1>5, <1>6, <1>7, <1>8 DEF QueueTypeOK, Nodes
<1>10. CellsExact'
  BY <1>1, <1>9 DEF QueueInv, CellsExact
<1>11. NoNeedlessWait'
  BY <1>1, <1>6, <1>7 DEF QueueInv, NoNeedlessWait
<1>12. \A s \in receiving' : s \in Slots /\ s # x /\ s \in receiving
         /\ state'[s] = state[s] /\ state[s] \in {"ready", "waiting_local"}
  BY <1>3, <1>4, <1>5 DEF QueueInv, ReceivingExact
<1>13. ReceiverHasValue'
  <2>1. ASSUME NEW s \in receiving' PROVE result'[s] # NoValue <=> state'[s] = "ready"
    BY <1>4, <1>12 DEF QueueInv, ReceiverHasValue
  <2>2. ASSUME NEW s \in Slots, result'[s] # NoValue PROVE s \in receiving'
    BY <1>4, <2>2 DEF QueueInv, ReceiverHasValue
  <2> QED
    BY <2>1, <2>2 DEF ReceiverHasValue
<1>14. ListsExact'
  <2>1. ASSUME exists, NEW s \in Slots
        PROVE  state'[s] = "waiting_local" <=>
                 s \in Range(SlotsOf(senders')) \/ s \in Range(receivers')
    <3>1. state[s] = "waiting_local" <=> s \in Range(SlotsOf(senders)) \/ s \in Range(receivers)
      BY <2>1 DEF QueueInv, ListsExact
    <3> QED
      BY <1>3, <1>6, <1>7, <3>1
  <2>2. ~exists => senders' = << >> /\ receivers' = << >> /\ count = 0
    BY <1>6, <1>7 DEF QueueInv, ListsExact
  <2> QED
    BY <1>1, <1>6, <1>7, <2>1, <2>2 DEF ListsExact
<1>15. ReceivingExact'
  BY <1>4, <1>6, <1>7, <1>12 DEF QueueInv, ReceivingExact
<1> QED
  BY <1>2, <1>3, <1>10, <1>11, <1>13, <1>14, <1>15 DEF QueueInv

\* Operations that only report, ~Queue() among them.
LEMMA QueueReportKeeps ==
  ASSUME QueueInv, QueueRefuses \/ QueueDestroy
  PROVE  QueueInv'
<1>1. /\ UNCHANGED restVars /\ error' \in Errors
      /\ UNCHANGED <<receiving, result, last, sent, received>>
  BY DEF QueueRefuses, QueueDestroy, queueVars, history, Errors
<1>2. UNCHANGED <<state, current, phase, dying>>
  BY <1>1 DEF restVars, slotVars
<1>3. TimerInv' /\ ThreadState'
  BY <1>1, <1>2, ReportKeeps DEF QueueInv, ThreadState, shutting_down
<1>4. QueueTypeOK /\ Capacity \in Nat \ {0}
  BY QueueTypes
<1>5. ReceiverHasValue'
  BY <1>1, <1>2 DEF QueueInv, ReceiverHasValue
<1>6. CASE QueueRefuses
  <2>1. UNCHANGED <<cells, head, count, senders, receivers, receiving, result, exists>>
    BY <1>6 DEF QueueRefuses, queueVars, ring
  <2>2. CellsExact'
    BY <1>1, <2>1 DEF QueueInv, CellsExact, QueueTypeOK
  <2>3. NoNeedlessWait' /\ ListsExact' /\ ReceivingExact'
    BY <1>2, <2>1 DEF QueueInv, NoNeedlessWait, ListsExact, ReceivingExact
  <2> QED
    BY <1>3, <1>5, <2>2, <2>3 DEF QueueInv
<1>7. CASE QueueDestroy
  <2>1. /\ exists' = FALSE /\ senders' = << >> /\ receivers' = << >> /\ count' = 0
        /\ cells' = [i \in Cells |-> NoValue] /\ head' = tail_index(head, count)
    BY <1>7 DEF QueueDestroy
  <2>2. head' \in Cells /\ count' \in 0..Capacity
    BY <1>4, <2>1 DEF QueueTypeOK, tail_index, Cells
  <2>3. exists' \in BOOLEAN
    BY <2>1
  <2>4. QueueTypeOK'
    BY <1>1, <1>4, <2>1, <2>2, <2>3 DEF QueueTypeOK
  <2>5. CellsExact' /\ NoNeedlessWait'
    BY <2>1, <2>4 DEF CellsExact, NoNeedlessWait
  <2>6. IsInjective(receivers') /\ Range(receivers') = {}
    BY <2>1 DEF IsInjective, Range
  <2>7. SlotsOf(senders') = << >>
    BY <2>1 DEF SlotsOf
  <2>8. IsInjective(SlotsOf(senders')) /\ Range(SlotsOf(senders')) = {}
    BY <2>7 DEF IsInjective, Range
  <2>9. ListsExact' /\ ReceivingExact'
    BY <1>1, <1>2, <2>1, <2>6, <2>8 DEF QueueInv, ListsExact, ReceivingExact
  <2> QED
    BY <1>3, <1>5, <2>5, <2>9 DEF QueueInv
<1> QED
  BY <1>6, <1>7

\* Parking: the running task, which is on no list, becomes the newest node of one.
LEMMA ParkMoves ==
  ASSUME QueueInv, exists, Park
  PROVE  /\ TimerInv' /\ ThreadState'
         /\ current \in Slots /\ state[current] = "running" /\ current \notin receiving
         /\ current \notin Range(SlotsOf(senders)) /\ current \notin Range(receivers)
         /\ state'[current] = "waiting_local"
         /\ \A s \in Slots \ {current} : state'[s] = state[s]
<1>1. state \in [Slots -> States] /\ NoSlot \notin Slots
  BY QueueTypes
<1>2. /\ current \in Slots /\ state[current] = "running" /\ current' = NoSlot
      /\ UNCHANGED <<phase, dying>> /\ phase = "pass"
      /\ state' = [state EXCEPT ![current] = "waiting_local"]
  BY DEF Park, Suspends, QueueInv, ThreadState, TimerInv, FifoInv, Typed
<1>3. TimerInv'
  BY ParkKeeps DEF QueueInv
<1>4. ThreadState'
  BY <1>2 DEF ThreadState, shutting_down
<1>5. current \notin receiving
  BY <1>2 DEF QueueInv, ReceivingExact
<1>6. current \notin Range(SlotsOf(senders)) /\ current \notin Range(receivers)
  BY <1>2 DEF QueueInv, ListsExact
<1> QED
  BY <1>1, <1>2, <1>3, <1>4, <1>5, <1>6

LEMMA QueueSendParksKeeps ==
  ASSUME QueueInv, NEW v \in Values, QueueSendParks(v)
  PROVE  QueueInv'
<1> DEFINE a == [slot |-> current, value |-> v]
           p == SlotsOf(senders)
<1>1. /\ exists /\ receivers = << >> /\ count = Capacity /\ Park
      /\ senders' = Append(senders, a)
      /\ UNCHANGED <<cells, head, count, receivers, receiving, result, exists, last, received>>
      /\ sent' \in BOOLEAN
  BY DEF QueueSendParks, ring
<1>2. /\ TimerInv' /\ ThreadState'
      /\ current \in Slots /\ state[current] = "running" /\ current \notin receiving
      /\ current \notin Range(p) /\ current \notin Range(receivers)
      /\ state'[current] = "waiting_local"
      /\ \A s \in Slots \ {current} : state'[s] = state[s]
  BY <1>1, ParkMoves
<1>3. /\ QueueTypeOK /\ senders \in Seq(Nodes) /\ p \in Seq(Slots) /\ Capacity \in Nat \ {0}
      /\ IsInjective(p)
  BY QueueTypes, SlotsOfList DEF QueueInv, ListsExact
<1>4. a \in Nodes /\ a.slot = current
  BY <1>2 DEF Nodes
<1> HIDE DEF a, p
<1>5. senders' \in Seq(Nodes) /\ SlotsOf(senders') = Append(p, current)
  BY <1>1, <1>3, <1>4, SlotsOfAppend DEF p
<1>6. Range(SlotsOf(senders')) = Range(p) \union {current} /\ IsInjective(SlotsOf(senders'))
  BY <1>2, <1>3, <1>5, PushFifo
<1>7. QueueTypeOK'
  BY <1>1, <1>3, <1>5 DEF QueueTypeOK, Nodes
<1>8. CellsExact'
  BY <1>1, <1>7 DEF QueueInv, CellsExact
<1>9. NoNeedlessWait'
  BY <1>1, <1>3 DEF NoNeedlessWait
<1>10. receiving \subseteq Slots /\ \A s \in receiving : state'[s] = state[s]
  BY <1>2, <1>3 DEF QueueTypeOK
<1>11. ReceiverHasValue'
  BY <1>1, <1>10 DEF QueueInv, ReceiverHasValue
<1>12. ListsExact'
  BY <1>1, <1>2, <1>6 DEF QueueInv, ListsExact, p
<1>13. ReceivingExact'
  BY <1>1, <1>2, <1>6, <1>10 DEF QueueInv, ReceivingExact, p
<1> QED
  BY <1>2, <1>8, <1>9, <1>11, <1>12, <1>13 DEF QueueInv

LEMMA QueueReceiveParksKeeps ==
  ASSUME QueueInv, QueueReceiveParks
  PROVE  QueueInv'
<1>1. /\ exists /\ count = 0 /\ Park
      /\ receivers' = Append(receivers, current) /\ receiving' = receiving \union {current}
      /\ UNCHANGED <<cells, head, count, senders, result, exists, last, sent, received>>
  BY DEF QueueReceiveParks, ring, history
<1>2. /\ TimerInv' /\ ThreadState'
      /\ current \in Slots /\ state[current] = "running" /\ current \notin receiving
      /\ current \notin Range(SlotsOf(senders)) /\ current \notin Range(receivers)
      /\ state'[current] = "waiting_local"
      /\ \A s \in Slots \ {current} : state'[s] = state[s]
  BY <1>1, ParkMoves
<1>3. /\ QueueTypeOK /\ receivers \in Seq(Slots) /\ Capacity \in Nat \ {0}
      /\ IsInjective(receivers) /\ senders = << >>
  BY <1>1, QueueTypes DEF QueueInv, ListsExact, NoNeedlessWait
<1>4. /\ receivers' \in Seq(Slots) /\ Range(receivers') = Range(receivers) \union {current}
      /\ IsInjective(receivers')
  BY <1>1, <1>2, <1>3, PushFifo
<1>5. receiving' \subseteq Slots
  BY <1>1, <1>2, <1>3 DEF QueueTypeOK
<1>6. QueueTypeOK'
  BY <1>1, <1>3, <1>4, <1>5 DEF QueueTypeOK
<1>7. CellsExact'
  BY <1>1, <1>6 DEF QueueInv, CellsExact
<1>8. NoNeedlessWait'
  BY <1>1, <1>3 DEF NoNeedlessWait
<1>9. receiving \subseteq Slots /\ \A s \in receiving : state'[s] = state[s]
  BY <1>2, <1>3 DEF QueueTypeOK
<1>10. ReceiverHasValue'
  <2>1. result[current] = NoValue
    BY <1>2 DEF QueueInv, ReceiverHasValue
  <2> QED
    BY <1>1, <1>2, <1>9, <2>1 DEF QueueInv, ReceiverHasValue
<1>11. ListsExact'
  BY <1>1, <1>2, <1>4 DEF QueueInv, ListsExact
<1>12. ReceivingExact'
  BY <1>1, <1>2, <1>4, <1>9 DEF QueueInv, ReceivingExact
<1> QED
  BY <1>2, <1>7, <1>8, <1>10, <1>11, <1>12 DEF QueueInv

\* Waking the parked task w.
LEMMA WakeMoves ==
  ASSUME QueueInv, NEW w \in Slots, state[w] = "waiting_local", wake_all(<<w>>),
         UNCHANGED sleepVars, error' = "none"
  PROVE  /\ TimerInv' /\ ThreadState'
         /\ state'[w] = "ready" /\ \A s \in Slots \ {w} : state'[s] = state[s]
<1> DEFINE q == <<w>>
<1>1. q \in Seq(Slots) /\ IsInjective(q) /\ Range(q) = {w} /\ wake_all(q)
  BY DEF IsInjective, Range
<1> HIDE DEF q
<1>2. state' = [s \in Slots |-> IF s \in Range(q) THEN "ready" ELSE state[s]]
  BY <1>1 DEF wake_all
<1>3. state'[w] = "ready" /\ \A s \in Slots \ {w} : state'[s] = state[s]
  BY <1>1, <1>2
<1>4. /\ UNCHANGED <<generation, handle, parent, deadline_us, active_count, current,
                     dying, budget, timeVars, agenda>>
      /\ UNCHANGED phase /\ error' \in Errors
  BY DEF sleepVars, Errors
<1>5. TimerInv'
  <2>1. \A s \in Range(q) : state[s] = "waiting_local"
    BY <1>1
  <2> QED
    BY <1>1, <1>4, <2>1, WakeKeeps DEF QueueInv
<1>6. ThreadState'
  <2>1. dying # NoSlot => dying \in Slots
    BY DEF QueueInv, TimerInv, FifoInv, Typed
  <2> QED
    BY <1>3, <1>4, <2>1 DEF QueueInv, ThreadState, shutting_down
<1> QED
  BY <1>3, <1>5, <1>6

\* send() and trySend() to a parked receiver.
LEMMA HandToReceiverKeeps ==
  ASSUME QueueInv, NEW v \in Values, exists, HandToReceiver(v), error' = "none",
         sent' \in BOOLEAN, UNCHANGED <<sleepVars, senders, receiving, exists>>
  PROVE  QueueInv'
<1> DEFINE w == Head(receivers)
<1>1. /\ receivers # << >> /\ receivers' = Tail(receivers)
      /\ result' = [result EXCEPT ![w] = v] /\ wake_all(<<w>>) /\ last' = v
      /\ UNCHANGED <<cells, head, count, senders, receiving, exists>>
      /\ received' \in BOOLEAN
  BY DEF HandToReceiver, Deliver, Delivered, ring
<1>2. /\ QueueTypeOK /\ receivers \in Seq(Slots) /\ IsInjective(receivers)
      /\ NoValue \notin Values /\ Capacity \in Nat \ {0}
      /\ receiving \subseteq Slots /\ result \in [Slots -> Values \union {NoValue}]
  BY QueueTypes DEF QueueInv, ListsExact, QueueTypeOK
<1>3. /\ w \in Range(receivers) /\ receivers' \in Seq(Slots)
      /\ IsInjective(receivers') /\ Range(receivers') = Range(receivers) \ {w}
  BY <1>1, <1>2, PopFifo
<1>4. w \in receiving /\ w \in Slots
  BY <1>2, <1>3 DEF QueueInv, ReceivingExact
<1>5. state[w] = "waiting_local" /\ w \notin Range(SlotsOf(senders))
  BY <1>3, <1>4 DEF QueueInv, ListsExact, ReceivingExact
<1> HIDE DEF w
<1>6. /\ TimerInv' /\ ThreadState'
      /\ state'[w] = "ready" /\ \A s \in Slots \ {w} : state'[s] = state[s]
  BY <1>1, <1>4, <1>5, WakeMoves
<1>7. /\ result' \in [Slots -> Values \union {NoValue}] /\ result'[w] = v
      /\ \A s \in Slots \ {w} : result'[s] = result[s]
  BY <1>1, <1>2, <1>4
<1>8. QueueTypeOK'
  BY <1>1, <1>2, <1>3, <1>7 DEF QueueTypeOK
<1>9. CellsExact'
  BY <1>1, <1>8 DEF QueueInv, CellsExact
<1>10. NoNeedlessWait'
  BY <1>1 DEF QueueInv, NoNeedlessWait
<1>11. ReceiverHasValue'
  <2>1. ASSUME NEW s \in Slots
        PROVE  /\ s \in receiving => (result'[s] # NoValue <=> state'[s] = "ready")
               /\ result'[s] # NoValue => s \in receiving
    <3>1. CASE s = w
      BY <1>2, <1>4, <1>6, <1>7, <3>1
    <3>2. CASE s # w
      BY <1>6, <1>7, <3>2 DEF QueueInv, ReceiverHasValue
    <3> QED
      BY <3>1, <3>2
  <2> QED
    BY <1>1, <2>1 DEF ReceiverHasValue
<1>12. ListsExact'
  <2>1. ASSUME NEW s \in Slots
        PROVE  state'[s] = "waiting_local" <=>
                 s \in Range(SlotsOf(senders)) \/ s \in Range(receivers')
    BY <1>3, <1>5, <1>6 DEF QueueInv, ListsExact
  <2> QED
    BY <1>1, <1>3, <2>1 DEF QueueInv, ListsExact
<1>13. ReceivingExact'
  <2>1. \A s \in receiving : state'[s] \in {"ready", "waiting_local"}
    BY <1>2, <1>6 DEF QueueInv, ReceivingExact
  <2> QED
    BY <1>1, <1>3, <2>1 DEF QueueInv, ReceivingExact
<1> QED
  BY <1>6, <1>9, <1>10, <1>11, <1>12, <1>13 DEF QueueInv

\* send() and trySend() into the ring: the cell behind the last payload is raw.
LEMMA StoreBackKeeps ==
  ASSUME QueueInv, NEW v \in Values, exists, receivers = << >>, count < Capacity,
         store_back(v), error' = "none", sent' \in BOOLEAN,
         UNCHANGED <<sleepVars, senders, receiving, exists, receivers, result, state, ready>>,
         UNCHANGED <<last, received>>
  PROVE  QueueInv'
<1> DEFINE t == tail_index(head, count)
<1>1. cells' = [cells EXCEPT ![t] = v] /\ count' = count + 1 /\ UNCHANGED head
  BY DEF store_back
<1>2. /\ QueueTypeOK /\ NoValue \notin Values /\ Capacity \in Nat \ {0}
      /\ cells \in [Cells -> Values \union {NoValue}] /\ head \in Cells
      /\ count \in 0..Capacity
  BY QueueTypes DEF QueueTypeOK
<1>3. count \in 0..(Capacity - 1)
  BY <1>2
<1>4. t \in Cells /\ Distance(t, head) = count
      /\ \A i \in Cells : Distance(i, head) = count => i = t
  BY <1>2, <1>3, RingIndex
<1> HIDE DEF t
<1>5. /\ cells' \in [Cells -> Values \union {NoValue}] /\ cells'[t] = v
      /\ \A i \in Cells \ {t} : cells'[i] = cells[i]
  BY <1>1, <1>2, <1>4
<1>6. count' \in 0..Capacity
  BY <1>1, <1>2, <1>3
<1>7. QueueTypeOK'
  BY <1>1, <1>2, <1>5, <1>6 DEF QueueTypeOK
<1>8. ASSUME NEW i \in Cells PROVE cells'[i] # NoValue <=> Distance(i, head) < count + 1
  <2>1. Distance(i, head) \in Int /\ count \in Int
    BY <1>2, RingDistance
  <2>2. cells[i] # NoValue <=> Distance(i, head) < count
    BY <1>2, CellsByDistance DEF QueueInv
  <2>3. CASE i = t
    BY <1>2, <1>4, <1>5, <2>1, <2>3
  <2>4. CASE i # t
    BY <1>4, <1>5, <2>1, <2>2, <2>4
  <2> QED
    BY <2>3, <2>4
<1>9. CellsExact'
  <2>1. (exists => \A i \in Cells : cells[i] # NoValue <=> Distance(i, head) < count)'
    BY <1>1, <1>8 DEF Distance
  <2>2. QueueTypeOK' => (CellsExact' <=>
           (exists => \A i \in Cells : cells[i] # NoValue <=> Distance(i, head) < count)')
    BY CellsByDistance, PTL
  <2> QED
    BY <1>7, <2>1, <2>2
<1>10. TimerInv'
  <2>1. UNCHANGED restVars /\ error' \in Errors
    BY DEF restVars, sleepVars, slotVars, Errors
  <2> QED
    BY <2>1, ReportKeeps DEF QueueInv
<1>11. UNCHANGED <<state, current, phase, dying>>
  BY DEF sleepVars
<1>12. NoNeedlessWait'
  <2>1. senders = << >>
    BY <1>2 DEF QueueInv, NoNeedlessWait
  <2> QED
    BY <2>1 DEF NoNeedlessWait
<1>13. ThreadState' /\ ReceiverHasValue' /\ ListsExact' /\ ReceivingExact'
  BY <1>11 DEF QueueInv, ThreadState, shutting_down, ReceiverHasValue, ListsExact,
               ReceivingExact
<1> QED
  BY <1>9, <1>10, <1>12, <1>13 DEF QueueInv

LEMMA QueueSendKeeps ==
  ASSUME QueueInv, NEW v \in Values, QueueSend(v)
  PROVE  QueueInv'
<1>1. /\ exists /\ error' = "none" /\ UNCHANGED <<sleepVars, senders, receiving, exists>>
      /\ do_send(v) /\ sent' \in BOOLEAN
  BY DEF QueueSend
<1>2. CASE HandToReceiver(v)
  BY <1>1, <1>2, HandToReceiverKeeps
<1>3. CASE /\ receivers = << >> /\ count < Capacity /\ store_back(v)
           /\ UNCHANGED <<receivers, result, state, ready, last, received>>
  BY <1>1, <1>3, StoreBackKeeps
<1> QED
  BY <1>1, <1>2, <1>3 DEF do_send

\* receive() and tryReceive() that find no parked sender: the head cell becomes raw.
LEMMA PopKeeps ==
  ASSUME QueueInv, exists, count # 0, senders = << >>, last' = cells[head],
         received' \in BOOLEAN, UNCHANGED sent,
         head' = next_index(head), cells' = [cells EXCEPT ![head] = NoValue],
         count' = count - 1, error' = "none",
         UNCHANGED <<sleepVars, receivers, receiving, result, exists, senders, state, ready>>
  PROVE  QueueInv'
<1>1. /\ QueueTypeOK /\ NoValue \notin Values /\ Capacity \in Nat \ {0}
      /\ cells \in [Cells -> Values \union {NoValue}] /\ head \in Cells
      /\ count \in 0..Capacity
  BY QueueTypes DEF QueueTypeOK
<1>2. /\ head' \in Cells /\ Distance(head, head') = Capacity - 1
      /\ \A i \in Cells : i # head => Distance(i, head') = Distance(i, head) - 1
  BY <1>1, RingNext
<1>3. /\ cells' \in [Cells -> Values \union {NoValue}] /\ cells'[head] = NoValue
      /\ \A i \in Cells \ {head} : cells'[i] = cells[i]
  BY <1>1
<1>4. count' \in 0..Capacity
  BY <1>1
<1>5. QueueTypeOK'
  BY <1>1, <1>2, <1>3, <1>4 DEF QueueTypeOK
<1>6. ASSUME NEW i \in Cells PROVE cells'[i] # NoValue <=> Distance(i, head') < count'
  <2>1. Distance(i, head) \in Int /\ count \in Int
    BY <1>1, RingDistance
  <2>2. cells[i] # NoValue <=> Distance(i, head) < count
    BY <1>1, CellsByDistance DEF QueueInv
  <2>3. CASE i = head
    BY <1>1, <1>2, <1>3, <2>3
  <2>4. CASE i # head
    BY <1>2, <1>3, <2>1, <2>2, <2>4
  <2> QED
    BY <2>3, <2>4
<1>7. CellsExact'
  <2>1. (exists => \A i \in Cells : cells[i] # NoValue <=> Distance(i, head) < count)'
    BY <1>6 DEF Distance
  <2>2. QueueTypeOK' => (CellsExact' <=>
           (exists => \A i \in Cells : cells[i] # NoValue <=> Distance(i, head) < count)')
    BY CellsByDistance, PTL
  <2> QED
    BY <1>5, <2>1, <2>2
<1>8. TimerInv'
  <2>1. UNCHANGED restVars /\ error' \in Errors
    BY DEF restVars, sleepVars, slotVars, Errors
  <2> QED
    BY <2>1, ReportKeeps DEF QueueInv
<1>9. UNCHANGED <<state, current, phase, dying>>
  BY DEF sleepVars
<1>10. NoNeedlessWait'
  <2>1. receivers = << >>
    BY DEF QueueInv, NoNeedlessWait
  <2> QED
    BY <2>1 DEF NoNeedlessWait
<1>11. ThreadState' /\ ReceiverHasValue' /\ ListsExact' /\ ReceivingExact'
  BY <1>9 DEF QueueInv, ThreadState, shutting_down, ReceiverHasValue, ListsExact,
              ReceivingExact
<1> QED
  BY <1>7, <1>8, <1>10, <1>11 DEF QueueInv

\* receive() and tryReceive() from a full Queue with parked senders: the value of the
\* oldest one takes the cell that was emptied.
LEMMA AdmitKeeps ==
  ASSUME QueueInv, exists, count # 0, senders # << >>, last' = cells[head],
         received' \in BOOLEAN, UNCHANGED sent, head' = next_index(head),
         cells' = AdmitValue([cells EXCEPT ![head] = NoValue]),
         senders' = Tail(senders), wake_all(<<Head(senders).slot>>), error' = "none",
         UNCHANGED <<sleepVars, receivers, receiving, result, exists, count>>
  PROVE  QueueInv'
<1> DEFINE w == Head(senders).slot
           x == Head(senders).value
           p == SlotsOf(senders)
<1>1. /\ QueueTypeOK /\ NoValue \notin Values /\ Capacity \in Nat \ {0}
      /\ cells \in [Cells -> Values \union {NoValue}] /\ head \in Cells
      /\ count \in 0..Capacity /\ senders \in Seq(Nodes) /\ IsInjective(p)
  BY QueueTypes DEF QueueTypeOK, QueueInv, ListsExact
<1>2. count = Capacity
  BY DEF QueueInv, NoNeedlessWait
<1>3. /\ head' \in Cells /\ tail_index(head', count - 1) = head
  BY <1>1, <1>2, RingNext
<1>4. Head(senders) \in Nodes
  BY <1>1
<1>5. x \in Values /\ w \in Slots
  BY <1>4 DEF Nodes
<1>6. cells' = [cells EXCEPT ![head] = x]
  <2>1. cells' = [[cells EXCEPT ![head] = NoValue] EXCEPT ![head] = x]
    BY <1>3 DEF AdmitValue
  <2> QED
    BY <1>1, <2>1
<1>7. /\ senders' \in Seq(Nodes) /\ SlotsOf(senders') = Tail(p) /\ p # << >>
      /\ w = Head(p) /\ p \in Seq(Slots)
  BY <1>1, SlotsOfTail, SlotsOfList
<1> HIDE DEF w, x, p
<1>8. /\ w \in Range(p) /\ IsInjective(SlotsOf(senders'))
      /\ Range(SlotsOf(senders')) = Range(p) \ {w}
  BY <1>1, <1>7, PopFifo
<1>9. state[w] = "waiting_local" /\ w \notin Range(receivers) /\ w \notin receiving
  BY <1>5, <1>8 DEF QueueInv, ListsExact, ReceivingExact, p
<1>10. /\ TimerInv' /\ ThreadState'
       /\ state'[w] = "ready" /\ \A s \in Slots \ {w} : state'[s] = state[s]
  <2>1. wake_all(<<w>>)
    BY DEF w
  <2> QED
    BY <1>5, <1>9, <2>1, WakeMoves
<1>11. cells' \in [Cells -> Values \union {NoValue}] /\ \A i \in Cells : cells'[i] # NoValue
  <2>1. \A i \in Cells : cells[i] # NoValue
    <3>1. \A i \in Cells : Distance(i, head) \in 0..(Capacity - 1)
      BY <1>1, RingDistance
    <3>2. \A i \in Cells : cells[i] # NoValue <=> Distance(i, head) < Capacity
      BY <1>1, <1>2, CellsByDistance DEF QueueInv
    <3> QED
      BY <1>1, <3>1, <3>2
  <2> QED
    BY <1>1, <1>5, <1>6, <2>1
<1>12. last' \in Values \union {NoValue}
  BY <1>1
<1>13. QueueTypeOK'
  BY <1>1, <1>3, <1>7, <1>11, <1>12 DEF QueueTypeOK, Nodes
<1>14. CellsExact'
  <2>1. \A i \in Cells : Distance(i, head') \in 0..(Capacity - 1)
    BY <1>3, RingDistance
  <2>2. count' = Capacity
    BY <1>2
  <2>3. \A i \in Cells : Distance(i, head') < count'
    BY <1>1, <2>1, <2>2
  <2>4. \A i \in Cells : cells'[i] # NoValue <=> Distance(i, head') < count'
    BY <1>11, <2>3
  <2>5. (exists => \A i \in Cells : cells[i] # NoValue <=> Distance(i, head) < count)'
    BY <2>4 DEF Distance
  <2>6. QueueTypeOK' => (CellsExact' <=>
           (exists => \A i \in Cells : cells[i] # NoValue <=> Distance(i, head) < count)')
    BY CellsByDistance, PTL
  <2> QED
    BY <1>13, <2>5, <2>6
<1>15. NoNeedlessWait'
  BY <1>2 DEF QueueInv, NoNeedlessWait
<1>16. receiving \subseteq Slots /\ \A s \in receiving : state'[s] = state[s]
  BY <1>1, <1>9, <1>10 DEF QueueTypeOK
<1>17. ReceiverHasValue'
  BY <1>16 DEF QueueInv, ReceiverHasValue
<1>18. ListsExact'
  <2>1. ASSUME NEW s \in Slots
        PROVE  state'[s] = "waiting_local" <=>
                 s \in Range(SlotsOf(senders')) \/ s \in Range(receivers)
    BY <1>8, <1>9, <1>10 DEF QueueInv, ListsExact, p
  <2> QED
    BY <1>8, <2>1 DEF QueueInv, ListsExact
<1>19. ReceivingExact'
  BY <1>8, <1>16 DEF QueueInv, ReceivingExact, p
<1> QED
  BY <1>10, <1>14, <1>15, <1>17, <1>18, <1>19 DEF QueueInv

LEMMA QueueReceiveKeeps ==
  ASSUME QueueInv, QueueReceive
  PROVE  QueueInv'
<1>1. /\ exists /\ count # 0 /\ last' = cells[head] /\ error' = "none"
      /\ received' \in BOOLEAN /\ UNCHANGED sent
      /\ UNCHANGED <<sleepVars, receivers, receiving, result, exists>>
      /\ pop_and_admit
  BY DEF QueueReceive, Delivered
<1>2. CASE senders = << >>
  BY <1>1, <1>2, PopKeeps DEF pop_and_admit
<1>3. CASE senders # << >>
  BY <1>1, <1>3, AdmitKeeps DEF pop_and_admit
<1> QED
  BY <1>2, <1>3

-----------------------------------------------------------------------------
(* The invariant and what it says.                                         *)

LEMMA QueueInvInit == QueueInit => QueueInv
<1> SUFFICES ASSUME QueueInit PROVE QueueInv
  OBVIOUS
<1>1. TimerInv
  BY TimerInit DEF QueueInit
<1>2. /\ cells = [i \in Cells |-> NoValue] /\ head = 0 /\ count = 0
      /\ senders = << >> /\ receivers = << >> /\ receiving = {}
      /\ result = [s \in Slots |-> NoValue] /\ exists = TRUE /\ last = NoValue
      /\ sent = FALSE /\ received = FALSE
  BY DEF QueueInit
<1>3. /\ state = [s \in Slots |-> "free"] /\ current = NoSlot /\ phase = "idle"
      /\ dying = NoSlot
  BY DEF QueueInit, Init
<1>4. head \in Cells /\ count \in 0..Capacity /\ exists \in BOOLEAN
      /\ sent \in BOOLEAN /\ received \in BOOLEAN
  BY <1>2, QueueAssumption DEF Cells
<1>5. QueueTypeOK
  BY <1>2, <1>4 DEF QueueTypeOK
<1>6. \A i \in Cells : Distance(i, head) \in 0..(Capacity - 1)
  BY <1>4, RingDistance
<1>7. \A i \in Cells : cells[i] # NoValue <=> Distance(i, head) < count
  BY <1>2, <1>6, QueueAssumption
<1>8. CellsExact
  BY <1>5, <1>7, CellsByDistance
<1>9. SlotsOf(senders) = << >>
  BY <1>2 DEF SlotsOf
<1>10. /\ IsInjective(SlotsOf(senders)) /\ Range(SlotsOf(senders)) = {}
       /\ IsInjective(receivers) /\ Range(receivers) = {}
  BY <1>2, <1>9 DEF IsInjective, Range
<1>11. ListsExact /\ ReceivingExact /\ ReceiverHasValue /\ NoNeedlessWait
  BY <1>2, <1>3, <1>10 DEF ListsExact, ReceivingExact, ReceiverHasValue, NoNeedlessWait
<1>12. ThreadState
  BY <1>3 DEF ThreadState
<1> QED
  BY <1>1, <1>8, <1>11, <1>12 DEF QueueInv

LEMMA QueueInvNext == QueueInv /\ [QueueNext]_qvars => QueueInv'
<1> SUFFICES ASSUME QueueInv, [QueueNext]_qvars PROVE QueueInv'
  OBVIOUS
<1>1. CASE QueueNext
  BY <1>1, QueueSchedulerKeeps, QueueReportKeeps, QueueSendParksKeeps,
     QueueReceiveParksKeeps, QueueSendKeeps, QueueReceiveKeeps DEF QueueNext, QueueSuspends
<1>2. CASE UNCHANGED qvars
  <2>1. UNCHANGED vars /\ UNCHANGED <<state, current, phase, dying>>
    BY <1>2 DEF qvars, vars, slotVars
  <2>2. /\ UNCHANGED <<cells, head, count, senders, receivers, receiving, result, exists>>
        /\ UNCHANGED <<last, sent, received>>
    BY <1>2 DEF qvars, queueVars, ring, history
  <2>3. TimerInv'
    BY <2>1, TimerNext DEF QueueInv
  <2>4. CellsExact'
    BY <2>2 DEF QueueInv, CellsExact, QueueTypeOK
  <2>5. NoNeedlessWait' /\ ReceiverHasValue' /\ ThreadState' /\ ListsExact' /\ ReceivingExact'
    BY <2>1, <2>2 DEF QueueInv, NoNeedlessWait, ReceiverHasValue, ThreadState, shutting_down,
                      ListsExact, ReceivingExact
  <2> QED
    BY <2>3, <2>4, <2>5 DEF QueueInv
<1> QED
  BY <1>1, <1>2

\* The invariant holds in every execution of tasks that share a Queue.
LEMMA QueueInvariant == QueueSpec => []QueueInv
  BY QueueInvInit, QueueInvNext, PTL DEF QueueSpec

\* For every capacity, payloads live in exactly the count_ cells from head_ on.
THEOREM QueueCellsExact == QueueSpec => []CellsExact
<1>1. QueueInv => CellsExact
  BY DEF QueueInv
<1> QED
  BY <1>1, QueueInvariant, PTL

\* No receiver stays parked on a Queue with a payload, no sender on one with room.
THEOREM QueueNeverWaitsNeedlessly == QueueSpec => []NoNeedlessWait
<1>1. QueueInv => NoNeedlessWait
  BY DEF QueueInv
<1> QED
  BY <1>1, QueueInvariant, PTL

\* A receive() that is resumed finds its value, and none is written over.
THEOREM QueueReceiversServed == QueueSpec => []ReceiverHasValue
<1>1. QueueInv => ReceiverHasValue
  BY DEF QueueInv
<1> QED
  BY <1>1, QueueInvariant, PTL

\* A list without repetitions has as many entries as elements.
LEMMA ListCardinality ==
  ASSUME NEW q \in Seq(Slots), IsInjective(q)
  PROVE  Cardinality(Range(q)) = Len(q)
<1> DEFINE n == Len(q)
           R == Range(q)
<1>1. n \in Nat /\ DOMAIN q = 1..n
  OBVIOUS
<1>2. q \in [1..n -> R] /\ \A x \in R : \E i \in 1..n : q[i] = x
  BY <1>1 DEF Range
<1> HIDE DEF n, R
<1>3. q \in Bijection(1..n, R)
  BY <1>2 DEF Bijection, Injection, Surjection
<1>4. ExistsBijection(1..n, R)
  BY <1>3 DEF ExistsBijection
<1> QED
  BY <1>1, <1>4, FS_CountingElements DEF n, R

\* Every parked task stands once in one of the wait lists, and nothing else does.
THEOREM QueueListsExact == QueueSpec => []ParkedExact
<1>1. ASSUME QueueInv PROVE ParkedExact
  <2> SUFFICES ASSUME exists
               PROVE  /\ Cardinality(Parked) = Len(senders) + Len(receivers)
                      /\ Parked = {s \in Slots : state[s] = "waiting_local"}
    BY DEF ParkedExact
  <2> DEFINE p == SlotsOf(senders)
  <2>1. /\ p \in Seq(Slots) /\ Len(p) = Len(senders) /\ receivers \in Seq(Slots)
        /\ IsInjective(p) /\ IsInjective(receivers) /\ DOMAIN senders = 1..Len(senders)
        /\ \A i \in 1..Len(senders) : p[i] = senders[i].slot
    BY <1>1, QueueTypes, SlotsOfList DEF QueueInv, ListsExact
  <2>2. DOMAIN p = 1..Len(senders) /\ Range(p) \subseteq Slots /\ Range(receivers) \subseteq Slots
    BY <2>1 DEF Range
  <2> HIDE DEF p
  <2>3. Range(p) = {senders[i].slot : i \in DOMAIN senders}
    BY <2>1, <2>2 DEF Range
  <2>4. Parked = Range(p) \union Range(receivers)
    BY <2>3 DEF Parked
  <2>5. Parked = {s \in Slots : state[s] = "waiting_local"}
    BY <1>1, <2>2, <2>4 DEF QueueInv, ListsExact, p
  <2>6. Cardinality(Range(p)) = Len(senders) /\ Cardinality(Range(receivers)) = Len(receivers)
    BY <2>1, ListCardinality
  <2>7. senders = << >> \/ receivers = << >>
    BY <1>1, QueueAssumption DEF QueueInv, NoNeedlessWait
  <2>8. Len(senders) \in Nat /\ Len(receivers) \in Nat
    BY <1>1, QueueTypes
  <2>9. CASE senders = << >>
    <3>1. Len(senders) = 0
      BY <2>9
    <3>2. Range(p) = {}
      BY <2>2, <3>1 DEF Range
    <3>3. Parked = Range(receivers)
      BY <2>4, <3>2
    <3>4. Cardinality(Parked) = Len(receivers)
      BY <2>6, <3>3, Zenon
    <3> QED
      BY <2>5, <2>8, <3>1, <3>4
  <2>10. CASE receivers = << >>
    <3>1. Len(receivers) = 0 /\ Range(receivers) = {}
      BY <2>10 DEF Range
    <3>2. Parked = Range(p)
      BY <2>4, <3>1
    <3>3. Cardinality(Parked) = Len(senders)
      BY <2>6, <3>2, Zenon
    <3> QED
      BY <2>5, <2>8, <3>1, <3>3
  <2> QED
    BY <2>7, <2>9, <2>10
<1>2. QueueInv => ParkedExact
  BY <1>1
<1> QED
  BY <1>2, QueueInvariant, PTL

-----------------------------------------------------------------------------
(* The Queue implements the Channel.                                       *)

Payloads == Values \union {NoValue}

\* What Contents holds: the cells from head_ on, then the values of parked senders.
ContentsShape ==
  /\ Contents \in Seq(Payloads) /\ Len(Contents) = count + Len(senders)
  /\ \A i \in 1..count : Contents[i] = cells[tail_index(head, i - 1)]
  /\ \A i \in 1..Len(senders) : Contents[count + i] = senders[i].value

LEMMA ContentsIs == QueueInv => ContentsShape
<1> SUFFICES ASSUME QueueInv PROVE ContentsShape
  OBVIOUS
<1> DEFINE m == Len(senders)
           a == [i \in 1..count |-> cells[(head + i - 1) % Capacity]]
           b == [i \in 1..m |-> senders[i].value]
<1>1. /\ cells \in [Cells -> Payloads] /\ head \in Cells /\ count \in 0..Capacity
      /\ senders \in Seq(Nodes) /\ Capacity \in Nat \ {0}
  BY QueueTypes DEF QueueTypeOK, Payloads
<1>2. count \in Nat /\ m \in Nat /\ head \in Nat
  BY <1>1 DEF Cells
<1>3. ASSUME NEW i \in 1..count
      PROVE  /\ (head + i - 1) % Capacity = tail_index(head, i - 1)
             /\ tail_index(head, i - 1) \in Cells
  <2>1. i - 1 \in 0..(Capacity - 1) /\ head + i - 1 = head + (i - 1)
    BY <1>1, <1>2
  <2> QED
    BY <1>1, <2>1, RingIndex
<1>4. \A i \in 1..count : a[i] = cells[tail_index(head, i - 1)] /\ a[i] \in Payloads
  BY <1>1, <1>3
<1>5. \A i \in 1..m : senders[i] \in Nodes
  BY <1>1
<1>6. \A i \in 1..m : b[i] = senders[i].value /\ b[i] \in Payloads
  BY <1>5 DEF Nodes, Payloads
<1>7. a \in [1..count -> Payloads] /\ b \in [1..m -> Payloads]
  BY <1>4, <1>6
<1>8. Contents = a \o b
  BY DEF Contents
<1> HIDE DEF a, b, m
<1>9. a \in Seq(Payloads) /\ Len(a) = count /\ b \in Seq(Payloads) /\ Len(b) = m
  BY <1>2, <1>7
<1>10. /\ a \o b \in Seq(Payloads) /\ Len(a \o b) = count + m
       /\ \A i \in 1..count : (a \o b)[i] = a[i]
       /\ \A i \in 1..m : (a \o b)[count + i] = b[i]
  BY <1>2, <1>9
<1> QED
  BY <1>4, <1>6, <1>8, <1>10 DEF ContentsShape, m

\* What a step of the Channel is.
ChannelStep == [AbstractChannel!Next]_<<Contents, last, sent, received, Stage>>

\* A step that leaves the ring and the parked senders alone keeps the contents.
LEMMA ContentsKept ==
  ASSUME UNCHANGED <<cells, head, count, senders>>
  PROVE  UNCHANGED Contents
  BY DEF Contents

\* An operation of a Queue that is there leaves the channel as open as it is.
LEMMA StageKept ==
  ASSUME exists, UNCHANGED <<exists, phase>>
  PROVE  UNCHANGED Stage /\ Stage # "closed"
  BY DEF Stage, shutting_down

\* A step of the scheduler, from which the shutdown never returns, abandons the
\* channel or leaves its stage alone.
LEMMA SchedulerStage ==
  ASSUME Next, UNCHANGED exists
  PROVE  UNCHANGED Stage \/ (Stage = "open" /\ Stage' = "abandoned")
<1>1. shutting_down => shutting_down'
  BY TeardownIsFinal
<1> QED
  BY <1>1 DEF Stage

\* A parked sender is destroyed by ~Scheduler() only.
LEMMA DroppedInTeardown ==
  ASSUME QueueInv, QueueSchedulerStep, NEW i \in 1..Len(senders), senders[i].slot = Entered
  PROVE  Stage = "abandoned" /\ UNCHANGED Stage
<1> DEFINE p == SlotsOf(senders)
<1>1. Next /\ UNCHANGED exists /\ FifoInv /\ ThreadState
  BY DEF QueueSchedulerStep, QueueInv, TimerInv
<1>2. senders \in Seq(Nodes) /\ p \in Seq(Slots) /\ Len(p) = Len(senders) /\ p[i] = Entered
  BY QueueTypes, SlotsOfList
<1> HIDE DEF p
<1>3. Entered \in Slots /\ Entered \in Range(p)
  BY <1>2 DEF Range
<1>4. exists
  BY <1>2 DEF QueueInv, ListsExact
<1>5. state[Entered] = "waiting_local"
  BY <1>3, <1>4 DEF QueueInv, ListsExact, p
<1>6. state'[Entered] # "waiting_local"
  BY <1>1, <1>3, SchedulerMoves
<1>7. shutting_down
  BY <1>1, <1>3, <1>5, <1>6, SchedulerKeepsParked
<1>8. shutting_down'
  BY <1>1, <1>7, TeardownIsFinal
<1> QED
  BY <1>1, <1>4, <1>7, <1>8 DEF Stage

\* A sender that is destroyed while it waits withdraws its value.
LEMMA WithdrawsSender ==
  ASSUME QueueInv, QueueInv', NEW i \in 1..Len(senders), Drops(senders, i, senders'),
         UNCHANGED <<cells, head, count, last, sent, received>>,
         Stage = "abandoned", UNCHANGED Stage
  PROVE  AbstractChannel!Withdraw
<1> DEFINE c == Contents
           d == Contents'
           m == Len(senders)
           j == count + i
<1>1. ContentsShape /\ ContentsShape'
  <2>1. QueueInv' => ContentsShape'
    BY ContentsIs, PTL
  <2> QED
    BY <2>1, ContentsIs
<1>2. m \in Nat /\ count \in Nat /\ i \in 1..m /\ count = Capacity
  BY QueueTypes DEF QueueInv, NoNeedlessWait, QueueTypeOK
<1>3. /\ Len(senders') = m - 1
      /\ \A k \in 1..(m - 1) : senders'[k] = IF k < i THEN senders[k] ELSE senders[k + 1]
  BY DEF Drops
<1>4. /\ c \in Seq(Payloads) /\ Len(c) = count + m
      /\ \A k \in 1..count : c[k] = cells[tail_index(head, k - 1)]
      /\ \A k \in 1..m : c[count + k] = senders[k].value
  BY <1>1 DEF ContentsShape
<1>5. /\ d \in Seq(Payloads) /\ Len(d) = count + (m - 1)
      /\ \A k \in 1..count : d[k] = cells[tail_index(head, k - 1)]
      /\ \A k \in 1..(m - 1) : d[count + k] = senders'[k].value
  BY <1>1, <1>3 DEF ContentsShape, tail_index
<1> HIDE DEF c, d, m
<1>6. j \in 1..Len(c) /\ j \in (Capacity + 1)..Len(c) /\ Len(d) = Len(c) - 1
  BY <1>2, <1>4, <1>5
<1>7. ASSUME NEW k \in 1..(Len(c) - 1) PROVE d[k] = IF k < j THEN c[k] ELSE c[k + 1]
  <2>1. CASE k <= count
    BY <1>2, <1>4, <1>5, <2>1
  <2>2. CASE k > count
    <3> DEFINE l == k - count
    <3>1. l \in 1..(m - 1) /\ k = count + l /\ k + 1 = count + (l + 1)
          /\ l \in 1..m /\ l + 1 \in 1..m /\ (k < j <=> l < i)
      BY <1>2, <1>4, <2>2
    <3> HIDE DEF l, j
    <3>2. d[k] = senders'[l].value /\ c[k] = senders[l].value /\ c[k + 1] = senders[l + 1].value
      BY <1>4, <1>5, <3>1
    <3>3. senders'[l] = IF l < i THEN senders[l] ELSE senders[l + 1]
      BY <1>3, <3>1
    <3> QED
      BY <3>1, <3>2, <3>3
  <2> QED
    BY <1>2, <1>4, <2>1, <2>2
<1> DEFINE r == SubSeq(c, 1, j - 1) \o SubSeq(c, j + 1, Len(c))
<1> HIDE DEF j
<1>8. r \in Seq(Payloads) /\ Drops(c, j, r)
  BY <1>4, <1>6, UnlinkFifo
<1> HIDE DEF r
<1>9. Len(r) = Len(d) /\ Len(d) = Len(c) - 1 /\ \A k \in 1..(Len(c) - 1) : r[k] = d[k]
  BY <1>6, <1>7, <1>8 DEF Drops
<1>10. d = r
  BY <1>5, <1>8, <1>9
<1> QED
  BY <1>6, <1>10 DEF AbstractChannel!Withdraw, c, d, r

\* A value that is sent becomes the newest one: in the ring, or with a parked sender.
LEMMA PutsValue ==
  ASSUME QueueInv, QueueInv', NEW v \in Values,
         \/ /\ senders' = Append(senders, [slot |-> current, value |-> v])
            /\ current \in Slots /\ UNCHANGED <<cells, head, count>>
         \/ senders = << >> /\ UNCHANGED senders /\ count < Capacity /\ store_back(v)
  PROVE  Contents' = Append(Contents, v)
<1> DEFINE c == Contents
           d == Contents'
           n == Len(c)
<1>1. ContentsShape /\ ContentsShape'
  <2>1. QueueInv' => ContentsShape'
    BY ContentsIs, PTL
  <2> QED
    BY <2>1, ContentsIs
<1>2. /\ Capacity \in Nat \ {0} /\ count \in 0..Capacity /\ head \in Cells
      /\ cells \in [Cells -> Payloads] /\ senders \in Seq(Nodes) /\ v \in Payloads
  BY QueueTypes DEF QueueTypeOK, Payloads
<1>3. /\ c \in Seq(Payloads) /\ n = count + Len(senders)
      /\ \A k \in 1..count : c[k] = cells[tail_index(head, k - 1)]
      /\ \A k \in 1..Len(senders) : c[count + k] = senders[k].value
  BY <1>1 DEF ContentsShape
<1>4. /\ d \in Seq(Payloads) /\ Len(d) = count' + Len(senders')
      /\ \A k \in 1..count' : d[k] = cells'[tail_index(head', k - 1)]
      /\ \A k \in 1..Len(senders') : d[count' + k] = senders'[k].value
  BY <1>1 DEF ContentsShape, tail_index
<1> HIDE DEF c, d
<1>5. n \in Nat /\ Len(senders) \in Nat
  BY <1>2, <1>3
<1> HIDE DEF n
<1> SUFFICES Len(d) = n + 1 /\ d[n + 1] = v /\ \A k \in 1..n : d[k] = c[k]
  <2> SUFFICES ASSUME Len(d) = n + 1, d[n + 1] = v, \A k \in 1..n : d[k] = c[k]
               PROVE  d = Append(c, v)
    BY DEF c, d
  <2> DEFINE r == Append(c, v)
  <2>1. r \in Seq(Payloads) /\ Len(r) = n + 1 /\ r[n + 1] = v /\ \A k \in 1..n : r[k] = c[k]
    BY <1>2, <1>3, <1>5 DEF n
  <2> HIDE DEF r
  <2>2. \A k \in 1..(n + 1) : d[k] = r[k]
    BY <1>5, <2>1
  <2>3. d = r
    BY <1>4, <1>5, <2>1, <2>2
  <2> QED
    BY <2>3 DEF r
<1>6. ASSUME senders' = Append(senders, [slot |-> current, value |-> v]),
             current \in Slots, UNCHANGED <<cells, head, count>>
      PROVE  Len(d) = n + 1 /\ d[n + 1] = v /\ \A k \in 1..n : d[k] = c[k]
  <2> DEFINE m == Len(senders)
             a == [slot |-> current, value |-> v]
  <2>1. a \in Nodes /\ a.value = v
    BY <1>6 DEF Nodes
  <2> HIDE DEF a
  <2>2. /\ Len(senders') = m + 1 /\ senders'[m + 1] = a
        /\ \A k \in 1..m : senders'[k] = senders[k]
    BY <1>2, <1>6, <2>1 DEF a
  <2> HIDE DEF m
  <2>3. m \in Nat /\ count \in Nat /\ n = count + m
    BY <1>2, <1>3, <1>5 DEF m
  <2>4. Len(d) = n + 1
    <3>1. count' = count
      BY <1>6
    <3>2. Len(d) = count + (m + 1)
      BY <1>4, <2>2, <3>1
    <3> QED
      BY <2>3, <3>2
  <2>5. d[n + 1] = v
    <3>1. n + 1 = count + (m + 1) /\ m + 1 \in 1..(m + 1)
      BY <2>3
    <3>2. d[count + (m + 1)] = senders'[m + 1].value
      BY <1>4, <1>6, <2>2, <3>1
    <3> QED
      BY <2>1, <2>2, <3>1, <3>2
  <2>6. ASSUME NEW k \in 1..n PROVE d[k] = c[k]
    <3>1. CASE k <= count
      BY <1>3, <1>4, <1>6, <2>3, <3>1
    <3>2. CASE k > count
      <4> DEFINE l == k - count
      <4>1. l \in 1..m /\ k = count + l /\ l \in 1..(m + 1)
        BY <2>3, <3>2
      <4> HIDE DEF l
      <4>2. c[k] = senders[l].value
        BY <1>3, <4>1 DEF m
      <4>3. d[k] = senders'[l].value
        BY <1>4, <1>6, <2>2, <4>1
      <4> QED
        BY <2>2, <4>1, <4>2, <4>3
    <3> QED
      BY <2>3, <3>1, <3>2
  <2> QED
    BY <2>4, <2>5, <2>6
<1>7. ASSUME senders = << >>, UNCHANGED senders, count < Capacity, store_back(v)
      PROVE  Len(d) = n + 1 /\ d[n + 1] = v /\ \A k \in 1..n : d[k] = c[k]
  <2>1. /\ cells' = [cells EXCEPT ![tail_index(head, count)] = v]
        /\ count' = count + 1 /\ UNCHANGED head
    BY <1>7 DEF store_back
  <2>2. Len(senders) = 0 /\ n = count /\ count \in 0..(Capacity - 1) /\ count \in Nat
    BY <1>2, <1>3, <1>7
  <2>3. Len(d) = n + 1
    BY <1>4, <1>7, <2>1, <2>2
  <2>4. \A k \in 1..(n + 1) : d[k] = cells'[tail_index(head, k - 1)]
    BY <1>4, <2>1, <2>2
  <2>5. tail_index(head, count) \in Cells /\ Distance(tail_index(head, count), head) = count
    BY <1>2, <2>2, RingIndex
  <2>6. d[n + 1] = v
    <3>1. n + 1 \in 1..(n + 1) /\ (n + 1) - 1 = count
      BY <1>5, <2>2
    <3>2. d[n + 1] = cells'[tail_index(head, count)]
      BY <2>4, <3>1
    <3> QED
      BY <1>2, <2>1, <2>5, <3>2
  <2>7. ASSUME NEW k \in 1..n PROVE d[k] = c[k]
    <3> DEFINE l == k - 1
    <3>1. l \in 0..(Capacity - 1) /\ l # count /\ k \in 1..(n + 1) /\ k \in 1..count
      BY <1>2, <1>5, <2>2
    <3>2. d[k] = cells'[tail_index(head, l)] /\ c[k] = cells[tail_index(head, l)]
      BY <1>3, <2>4, <3>1
    <3> HIDE DEF l
    <3>3. tail_index(head, l) \in Cells /\ Distance(tail_index(head, l), head) = l
      BY <1>2, <3>1, RingIndex
    <3>4. tail_index(head, l) # tail_index(head, count)
      BY <2>5, <3>1, <3>3
    <3> QED
      BY <1>2, <2>1, <3>2, <3>3, <3>4
  <2> QED
    BY <2>3, <2>6, <2>7
<1> QED
  BY <1>6, <1>7

\* A value that is received was the oldest one, also when a parked sender moves up.
LEMMA TakesValue ==
  ASSUME QueueInv, QueueInv', QueueReceive
  PROVE  AbstractChannel!Take
<1> DEFINE c == Contents
           d == Contents'
           n == Len(c)
           popped == [cells EXCEPT ![head] = NoValue]
<1>1. ContentsShape /\ ContentsShape'
  <2>1. QueueInv' => ContentsShape'
    BY ContentsIs, PTL
  <2> QED
    BY <2>1, ContentsIs
<1>2. /\ Capacity \in Nat \ {0} /\ count \in 1..Capacity /\ head \in Cells
      /\ cells \in [Cells -> Payloads] /\ senders \in Seq(Nodes)
  BY QueueTypes DEF QueueTypeOK, Payloads, QueueReceive
<1>3. /\ c \in Seq(Payloads) /\ n = count + Len(senders)
      /\ \A k \in 1..count : c[k] = cells[tail_index(head, k - 1)]
      /\ \A k \in 1..Len(senders) : c[count + k] = senders[k].value
  BY <1>1 DEF ContentsShape
<1>4. /\ d \in Seq(Payloads) /\ Len(d) = count' + Len(senders')
      /\ \A k \in 1..count' : d[k] = cells'[tail_index(head', k - 1)]
      /\ \A k \in 1..Len(senders') : d[count' + k] = senders'[k].value
  BY <1>1 DEF ContentsShape, tail_index
<1>5. head' = next_index(head) /\ last' = cells[head]
  BY DEF QueueReceive, Delivered, pop_and_admit
<1>6. /\ tail_index(head', Capacity - 1) = head
      /\ \A k \in 0..(Capacity - 1) :
           k + 1 < Capacity => tail_index(head', k) = tail_index(head, k + 1)
  BY <1>2, <1>5, RingNext
<1> HIDE DEF c, d
<1>7. n \in Nat /\ Len(senders) \in Nat /\ n > 0
  BY <1>2, <1>3
<1> HIDE DEF n
<1>8. c # << >> /\ last' = Head(c)
  <2>1. Head(c) = c[1] /\ c # << >>
    BY <1>3, <1>7 DEF n
  <2>2. 1 \in 1..count /\ tail_index(head, 1 - 1) = head
    BY <1>2 DEF tail_index, Cells
  <2> QED
    BY <1>3, <1>5, <2>1, <2>2
\* The cells behind the head stand one further to the front.
<1>9. ASSUME cells' = popped \/ \E y \in Payloads : cells' = [popped EXCEPT ![head] = y],
             NEW k \in 1..(count - 1), k \in 1..count'
      PROVE  d[k] = c[k + 1]
  <2>1. k \in 0..(Capacity - 1) /\ k + 1 \in 1..count /\ (k + 1) - 1 = k
        /\ k - 1 \in 0..(Capacity - 1) /\ (k - 1) + 1 = k /\ k < Capacity /\ k # 0
    BY <1>2
  <2>2. d[k] = cells'[tail_index(head', k - 1)] /\ c[k + 1] = cells[tail_index(head, k)]
    BY <1>3, <1>4, <1>9, <2>1
  <2>3. tail_index(head', k - 1) = tail_index(head, k)
    BY <1>6, <2>1
  <2>4. tail_index(head, k) \in Cells /\ Distance(tail_index(head, k), head) = k
    BY <1>2, <2>1, RingIndex
  <2>5. Distance(head, head) = 0
    BY <1>2 DEF Distance, Cells
  <2>6. tail_index(head, k) # head
    BY <2>1, <2>4, <2>5
  <2>7. cells'[tail_index(head, k)] = cells[tail_index(head, k)]
    BY <1>2, <1>9, <2>4, <2>6
  <2> QED
    BY <2>2, <2>3, <2>7
<1>10. Len(d) = n - 1 /\ \A k \in 1..(n - 1) : d[k] = c[k + 1]
  <2>1. CASE senders = << >>
    <3>1. cells' = popped /\ count' = count - 1 /\ UNCHANGED senders
      BY <2>1 DEF QueueReceive, pop_and_admit
    <3>2. Len(senders) = 0 /\ Len(senders') = 0
      BY <2>1, <3>1
    <3>3. n = count /\ Len(d) = n - 1 /\ count' = n - 1
      BY <1>2, <1>3, <1>4, <3>1, <3>2
    <3> QED
      BY <1>9, <3>1, <3>3
  <2>2. CASE senders # << >>
    <3> DEFINE m == Len(senders)
               x == Head(senders).value
    <3>1. /\ cells' = AdmitValue(popped) /\ UNCHANGED count /\ senders' = Tail(senders)
      BY <2>2 DEF QueueReceive, pop_and_admit
    <3>2. count = Capacity
      BY <2>2 DEF QueueInv, NoNeedlessWait
    <3>3. cells' = [popped EXCEPT ![head] = x]
      BY <1>5, <1>6, <3>1, <3>2 DEF AdmitValue
    <3>4. /\ m \in Nat \ {0} /\ Len(senders') = m - 1 /\ Head(senders) = senders[1]
          /\ Head(senders) \in Nodes /\ \A k \in 1..(m - 1) : senders'[k] = senders[k + 1]
      BY <1>2, <2>2, <3>1
    <3>5. x \in Payloads /\ x = senders[1].value
      BY <3>4 DEF Nodes, Payloads
    <3> HIDE DEF m, x
    <3>6. n = count + m /\ Len(d) = n - 1
      BY <1>2, <1>3, <1>4, <3>1, <3>4 DEF m
    <3>7. ASSUME NEW k \in 1..(n - 1) PROVE d[k] = c[k + 1]
      <4>1. CASE k < count
        <5>1. k \in 1..(count - 1) /\ k \in 1..count'
          BY <1>2, <1>7, <3>1, <4>1
        <5> QED
          BY <1>9, <3>3, <3>5, <5>1
      <4>2. CASE k = count
        <5>1. k \in 1..count' /\ k - 1 = Capacity - 1
          BY <1>2, <3>1, <3>2, <4>2
        <5>2. d[k] = cells'[head]
          BY <1>4, <1>6, <5>1
        <5>3. cells'[head] = x
          BY <1>2, <3>3
        <5>4. 1 \in 1..m
          BY <3>4
        <5>5. c[count + 1] = senders[1].value
          BY <1>3, <5>4 DEF m
        <5> QED
          BY <3>5, <4>2, <5>2, <5>3, <5>5
      <4>3. CASE k > count
        <5> DEFINE l == k - count
        <5>1. l \in 1..(m - 1) /\ k = count + l /\ k + 1 = count + (l + 1) /\ l + 1 \in 1..m
          BY <1>2, <1>7, <3>4, <3>6, <4>3
        <5> HIDE DEF l
        <5>2. d[count + l] = senders'[l].value
          BY <1>4, <3>1, <3>4, <5>1
        <5>3. c[count + (l + 1)] = senders[l + 1].value
          BY <1>3, <5>1 DEF m
        <5>4. senders'[l] = senders[l + 1]
          BY <3>4, <5>1
        <5> QED
          BY <5>1, <5>2, <5>3, <5>4
      <4> QED
        BY <1>2, <1>7, <4>1, <4>2, <4>3
    <3> QED
      BY <3>6, <3>7
  <2> QED
    BY <2>1, <2>2
<1>11. d = Tail(c)
  <2> DEFINE r == Tail(c)
  <2>1. r \in Seq(Payloads) /\ Len(r) = n - 1 /\ \A k \in 1..(n - 1) : r[k] = c[k + 1]
    BY <1>3, <1>8 DEF n
  <2> HIDE DEF r
  <2>2. \A k \in 1..(n - 1) : d[k] = r[k]
    BY <1>10, <2>1
  <2>3. d = r
    BY <1>4, <1>10, <2>1, <2>2
  <2> QED
    BY <2>3 DEF r
<1>12. /\ UNCHANGED Stage /\ Stage # "closed"
       /\ received' = ~received /\ UNCHANGED sent
  BY StageKept DEF QueueReceive, Delivered, sleepVars
<1> QED
  BY <1>8, <1>11, <1>12 DEF AbstractChannel!Take, c, d

LEMMA QueueRefinesStep == QueueInv /\ QueueInv' /\ [QueueNext]_qvars => ChannelStep
<1> SUFFICES ASSUME QueueInv, QueueInv', [QueueNext]_qvars PROVE ChannelStep
  OBVIOUS
<1> USE DEF ChannelStep, AbstractChannel!Next
<1>1. CASE UNCHANGED <<cells, head, count, senders, last, sent, received, Stage>>
  BY <1>1, ContentsKept
<1>2. CASE QueueSchedulerStep
  <2>1. /\ UNCHANGED <<cells, head, count, exists, last, sent, received>>
        /\ Next /\ unlink_sender(Entered) /\ senders \in Seq(Nodes)
    BY <1>2, QueueTypes DEF QueueSchedulerStep, DropAwaiters, Entered, ring, history
  <2>2. CASE UNCHANGED senders
    <3>1. UNCHANGED Contents
      BY <2>1, <2>2, ContentsKept
    <3>2. UNCHANGED Stage \/ (Stage = "open" /\ Stage' = "abandoned")
      BY <2>1, SchedulerStage
    <3> QED
      BY <2>1, <3>1, <3>2 DEF AbstractChannel!Abandon
  <2>3. ASSUME NEW i \in 1..Len(senders), senders[i].slot = Entered,
               Drops(senders, i, senders')
        PROVE  ChannelStep
    <3>1. Stage = "abandoned" /\ UNCHANGED Stage
      BY <1>2, <2>3, DroppedInTeardown
    <3> QED
      BY <2>1, <2>3, <3>1, WithdrawsSender
  <2>4. \/ UNCHANGED senders
        \/ \E i \in 1..Len(senders) :
             senders[i].slot = Entered /\ Drops(senders, i, senders')
    BY <2>1, UnlinkSender
  <2> QED
    BY <2>2, <2>3, <2>4
<1>3. ASSUME NEW v \in Values, QueueSendParks(v) PROVE ChannelStep
  <2>1. current \in Slots
    BY <1>3, ParkMoves DEF QueueSendParks
  <2>2. Contents' = Append(Contents, v) /\ sent' = ~sent /\ UNCHANGED <<last, received>>
    BY <1>3, <2>1, PutsValue DEF QueueSendParks, ring
  <2>3. UNCHANGED Stage /\ Stage # "closed"
    BY <1>3, StageKept DEF QueueSendParks, Park, Suspends
  <2> QED
    BY <2>2, <2>3 DEF AbstractChannel!Put
<1>4. CASE QueueReceiveParks \/ QueueRefuses
  <2>1. UNCHANGED Stage
    BY <1>4, StageKept DEF QueueReceiveParks, QueueRefuses, Park, Suspends, queueVars, restVars
  <2> QED
    BY <1>1, <1>4, <2>1 DEF QueueReceiveParks, QueueRefuses, queueVars, ring, history
<1>5. ASSUME NEW v \in Values, QueueSend(v) PROVE ChannelStep
  <2>1. UNCHANGED Stage /\ Stage # "closed" /\ sent' = ~sent
    BY <1>5, StageKept DEF QueueSend, sleepVars
  <2>2. CASE HandToReceiver(v)
    <3>1. count = 0 /\ senders = << >>
      BY <2>2, QueueAssumption DEF HandToReceiver, QueueInv, NoNeedlessWait
    <3>2. Contents \in Seq(Payloads) /\ Len(Contents) = 0
      BY <3>1, ContentsIs DEF ContentsShape
    <3>3. Contents = << >>
      BY <3>2
    <3>4. UNCHANGED Contents /\ last' = v /\ received' = ~received
      BY <1>5, <2>2, ContentsKept DEF QueueSend, HandToReceiver, Delivered, ring
    <3> QED
      BY <2>1, <3>3, <3>4 DEF AbstractChannel!HandOff
  <2>3. CASE /\ receivers = << >> /\ count < Capacity /\ store_back(v)
             /\ UNCHANGED <<receivers, result, state, ready, last, received>>
    <3>1. count # Capacity
      BY <2>3, QueueTypes DEF QueueTypeOK
    <3>2. senders = << >> /\ UNCHANGED senders
      BY <1>5, <3>1 DEF QueueSend, QueueInv, NoNeedlessWait
    <3>3. Contents' = Append(Contents, v)
      BY <2>3, <3>2, PutsValue
    <3> QED
      BY <2>1, <2>3, <3>3 DEF AbstractChannel!Put
  <2> QED
    BY <1>5, <2>2, <2>3 DEF QueueSend, do_send
<1>6. CASE QueueReceive
  BY <1>6, TakesValue
<1>7. CASE QueueDestroy
  <2>1. /\ count' = 0 /\ senders' = << >> /\ UNCHANGED <<last, sent, received>>
        /\ Stage # "closed" /\ Stage' = "closed"
    BY <1>7 DEF QueueDestroy, Stage, history
  <2>2. QueueInv' => ContentsShape'
    BY ContentsIs, PTL
  <2>3. Contents' \in Seq(Payloads) /\ Len(Contents') = 0
    BY <2>1, <2>2 DEF ContentsShape
  <2>4. Contents' = << >>
    BY <2>3
  <2> QED
    BY <2>1, <2>4 DEF AbstractChannel!Close
<1>8. CASE UNCHANGED qvars
  <2>1. UNCHANGED Stage
    BY <1>8 DEF qvars, queueVars, vars, Stage, shutting_down
  <2> QED
    BY <1>1, <1>8, <2>1 DEF qvars, queueVars, ring, history
<1> QED
  BY <1>2, <1>3, <1>4, <1>5, <1>6, <1>7, <1>8 DEF QueueNext, QueueSuspends

\* For every capacity, any payloads and any number of tasks, every value sent is
\* delivered in the order of sending and once, through hand-off, ring and parked
\* senders alike: only ~Queue() drops values, and ~Scheduler() those of the parked
\* senders that it destroys.
THEOREM QueueIsChannel == QueueSpec => ImplementsChannel
<1>1. QueueInit => AbstractChannel!Init
  <2> SUFFICES ASSUME QueueInit PROVE AbstractChannel!Init
    OBVIOUS
  <2>1. /\ count = 0 /\ senders = << >> /\ last = NoValue
        /\ sent = FALSE /\ received = FALSE /\ exists = TRUE /\ phase = "idle"
    BY DEF QueueInit, Init
  <2>2. Contents \in Seq(Payloads) /\ Len(Contents) = 0
    BY <2>1, QueueInvInit, ContentsIs DEF ContentsShape
  <2>3. Contents = << >>
    BY <2>2
  <2>4. Stage = "open"
    BY <2>1 DEF Stage, shutting_down
  <2> QED
    BY <2>1, <2>3, <2>4 DEF AbstractChannel!Init
<1>2. QueueInv /\ QueueInv' /\ [QueueNext]_qvars =>
        [AbstractChannel!Next]_<<Contents, last, sent, received, Stage>>
  BY QueueRefinesStep DEF ChannelStep
<1>3. QueueInv /\ QueueInv' /\ [QueueNext]_qvars =>
        [AbstractChannel!Next]_(AbstractChannel!chanVars)
  BY <1>2 DEF AbstractChannel!chanVars
<1> QED
  BY <1>1, <1>3, QueueInvariant, PTL DEF QueueSpec, ImplementsChannel, AbstractChannel!Spec
==============================================================================
