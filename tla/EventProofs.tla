---------------------------- MODULE EventProofs ------------------------------
(***************************************************************************)
(* Proofs about Event composed with the scheduler, for any set of Events,  *)
(* and about the pointers behind its lists.                                *)
(***************************************************************************)
EXTENDS SlotLists, TimerProofs, FiniteSetTheorems

\* The scheduler's invariant is part of it: set() may push its waiters only because
\* a parked task is not in the ready FIFO.
EventInv == TimerInv /\ WaitersExact /\ NoWaiterWhileSet

\* What WakesInOrder says of a step.
OrderStep ==
  \A e \in Events : \A s, t \in Slots :
    Before(waiters[e], s, t) => \/ Before(waiters'[e], s, t)
                                \/ Before(ready', s, t)

\* The wait queues of the Events that are not touched.
LEMMA OtherWaiters ==
  ASSUME EventTypeOK, NEW e \in Events, NEW q, waiters' = [waiters EXCEPT ![e] = q]
  PROVE  waiters'[e] = q /\ \A f \in Events \ {e} : waiters'[f] = waiters[f]
  BY DEF EventTypeOK

\* Two waiters keep their order when another parks behind them.
LEMMA AppendKeepsOrder ==
  ASSUME NEW q \in Seq(Slots), NEW x \in Slots, NEW s \in Slots, NEW t \in Slots,
         Before(q, s, t)
  PROVE  Before(Append(q, x), s, t)
<1>1. PICK i, j \in DOMAIN q : i < j /\ q[i] = s /\ q[j] = t
  BY DEF Before
<1>2. /\ i \in DOMAIN Append(q, x) /\ Append(q, x)[i] = q[i]
      /\ j \in DOMAIN Append(q, x) /\ Append(q, x)[j] = q[j]
  OBVIOUS
<1> QED
  BY <1>1, <1>2 DEF Before

\* They also keep it when their queue is moved behind the ready FIFO.
LEMMA ConcatKeepsOrder ==
  ASSUME NEW r \in Seq(Slots), NEW q \in Seq(Slots), NEW s \in Slots, NEW t \in Slots,
         Before(q, s, t)
  PROVE  Before(r \o q, s, t)
<1>1. PICK i, j \in DOMAIN q : i < j /\ q[i] = s /\ q[j] = t
  BY DEF Before
<1>2. /\ i \in 1..Len(q) /\ j \in 1..Len(q) /\ Len(r) \in Nat
      /\ DOMAIN (r \o q) = 1..(Len(r) + Len(q))
      /\ \A k \in 1..Len(q) : (r \o q)[Len(r) + k] = q[k]
  OBVIOUS
<1>3. /\ Len(r) + i \in DOMAIN (r \o q) /\ Len(r) + j \in DOMAIN (r \o q)
      /\ Len(r) + i < Len(r) + j
  BY <1>1, <1>2
<1> QED
  BY <1>1, <1>2, <1>3 DEF Before

-----------------------------------------------------------------------------

\* Steps that leave every wait queue alone.
LEMMA KeepsWaiters ==
  ASSUME EventInv, UNCHANGED waiters, is_set' \in [Events -> BOOLEAN],
         alive' \in [Events -> BOOLEAN],
         \A e \in Events : is_set'[e] => is_set[e],
         shutting_down => shutting_down',
         ~shutting_down' => \A s \in Slots :
                              state'[s] = "waiting_local" <=> state[s] = "waiting_local"
  PROVE  WaitersExact' /\ NoWaiterWhileSet' /\ OrderStep
<1>1. EventTypeOK'
  BY DEF EventInv, WaitersExact, EventTypeOK
<1>2. WaitersExact'
  BY <1>1 DEF EventInv, WaitersExact
<1>3. NoWaiterWhileSet'
  BY DEF EventInv, NoWaiterWhileSet
<1>4. OrderStep
  BY DEF OrderStep
<1> QED
  BY <1>2, <1>3, <1>4

\* A step of the scheduler alone, teardown included.
LEMMA EventSchedulerStep ==
  ASSUME EventInv, [Next]_vars, UNCHANGED eventVars
  PROVE  EventInv' /\ OrderStep
<1>1. TimerInv'
  BY TimerNext DEF EventInv
<1>2. ~shutting_down => \A s \in Slots :
        state'[s] = "waiting_local" <=> state[s] = "waiting_local"
  BY SchedulerKeepsParked DEF EventInv, TimerInv
<1>3. shutting_down => shutting_down'
  BY TeardownIsFinal
<1>4. WaitersExact' /\ NoWaiterWhileSet' /\ OrderStep
  BY <1>2, <1>3, KeepsWaiters DEF EventInv, WaitersExact, EventTypeOK, eventVars
<1> QED
  BY <1>1, <1>4 DEF EventInv

\* wait() on a set Event, clear() and ~Event() move no task.
LEMMA EventQuietStep ==
  ASSUME EventInv, NEW e \in Events, EventWaitSet(e) \/ EventClear(e) \/ EventDestroy(e)
  PROVE  EventInv' /\ OrderStep
<1>1. UNCHANGED <<restVars, waiters>> /\ error' \in Errors
  BY DEF EventWaitSet, EventClear, EventDestroy, eventVars, Errors
<1>2. UNCHANGED <<state, phase>>
  BY <1>1 DEF restVars, slotVars
<1>3. TimerInv'
  BY <1>1, ReportKeeps DEF EventInv
<1>4. is_set \in [Events -> BOOLEAN] /\ alive \in [Events -> BOOLEAN]
  BY DEF EventInv, WaitersExact, EventTypeOK
<1>5. is_set' \in [Events -> BOOLEAN] /\ \A f \in Events : is_set'[f] => is_set[f]
  BY <1>4 DEF EventWaitSet, EventClear, EventDestroy, eventVars
<1>6. alive' \in [Events -> BOOLEAN]
  BY <1>4 DEF EventWaitSet, EventClear, EventDestroy, eventVars
<1>7. WaitersExact' /\ NoWaiterWhileSet' /\ OrderStep
  BY <1>1, <1>2, <1>5, <1>6, KeepsWaiters DEF shutting_down
<1> QED
  BY <1>3, <1>7 DEF EventInv

\* co_await wait(): the running task, which is in no queue, parks on an Event that
\* is not set.
LEMMA EventWaitStep ==
  ASSUME EventInv, NEW e \in Events, EventWait(e)
  PROVE  EventInv' /\ OrderStep
<1>1. /\ waiters \in [Events -> Seq(Slots)] /\ is_set \in [Events -> BOOLEAN]
      /\ alive \in [Events -> BOOLEAN] /\ state \in [Slots -> States] /\ EventTypeOK
  BY DEF EventInv, WaitersExact, EventTypeOK, TimerInv, FifoInv, Typed
<1>2. /\ current \in Slots /\ state[current] = "running" /\ UNCHANGED phase
      /\ state' = [state EXCEPT ![current] = "waiting_local"]
  BY DEF EventWait, Park, Suspends, EventInv, TimerInv, FifoInv, Typed
<1>3. TimerInv'
  BY ParkKeeps DEF EventInv, EventWait
<1>4. /\ waiters'[e] = Append(waiters[e], current) /\ waiters[e] \in Seq(Slots)
      /\ \A f \in Events \ {e} : waiters'[f] = waiters[f]
      /\ UNCHANGED <<is_set, alive>> /\ ~is_set[e]
  BY <1>1, OtherWaiters DEF EventWait, MustWait
<1>5. EventTypeOK'
  BY <1>1, <1>2, <1>4 DEF EventTypeOK, EventWait
<1>6. WaitersExact'
  <2> SUFFICES ASSUME ~shutting_down
               PROVE  /\ \A f \in Events : IsInjective(waiters'[f])
                      /\ \A f, g \in Events :
                           Range(waiters'[f]) \cap Range(waiters'[g]) # {} => f = g
                      /\ \A s \in Slots : state'[s] = "waiting_local" <=>
                           \E f \in Events : s \in Range(waiters'[f])
    BY <1>2, <1>5 DEF WaitersExact, shutting_down
  <2>1. /\ \A f \in Events : IsInjective(waiters[f])
        /\ \A f, g \in Events : Range(waiters[f]) \cap Range(waiters[g]) # {} => f = g
        /\ \A s \in Slots : state[s] = "waiting_local" <=>
             \E f \in Events : s \in Range(waiters[f])
    BY DEF EventInv, WaitersExact
  <2>2. \A f \in Events : current \notin Range(waiters[f])
    BY <1>2, <2>1
  <2>3. Range(waiters'[e]) = Range(waiters[e]) \union {current}
        /\ IsInjective(waiters'[e])
    BY <1>2, <1>4, <2>1, <2>2, PushFifo
  <2>4. \A f \in Events : IsInjective(waiters'[f])
    BY <1>4, <2>1, <2>3
  <2>5. ASSUME NEW f \in Events, NEW g \in Events, NEW s,
               s \in Range(waiters'[f]), s \in Range(waiters'[g])
        PROVE  f = g
    <3>1. CASE s = current
      BY <1>4, <2>2, <2>5, <3>1
    <3>2. CASE s # current
      <4>1. ASSUME NEW h \in Events, s \in Range(waiters'[h])
            PROVE  s \in Range(waiters[h])
        <5>1. CASE h = e
          BY <2>3, <3>2, <4>1, <5>1
        <5>2. CASE h # e
          <6>1. waiters'[h] = waiters[h]
            BY <1>4, <5>2
          <6> QED
            BY <4>1, <6>1
        <5> QED
          BY <5>1, <5>2
      <4>2. Range(waiters[f]) \cap Range(waiters[g]) # {}
        BY <2>5, <4>1
      <4> QED
        BY <2>1, <4>2
    <3> QED
      BY <3>1, <3>2
  <2>6. \A s \in Slots : state'[s] = "waiting_local" <=>
          \E f \in Events : s \in Range(waiters'[f])
    BY <1>1, <1>2, <1>4, <2>1, <2>3
  <2> QED
    BY <2>4, <2>5, <2>6
<1>7. NoWaiterWhileSet'
  BY <1>4 DEF EventInv, NoWaiterWhileSet
<1>8. OrderStep
  BY <1>1, <1>2, <1>4, AppendKeepsOrder DEF OrderStep
<1> QED
  BY <1>3, <1>6, <1>7, <1>8 DEF EventInv

\* set() moves the whole wait queue behind the ready FIFO.
LEMMA EventSetStep ==
  ASSUME EventInv, NEW e \in Events, EventSet(e)
  PROVE  EventInv' /\ OrderStep
<1> DEFINE q == waiters[e]
<1>1. /\ waiters \in [Events -> Seq(Slots)] /\ is_set \in [Events -> BOOLEAN]
      /\ alive \in [Events -> BOOLEAN] /\ EventTypeOK
      /\ ready \in Seq(Slots) /\ q \in Seq(Slots)
  BY DEF EventInv, WaitersExact, EventTypeOK, TimerInv, FifoInv, Typed
<1>2. /\ wake_all(q) /\ UNCHANGED sleepVars /\ error' \in Errors /\ UNCHANGED phase
      /\ state' = [s \in Slots |-> IF s \in Range(q) THEN "ready" ELSE state[s]]
      /\ ready' = ready \o q
  BY DEF EventSet, WakeWaiters, sleepVars, wake_all, Errors
<1>3. ~shutting_down => /\ IsInjective(q)
                        /\ \A s \in Range(q) : state[s] = "waiting_local"
  <2>1. \A s \in Range(q) : s \in Slots
    BY <1>1 DEF Range
  <2> QED
    BY <2>1 DEF EventInv, WaitersExact
<1>4. TimerInv'
  BY <1>1, <1>2, <1>3, WakeKeeps DEF EventInv, sleepVars
<1>5. /\ waiters'[e] = << >> /\ \A f \in Events \ {e} : waiters'[f] = waiters[f]
      /\ is_set' = [is_set EXCEPT ![e] = TRUE] /\ UNCHANGED alive
  BY <1>1, OtherWaiters DEF EventSet, WakeWaiters
<1>6. EventTypeOK'
  BY <1>1, <1>5 DEF EventTypeOK, EventSet, WakeWaiters
<1>7. WaitersExact'
  <2> SUFFICES ASSUME ~shutting_down
               PROVE  /\ \A f \in Events : IsInjective(waiters'[f])
                      /\ \A f, g \in Events :
                           Range(waiters'[f]) \cap Range(waiters'[g]) # {} => f = g
                      /\ \A s \in Slots : state'[s] = "waiting_local" <=>
                           \E f \in Events : s \in Range(waiters'[f])
    BY <1>2, <1>6 DEF WaitersExact, shutting_down
  <2>1. /\ \A f \in Events : IsInjective(waiters[f])
        /\ \A f, g \in Events : Range(waiters[f]) \cap Range(waiters[g]) # {} => f = g
        /\ \A s \in Slots : state[s] = "waiting_local" <=>
             \E f \in Events : s \in Range(waiters[f])
    BY DEF EventInv, WaitersExact
  <2>2. Range(waiters'[e]) = {} /\ IsInjective(waiters'[e])
    BY <1>5 DEF Range, IsInjective
  <2>3. ASSUME NEW s \in Slots
        PROVE  state'[s] = "waiting_local" <=> \E f \in Events : s \in Range(waiters'[f])
    <3>1. CASE s \in Range(q)
      <4>1. state'[s] = "ready"
        BY <1>2, <3>1
      <4>2. \A f \in Events \ {e} : s \notin Range(waiters[f])
        BY <2>1, <3>1
      <4> QED
        BY <1>5, <2>2, <4>1, <4>2
    <3>2. CASE s \notin Range(q)
      <4>1. state'[s] = state[s]
        BY <1>2, <3>2
      <4> QED
        BY <1>5, <2>1, <2>2, <3>2, <4>1
    <3> QED
      BY <3>1, <3>2
  <2>4. ASSUME NEW f \in Events, NEW g \in Events, NEW s,
               s \in Range(waiters'[f]), s \in Range(waiters'[g])
        PROVE  f = g
    <3>1. f # e /\ g # e
      BY <2>2, <2>4
    <3>2. s \in Range(waiters[f]) /\ s \in Range(waiters[g])
      BY <1>5, <2>4, <3>1
    <3> QED
      BY <2>1, <3>2
  <2>5. \A f \in Events : IsInjective(waiters'[f])
    BY <1>5, <2>1, <2>2
  <2> QED
    BY <2>3, <2>4, <2>5
<1>8. NoWaiterWhileSet'
  BY <1>1, <1>5 DEF EventInv, NoWaiterWhileSet
<1>9. OrderStep
  BY <1>1, <1>2, <1>5, ConcatKeepsOrder DEF OrderStep
<1> QED
  BY <1>4, <1>7, <1>8, <1>9 DEF EventInv

-----------------------------------------------------------------------------

\* Nobody waits on a new Event.
LEMMA EventInvInit == EventInit => EventInv
<1> SUFFICES ASSUME EventInit PROVE EventInv
  OBVIOUS
<1>1. TimerInv
  BY TimerInit DEF EventInit
<1>2. \A e \in Events : waiters[e] = << >>
  BY DEF EventInit
<1>3. EventTypeOK
  BY DEF EventInit, EventTypeOK
<1>4. \A s \in Slots : state[s] # "waiting_local"
  BY DEF EventInit, Init
<1> QED
  BY <1>1, <1>2, <1>3, <1>4 DEF EventInv, WaitersExact, NoWaiterWhileSet, IsInjective, Range

\* Every step keeps the invariant and the order of the waiters.
LEMMA EventInvNext == EventInv /\ [EventNext]_evars => EventInv' /\ OrderStep
<1> SUFFICES ASSUME EventInv, [EventNext]_evars PROVE EventInv' /\ OrderStep
  OBVIOUS
<1>1. CASE [Next]_vars /\ UNCHANGED eventVars
  BY <1>1, EventSchedulerStep
<1>2. CASE EventNext
  BY <1>1, <1>2, EventWaitStep, EventSetStep, EventQuietStep DEF EventNext, EventSuspends
<1> QED
  BY <1>1, <1>2 DEF evars

\* The invariant holds in every execution of tasks that share Events.
LEMMA EventInvariant == EventSpec => []EventInv
  BY EventInvInit, EventInvNext, PTL DEF EventSpec

\* For any number of Events and slots and until ~Scheduler() starts, a parked task
\* stands once in one wait queue and no other task stands in any.
THEOREM EventWaitersExact == EventSpec => []WaitersExact
<1>1. EventInv => WaitersExact
  BY DEF EventInv
<1> QED
  BY <1>1, EventInvariant, PTL

\* No task stays parked on a set Event.
THEOREM EventNeverMissed == EventSpec => []NoWaiterWhileSet
<1>1. EventInv => NoWaiterWhileSet
  BY DEF EventInv
<1> QED
  BY <1>1, EventInvariant, PTL

\* Tasks leave an Event in the order in which they parked on it.
THEOREM EventWakesInOrder == EventSpec => WakesInOrder
<1>1. EventInv /\ [EventNext]_evars => OrderStep
  BY EventInvNext
<1> QED
  BY <1>1, EventInvariant, PTL DEF EventSpec, WakesInOrder, OrderStep

-----------------------------------------------------------------------------
(* The pointers.                                                           *)

Links == Slots \union {NoSlot}
Mem == [next : [Slots -> Links], head : [Lists -> Links], tail : [Lists -> Links],
        count : Int]

\* No slot stands twice in the lists L.
Linked(L) ==
  /\ L \in [Lists -> Seq(Slots)]
  /\ \A q, r \in Lists : \A i \in 1..Len(L[q]), j \in 1..Len(L[r]) :
       L[q][i] = L[r][j] => q = r /\ i = j

\* The slot s stands in one of the lists L.
In(L, s) == \E q \in Lists : \E i \in 1..Len(L[q]) : L[q][i] = s

\* The pointers m spell the lists L, and slots in no list have no successor.
SpellAll(m, L) ==
  /\ m \in Mem
  /\ \A q \in Lists : Spells(m, q, L[q])
  /\ \A s \in Slots : m.next[s] # NoSlot => In(L, s)

\* The lists K are L with s appended to, or the first slot dropped from, list q.
Appended(L, K, q, s) ==
  /\ K \in [Lists -> Seq(Slots)] /\ K[q] = Append(L[q], s)
  /\ \A r \in Lists \ {q} : K[r] = L[r]
Dropped(L, K, q) ==
  /\ L[q] # << >>
  /\ K \in [Lists -> Seq(Slots)] /\ K[q] = Tail(L[q])
  /\ \A r \in Lists \ {q} : K[r] = L[r]

LEMMA SlotFacts == NoSlot \notin Slots /\ Slots \subseteq Nat
  BY SchedulerAssumption DEF Slots, NoSlot

\* What push_back() does to each pointer.
LEMMA PushBackIs ==
  ASSUME NEW m \in Mem, NEW q \in Lists, NEW s \in Slots
  PROVE  /\ push_back(m, q, s) \in Mem /\ push_back(m, q, s).count = m.count
         /\ push_back(m, q, s).tail[q] = s
         /\ push_back(m, q, s).head[q] = IF m.tail[q] = NoSlot THEN s ELSE m.head[q]
         /\ \A r \in Lists \ {q} : /\ push_back(m, q, s).tail[r] = m.tail[r]
                                   /\ push_back(m, q, s).head[r] = m.head[r]
         /\ \A x \in Slots : push_back(m, q, s).next[x] =
              IF x = m.tail[q] THEN s ELSE IF x = s THEN NoSlot ELSE m.next[x]
<1> DEFINE n == [m.next EXCEPT ![s] = NoSlot]
           p == push_back(m, q, s)
<1>1. /\ m.next \in [Slots -> Links] /\ m.head \in [Lists -> Links]
      /\ m.tail \in [Lists -> Links] /\ m.count \in Int /\ s \in Links /\ NoSlot \in Links
      /\ m = [next |-> m.next, head |-> m.head, tail |-> m.tail, count |-> m.count]
  BY DEF Mem, Links
<1>2. n \in [Slots -> Links] /\ \A x \in Slots : n[x] = IF x = s THEN NoSlot ELSE m.next[x]
  BY <1>1
<1>3. CASE m.tail[q] = NoSlot
  <2>1. p = [m EXCEPT !.next = n, !.head[q] = s, !.tail[q] = s]
    BY <1>3 DEF push_back
  <2> HIDE DEF n, p
  <2>2. /\ p.next = n /\ p.head = [m.head EXCEPT ![q] = s] /\ p.tail = [m.tail EXCEPT ![q] = s]
        /\ p.count = m.count
        /\ p = [next |-> p.next, head |-> p.head, tail |-> p.tail, count |-> p.count]
    BY <1>1, <2>1
  <2>3. p \in Mem
    BY <1>1, <1>2, <2>2 DEF Mem
  <2> QED
    BY <1>1, <1>2, <1>3, <2>2, <2>3, SlotFacts DEF p
<1>4. CASE m.tail[q] # NoSlot
  <2>1. p = [m EXCEPT !.next = [n EXCEPT ![m.tail[q]] = s], !.tail[q] = s]
    BY <1>4 DEF push_back
  <2> HIDE DEF n, p
  <2>2. /\ p.next = [n EXCEPT ![m.tail[q]] = s] /\ p.head = m.head
        /\ p.tail = [m.tail EXCEPT ![q] = s] /\ p.count = m.count
        /\ p = [next |-> p.next, head |-> p.head, tail |-> p.tail, count |-> p.count]
    BY <1>1, <2>1
  <2>3. p \in Mem
    BY <1>1, <1>2, <2>2 DEF Mem
  <2> QED
    BY <1>1, <1>2, <1>4, <2>2, <2>3 DEF p
<1> QED
  BY <1>3, <1>4

\* What pop_front() does to each pointer of a list with a head.
LEMMA PopFrontIs ==
  ASSUME NEW m \in Mem, NEW q \in Lists, m.head[q] \in Slots
  PROVE  /\ pop_front(m, q) \in Mem /\ pop_front(m, q).count = m.count
         /\ pop_front(m, q).head[q] = m.next[m.head[q]]
         /\ pop_front(m, q).tail[q] =
              IF m.next[m.head[q]] = NoSlot THEN NoSlot ELSE m.tail[q]
         /\ \A r \in Lists \ {q} : /\ pop_front(m, q).tail[r] = m.tail[r]
                                   /\ pop_front(m, q).head[r] = m.head[r]
         /\ \A x \in Slots : pop_front(m, q).next[x] =
              IF x = m.head[q] THEN NoSlot ELSE m.next[x]
<1> DEFINE s == m.head[q]
           p == pop_front(m, q)
<1>1. /\ m.next \in [Slots -> Links] /\ m.head \in [Lists -> Links]
      /\ m.tail \in [Lists -> Links] /\ m.count \in Int /\ NoSlot \in Links
      /\ m = [next |-> m.next, head |-> m.head, tail |-> m.tail, count |-> m.count]
  BY DEF Mem, Links
<1>2. p = [m EXCEPT !.head[q] = m.next[s],
                    !.tail[q] = IF m.next[s] = NoSlot THEN NoSlot ELSE @,
                    !.next[s] = NoSlot]
  BY DEF pop_front
<1> HIDE DEF p
<1>3. /\ p.next = [m.next EXCEPT ![s] = NoSlot] /\ p.head = [m.head EXCEPT ![q] = m.next[s]]
      /\ p.tail = [m.tail EXCEPT ![q] = IF m.next[s] = NoSlot THEN NoSlot ELSE m.tail[q]]
      /\ p.count = m.count
      /\ p = [next |-> p.next, head |-> p.head, tail |-> p.tail, count |-> p.count]
  BY <1>1, <1>2
<1>4. p \in Mem
  BY <1>1, <1>3 DEF Mem
<1> QED
  BY <1>1, <1>3, <1>4 DEF p

\* push_back() of a slot that stands in no list appends it to list q.
LEMMA PushSpells ==
  ASSUME NEW m, NEW L, Linked(L), SpellAll(m, L), NEW q \in Lists, NEW s \in Slots, ~In(L, s),
         NEW K, Appended(L, K, q, s)
  PROVE  Linked(K) /\ SpellAll(push_back(m, q, s), K)
<1> USE DEF Appended
<1> DEFINE p == push_back(m, q, s)
           c == Len(L[q])
<1>1. /\ p \in Mem /\ p.tail[q] = s
      /\ p.head[q] = IF m.tail[q] = NoSlot THEN s ELSE m.head[q]
      /\ \A r \in Lists \ {q} : p.tail[r] = m.tail[r] /\ p.head[r] = m.head[r]
      /\ \A x \in Slots : p.next[x] =
           IF x = m.tail[q] THEN s ELSE IF x = s THEN NoSlot ELSE m.next[x]
  BY PushBackIs DEF SpellAll
<1> HIDE DEF p
<1>2. /\ L[q] \in Seq(Slots) /\ c \in Nat /\ Len(K[q]) = c + 1 /\ K[q][c + 1] = s
      /\ DOMAIN K[q] = 1..(c + 1) /\ DOMAIN L[q] = 1..c /\ K[q] # << >>
      /\ \A i \in 1..c : K[q][i] = L[q][i] /\ L[q][i] \in Slots
      /\ L[q] = << >> <=> c = 0
  BY DEF Linked
<1>3. \A r \in Lists \ {q} : /\ L[r] \in Seq(Slots) /\ Len(L[r]) \in Nat
                             /\ DOMAIN L[r] = 1..Len(L[r])
                             /\ \A i \in 1..Len(L[r]) : L[r][i] \in Slots
  BY DEF Linked
<1>4. \A r \in Lists : \A i \in 1..Len(L[r]) : L[r][i] # s
  BY DEF In
<1>5. \A r \in Lists : \A i \in 1..Len(L[r]), j \in 1..c : L[r][i] = L[q][j] => r = q /\ i = j
  BY DEF Linked
<1>6. /\ m.head[q] = IF L[q] = << >> THEN NoSlot ELSE L[q][1]
      /\ m.tail[q] = IF L[q] = << >> THEN NoSlot ELSE L[q][c]
      /\ \A i \in 1..c : m.next[L[q][i]] = IF i = c THEN NoSlot ELSE L[q][i + 1]
  BY <1>2 DEF SpellAll, Spells
<1> HIDE DEF c
<1>7. Linked(K)
  <2>1. ASSUME NEW r \in Lists, NEW t \in Lists, NEW i \in 1..Len(K[r]), NEW j \in 1..Len(K[t]),
               K[r][i] = K[t][j]
        PROVE  r = t /\ i = j
    <3>1. ASSUME NEW u \in Lists, NEW k \in 1..Len(K[u])
          PROVE  \/ u = q /\ k = c + 1 /\ K[u][k] = s
                 \/ k \in 1..Len(L[u]) /\ K[u][k] = L[u][k] /\ K[u][k] # s
      <4>1. CASE u = q
        <5>1. k = c + 1 \/ k \in 1..c
          BY <1>2, <4>1
        <5> QED
          BY <1>2, <1>4, <4>1, <5>1 DEF c
      <4>2. CASE u # q
        BY <1>4, <4>2
      <4> QED
        BY <4>1, <4>2
    <3>2. CASE K[r][i] = s
      BY <2>1, <3>1, <3>2
    <3>3. CASE K[r][i] # s
      <4>1. i \in 1..Len(L[r]) /\ K[r][i] = L[r][i] /\ j \in 1..Len(L[t]) /\ K[t][j] = L[t][j]
        BY <2>1, <3>1, <3>3
      <4>2. L[r][i] = L[t][j] => r = t /\ i = j
        BY <4>1 DEF Linked
      <4> QED
        BY <2>1, <4>1, <4>2
    <3> QED
      BY <3>2, <3>3
  <2> QED
    BY <2>1 DEF Linked
<1>8. Spells(p, q, K[q])
  <2>1. CASE c = 0
    <3>1. m.tail[q] = NoSlot /\ p.head[q] = s /\ K[q][1] = s
      BY <1>1, <1>2, <1>6, <2>1
    <3>2. p.next[s] = NoSlot
      BY <1>1, <3>1, SlotFacts
    <3> QED
      BY <1>1, <1>2, <2>1, <3>1, <3>2 DEF Spells
  <2>2. CASE c # 0
    <3>1. m.tail[q] = L[q][c] /\ m.head[q] = L[q][1] /\ c \in 1..c /\ 1 \in 1..c
      BY <1>2, <1>6, <2>2
    <3>2. p.head[q] = K[q][1] /\ p.tail[q] = K[q][c + 1]
      BY <1>1, <1>2, <3>1, SlotFacts
    <3>3. ASSUME NEW i \in 1..(c + 1)
          PROVE  p.next[K[q][i]] = IF i = c + 1 THEN NoSlot ELSE K[q][i + 1]
      <4>1. CASE i = c + 1
        <5>1. K[q][i] = s /\ s # m.tail[q]
          BY <1>2, <1>4, <3>1, <4>1 DEF c
        <5> QED
          BY <1>1, <4>1, <5>1
      <4>2. CASE i = c
        <5>1. K[q][i] = m.tail[q] /\ m.tail[q] \in Slots /\ K[q][i + 1] = s
          BY <1>2, <3>1, <4>2
        <5> QED
          BY <1>1, <1>2, <4>2, <5>1
      <4>3. CASE i # c /\ i # c + 1
        <5>1. i \in 1..c /\ i + 1 \in 1..c /\ i # c + 1
          BY <1>2, <4>3
        <5>2. K[q][i] = L[q][i] /\ K[q][i + 1] = L[q][i + 1] /\ L[q][i] \in Slots
          BY <1>2, <5>1
        <5>3. L[q][i] # m.tail[q] /\ L[q][i] # s
          <6>1. L[q][i] # s
            BY <1>4, <5>1 DEF c
          <6>2. i \in 1..Len(L[q])
            BY <5>1 DEF c
          <6>3. L[q][i] = L[q][c] => i = c
            BY <1>5, <3>1, <6>2
          <6> QED
            BY <3>1, <4>3, <6>1, <6>3
        <5>4. p.next[L[q][i]] = m.next[L[q][i]]
          BY <1>1, <5>2, <5>3
        <5>5. m.next[L[q][i]] = L[q][i + 1]
          BY <1>6, <4>3, <5>1
        <5> QED
          BY <5>1, <5>2, <5>4, <5>5
      <4> QED
        BY <4>1, <4>2, <4>3
    <3> QED
      BY <1>2, <3>2, <3>3 DEF Spells
  <2> QED
    BY <2>1, <2>2
<1>9. ASSUME NEW r \in Lists \ {q} PROVE Spells(p, r, K[r])
  <2>1. Spells(m, r, L[r]) /\ K[r] = L[r]
    BY DEF SpellAll
  <2>2. p.head[r] = m.head[r] /\ p.tail[r] = m.tail[r]
    BY <1>1
  <2>3. ASSUME NEW i \in 1..Len(L[r]) PROVE p.next[L[r][i]] = m.next[L[r][i]]
    <3>1. L[r][i] \in Slots /\ L[r][i] # s
      BY <1>3, <1>4
    <3>2. L[r][i] # m.tail[q]
      BY <1>2, <1>5, <1>6, <3>1, SlotFacts
    <3> QED
      BY <1>1, <3>1, <3>2
  <2> QED
    BY <1>3, <2>1, <2>2, <2>3 DEF Spells
<1>10. ASSUME NEW x \in Slots, p.next[x] # NoSlot PROVE In(K, x)
  <2>1. CASE x = m.tail[q]
    <3>1. c \in 1..(c + 1) /\ K[q][c] = x
      BY <1>2, <1>6, <2>1, SlotFacts
    <3> QED
      BY <1>2, <3>1 DEF In
  <2>2. CASE x # m.tail[q]
    <3>1. m.next[x] # NoSlot
      BY <1>1, <1>10, <2>2
    <3>2. PICK r \in Lists : \E i \in 1..Len(L[r]) : L[r][i] = x
      BY <3>1 DEF SpellAll, In
    <3>3. PICK i \in 1..Len(L[r]) : L[r][i] = x
      BY <3>2
    <3>4. i \in 1..Len(K[r]) /\ K[r][i] = x
      <4>1. CASE r = q
        <5>1. i \in 1..c
          BY <3>3, <4>1 DEF c
        <5> QED
          BY <1>2, <3>3, <4>1, <5>1
      <4>2. CASE r # q
        BY <3>3, <4>2
      <4> QED
        BY <4>1, <4>2
    <3> QED
      BY <3>4 DEF In
  <2> QED
    BY <2>1, <2>2
<1> QED
  BY <1>1, <1>7, <1>8, <1>9, <1>10 DEF SpellAll, p

\* pop_front() takes the first slot off list q.
LEMMA PopSpells ==
  ASSUME NEW m, NEW L, Linked(L), SpellAll(m, L), NEW q \in Lists, NEW K, Dropped(L, K, q)
  PROVE  /\ Linked(K) /\ SpellAll(pop_front(m, q), K)
         /\ m.head[q] = L[q][1] /\ m.head[q] \in Slots /\ ~In(K, m.head[q])
<1> USE DEF Dropped
<1> DEFINE p == pop_front(m, q)
           c == Len(L[q])
           h == m.head[q]
<1>1. /\ L[q] \in Seq(Slots) /\ c \in Nat \ {0} /\ Len(K[q]) = c - 1
      /\ DOMAIN K[q] = 1..(c - 1) /\ DOMAIN L[q] = 1..c
      /\ \A i \in 1..(c - 1) : K[q][i] = L[q][i + 1]
      /\ \A i \in 1..c : L[q][i] \in Slots
      /\ K[q] = << >> <=> c = 1
  <2> DEFINE S == L[q]
             T == K[q]
  <2>1. S \in Seq(Slots) /\ T \in Seq(Slots) /\ T = Tail(S) /\ S # << >>
    BY DEF Linked
  <2> HIDE DEF S, T
  <2>2. /\ Len(S) \in Nat \ {0} /\ Len(T) = Len(S) - 1 /\ DOMAIN S = 1..Len(S)
        /\ DOMAIN T = 1..Len(T)
        /\ \A i \in 1..Len(S) : S[i] \in Slots
    BY <2>1
  <2>3. \A i \in 1..(Len(S) - 1) : T[i] = S[i + 1]
    BY <2>1, <2>2
  <2>4. T = << >> <=> Len(T) = 0
    BY <2>1, EmptySeq
  <2> QED
    BY <2>1, <2>2, <2>3, <2>4 DEF S, T
<1>2. /\ h = L[q][1] /\ m.tail[q] = L[q][c]
      /\ \A i \in 1..c : m.next[L[q][i]] = IF i = c THEN NoSlot ELSE L[q][i + 1]
  BY <1>1 DEF SpellAll, Spells
<1>3. h \in Slots /\ 1 \in 1..c
  BY <1>1, <1>2
<1>4. /\ p \in Mem /\ p.head[q] = m.next[h]
      /\ p.tail[q] = IF m.next[h] = NoSlot THEN NoSlot ELSE m.tail[q]
      /\ \A r \in Lists \ {q} : p.tail[r] = m.tail[r] /\ p.head[r] = m.head[r]
      /\ \A x \in Slots : p.next[x] = IF x = h THEN NoSlot ELSE m.next[x]
  BY <1>3, PopFrontIs DEF SpellAll
<1> HIDE DEF p
<1>5. \A r \in Lists : \A i \in 1..Len(L[r]) : L[r][i] = h => r = q /\ i = 1
  BY <1>2, <1>3 DEF Linked
<1>6. \A r \in Lists \ {q} : /\ L[r] \in Seq(Slots) /\ Len(L[r]) \in Nat
                             /\ DOMAIN L[r] = 1..Len(L[r])
                             /\ \A i \in 1..Len(L[r]) : L[r][i] \in Slots
  BY DEF Linked
<1>7. ASSUME NEW r \in Lists, NEW i \in 1..Len(K[r])
      PROVE  \E k \in 1..Len(L[r]) :
               K[r][i] = L[r][k] /\ K[r][i] # h /\ k = (IF r = q THEN i + 1 ELSE i)
  <2>1. CASE r = q
    <3>1. i \in 1..(c - 1) /\ i + 1 \in 1..c /\ i + 1 # 1
      BY <1>1, <2>1
    <3>2. K[q][i] = L[q][i + 1]
      BY <1>1, <3>1
    <3> QED
      BY <1>5, <2>1, <3>1, <3>2
  <2>2. CASE r # q
    BY <1>5, <2>2
  <2> QED
    BY <2>1, <2>2
<1>8. ~In(K, h)
  BY <1>7 DEF In
<1> HIDE DEF c, h
<1>9. Linked(K)
  <2>1. ASSUME NEW r \in Lists, NEW t \in Lists, NEW i \in 1..Len(K[r]), NEW j \in 1..Len(K[t]),
               K[r][i] = K[t][j]
        PROVE  r = t /\ i = j
    <3>1. PICK k \in 1..Len(L[r]) : K[r][i] = L[r][k] /\ k = (IF r = q THEN i + 1 ELSE i)
      BY <1>7
    <3>2. PICK n \in 1..Len(L[t]) : K[t][j] = L[t][n] /\ n = (IF t = q THEN j + 1 ELSE j)
      BY <1>7
    <3>3. L[r][k] = L[t][n] => r = t /\ k = n
      BY DEF Linked
    <3>4. i \in Nat /\ j \in Nat
      OBVIOUS
    <3>5. r = t /\ k = n
      BY <2>1, <3>1, <3>2, <3>3
    <3>6. CASE r = q
      BY <3>1, <3>2, <3>4, <3>5, <3>6
    <3>7. CASE r # q
      BY <3>1, <3>2, <3>5, <3>7
    <3> QED
      BY <3>6, <3>7
  <2> QED
    BY <2>1 DEF Linked
<1>10. Spells(p, q, K[q])
  <2>1. CASE c = 1
    <3>1. m.next[h] = NoSlot
      BY <1>2, <1>3, <2>1
    <3> QED
      BY <1>1, <1>4, <2>1, <3>1 DEF Spells
  <2>2. CASE c # 1
    <3>1. m.next[h] = L[q][2] /\ L[q][2] = K[q][1] /\ L[q][c] = K[q][c - 1] /\ m.next[h] \in Slots
      BY <1>1, <1>2, <1>3, <2>2
    <3>2. p.head[q] = K[q][1] /\ p.tail[q] = K[q][c - 1]
      BY <1>2, <1>4, <3>1, SlotFacts
    <3>3. ASSUME NEW i \in 1..(c - 1)
          PROVE  p.next[K[q][i]] = IF i = c - 1 THEN NoSlot ELSE K[q][i + 1]
      <4>1. /\ i \in Nat /\ i + 1 \in 1..c /\ K[q][i] = L[q][i + 1] /\ L[q][i + 1] \in Slots
            /\ i + 1 = c <=> i = c - 1
        BY <1>1
      <4>2. L[q][i + 1] # h
        BY <1>5, <4>1 DEF c
      <4>3. p.next[K[q][i]] = m.next[L[q][i + 1]]
        BY <1>4, <4>1, <4>2
      <4>4. m.next[L[q][i + 1]] = IF i + 1 = c THEN NoSlot ELSE L[q][(i + 1) + 1]
        BY <1>2, <4>1
      <4>5. i # c - 1 => K[q][i + 1] = L[q][(i + 1) + 1]
        BY <1>1, <4>1
      <4> QED
        BY <4>1, <4>3, <4>4, <4>5
    <3> QED
      BY <1>1, <2>2, <3>2, <3>3 DEF Spells
  <2> QED
    BY <2>1, <2>2
<1>11. ASSUME NEW r \in Lists \ {q} PROVE Spells(p, r, K[r])
  <2>1. Spells(m, r, L[r]) /\ K[r] = L[r]
    BY DEF SpellAll
  <2>2. p.head[r] = m.head[r] /\ p.tail[r] = m.tail[r]
    BY <1>4
  <2>3. ASSUME NEW i \in 1..Len(L[r]) PROVE p.next[L[r][i]] = m.next[L[r][i]]
    BY <1>4, <1>5, <1>6
  <2> QED
    BY <1>6, <2>1, <2>2, <2>3 DEF Spells
<1>12. ASSUME NEW x \in Slots, p.next[x] # NoSlot PROVE In(K, x)
  <2>1. x # h /\ m.next[x] # NoSlot
    BY <1>4, <1>12
  <2>2. PICK r \in Lists : \E i \in 1..Len(L[r]) : L[r][i] = x
    BY <2>1 DEF SpellAll, In
  <2>3. PICK i \in 1..Len(L[r]) : L[r][i] = x
    BY <2>2
  <2>4. CASE r = q
    <3>1. i \in 1..c /\ i # 1
      BY <1>2, <2>1, <2>3, <2>4 DEF c
    <3>2. i - 1 \in 1..(c - 1) /\ (i - 1) + 1 = i
      BY <1>1, <3>1
    <3>3. K[q][i - 1] = x
      BY <1>1, <2>3, <2>4, <3>2
    <3> QED
      BY <1>1, <3>2, <3>3 DEF In
  <2>5. CASE r # q
    BY <2>3, <2>5 DEF In
  <2> QED
    BY <2>4, <2>5
<1> QED
  BY <1>2, <1>3, <1>4, <1>8, <1>9, <1>10, <1>11, <1>12 DEF SpellAll, p, h

\* The counter is no pointer.
LEMMA CountedSpells ==
  ASSUME NEW m, NEW L, SpellAll(m, L), NEW c \in Int
  PROVE  SpellAll([m EXCEPT !.count = c], L) /\ [m EXCEPT !.count = c].count = c
<1> DEFINE n == [m EXCEPT !.count = c]
<1>1. m \in Mem
  BY DEF SpellAll
<1>2. /\ n \in Mem /\ n.next = m.next /\ n.head = m.head /\ n.tail = m.tail /\ n.count = c
  BY <1>1 DEF Mem
<1> HIDE DEF n
<1>3. SpellAll(n, L)
  BY <1>2 DEF SpellAll, Spells
<1> QED
  BY <1>2, <1>3 DEF n

\* ready_push() and ready_pop() also count.
LEMMA PushReadySpells ==
  ASSUME NEW m, NEW L, Linked(L), SpellAll(m, L), NEW s \in Slots, ~In(L, s),
         NEW K, Appended(L, K, "ready", s)
  PROVE  /\ Linked(K) /\ SpellAll(PushReady(m, s), K)
         /\ PushReady(m, s).count = m.count + 1
<1> DEFINE p == push_back(m, "ready", s)
<1>1. "ready" \in Lists /\ m \in Mem
  BY DEF Lists, SpellAll
<1>2. Linked(K) /\ SpellAll(p, K)
  BY <1>1, PushSpells
<1>3. p.count = m.count /\ m.count \in Int
  BY <1>1, PushBackIs DEF Mem
<1> DEFINE c == p.count + 1
<1>4. PushReady(m, s) = [p EXCEPT !.count = c]
  BY DEF PushReady
<1>5. c \in Int /\ c = m.count + 1
  BY <1>3
<1> HIDE DEF p, c
<1>6. SpellAll([p EXCEPT !.count = c], K) /\ [p EXCEPT !.count = c].count = c
  BY <1>2, <1>5, CountedSpells
<1> QED
  BY <1>2, <1>4, <1>5, <1>6

LEMMA PopReadySpells ==
  ASSUME NEW m, NEW L, Linked(L), SpellAll(m, L), NEW K, Dropped(L, K, "ready")
  PROVE  /\ Linked(K) /\ SpellAll(PopReady(m), K)
         /\ PopReady(m).count = m.count - 1
<1> DEFINE p == pop_front(m, "ready")
<1>1. "ready" \in Lists /\ m \in Mem
  BY DEF Lists, SpellAll
<1>2. Linked(K) /\ SpellAll(p, K) /\ m.head["ready"] \in Slots
  BY <1>1, PopSpells
<1>3. p.count = m.count /\ m.count \in Int
  BY <1>1, <1>2, PopFrontIs DEF Mem
<1> DEFINE c == p.count - 1
<1>4. PopReady(m) = [p EXCEPT !.count = c]
  BY DEF PopReady
<1>5. c \in Int /\ c = m.count - 1
  BY <1>3
<1> HIDE DEF p, c
<1>6. SpellAll([p EXCEPT !.count = c], K) /\ [p EXCEPT !.count = c].count = c
  BY <1>2, <1>5, CountedSpells
<1> QED
  BY <1>2, <1>4, <1>5, <1>6

\* One iteration of wake_all() moves the first waiter of e to the ready FIFO.
LEMMA WakeFirstSpells ==
  ASSUME NEW m, NEW L, Linked(L), SpellAll(m, L), NEW e \in Events, L[e] # << >>,
         NEW K \in [Lists -> Seq(Slots)], K[e] = Tail(L[e]),
         K["ready"] = Append(L["ready"], L[e][1]),
         \A r \in Lists \ {e, "ready"} : K[r] = L[r]
  PROVE  /\ Linked(K) /\ SpellAll(WakeFirst(m, e), K)
         /\ WakeFirst(m, e).count = m.count + 1
<1> DEFINE J == [L EXCEPT ![e] = Tail(L[e])]
           p == pop_front(m, e)
           h == m.head[e]
<1>1. /\ e \in Lists /\ "ready" \in Lists /\ e # "ready" /\ m \in Mem
      /\ L \in [Lists -> Seq(Slots)]
  BY ListsAssumption DEF Lists, SpellAll, Linked
<1>2. Tail(L[e]) \in Seq(Slots)
  BY <1>1
<1>3. /\ J \in [Lists -> Seq(Slots)] /\ J[e] = Tail(L[e])
      /\ \A r \in Lists \ {e} : J[r] = L[r]
  BY <1>1, <1>2
<1> HIDE DEF J
<1>4. Dropped(L, J, e)
  BY <1>3 DEF Dropped
<1>5. Linked(J) /\ SpellAll(p, J) /\ h = L[e][1] /\ h \in Slots /\ ~In(J, h)
  BY <1>1, <1>4, PopSpells
<1>6. p.count = m.count
  BY <1>1, <1>5, PopFrontIs
<1>7. WakeFirst(m, e) = PushReady(p, h)
  BY <1>5, SlotFacts DEF WakeFirst
<1> HIDE DEF p, h
<1>8. K["ready"] = Append(J["ready"], h)
  BY <1>1, <1>3, <1>5
<1>9. Appended(J, K, "ready", h)
  BY <1>3, <1>8 DEF Appended
<1> QED
  BY <1>5, <1>6, <1>7, <1>9, PushReadySpells

\* A list without repetitions has at most MaxTasks members.
LEMMA ListBound ==
  ASSUME NEW q \in Seq(Slots), \A i, j \in 1..Len(q) : q[i] = q[j] => i = j
  PROVE  Len(q) <= MaxTasks
<1> DEFINE n == Len(q)
           R == Range(q)
<1>1. n \in Nat /\ DOMAIN q = 1..n
  OBVIOUS
<1>2. /\ q \in [1..n -> R] /\ R \subseteq Slots
      /\ \A x \in R : \E i \in 1..n : q[i] = x
      /\ \A i, j \in 1..n : q[i] = q[j] => i = j
  BY <1>1 DEF Range
<1> HIDE DEF n, R
<1>3. IsInjective(q)
  BY <1>1, <1>2 DEF IsInjective
<1>4. q \in Bijection(1..n, R)
  BY <1>2, <1>3 DEF Bijection, Injection, Surjection
<1>5. ExistsBijection(1..n, R)
  BY <1>4 DEF ExistsBijection
<1>6. Cardinality(R) = n
  BY <1>1, <1>5, FS_CountingElements
<1>7. IsFiniteSet(Slots) /\ Cardinality(Slots) = MaxTasks
  <2> DEFINE k == MaxTasks - 1
  <2>1. k \in Int /\ 0 \in Int /\ ~(0 > k) /\ k - 0 + 1 = MaxTasks
    BY SchedulerAssumption
  <2>2. IsFiniteSet(0..k) /\ Cardinality(0..k) = IF 0 > k THEN 0 ELSE k - 0 + 1
    BY <2>1, FS_Interval
  <2> QED
    BY <2>1, <2>2 DEF Slots
<1>8. Cardinality(R) <= Cardinality(Slots)
  BY <1>2, <1>7, FS_Subset
<1> QED
  BY <1>6, <1>7, <1>8 DEF n

\* Where a loop first goes wrong, if it does: this stands in for induction.
LEMMA LeastCounter ==
  ASSUME NEW S \in SUBSET Nat, S # {}
  PROVE  \E m \in S : \A k \in S : m <= k
<1>1. PICK m \in S : \A k \in Nat : <<k, m>> \in OpToRel(<, Nat) => k \notin S
  BY NatLessThanWellFounded, WFMin, Zenon
<1>2. \A k \in S : ~(k < m)
  BY <1>1 DEF OpToRel
<1> QED
  BY <1>2

\* The loop of wake_all() is well defined: the states after each iteration.
Iterates(m, e, n, f) == f = [i \in 0..n |-> IF i = 0 THEN m ELSE WakeFirst(f[i - 1], e)]

LEMMA LoopExists ==
  ASSUME NEW m, NEW e, NEW n \in Nat
  PROVE  \E f : Iterates(m, e, n, f)
<1> DEFINE Bad == {k \in Nat : ~\E f : Iterates(m, e, k, f)}
<1> SUFFICES ASSUME Bad # {} PROVE FALSE
  OBVIOUS
<1>1. PICK k \in Bad : \A j \in Bad : k <= j
  BY LeastCounter
<1>2. CASE k = 0
  <2> DEFINE f == [i \in 0..0 |-> m]
  <2>1. Iterates(m, e, 0, f)
    BY DEF Iterates
  <2> QED
    BY <1>1, <1>2, <2>1
<1>3. CASE k # 0
  <2>1. k \in Nat /\ k - 1 \in Nat /\ k - 1 \notin Bad
    BY <1>1, <1>3
  <2>2. PICK f : Iterates(m, e, k - 1, f)
    BY <2>1
  <2> DEFINE g == [i \in 0..k |-> IF i = k THEN WakeFirst(f[k - 1], e) ELSE f[i]]
  <2>3. \A i \in 0..(k - 1) : f[i] = IF i = 0 THEN m ELSE WakeFirst(f[i - 1], e)
    BY <2>2 DEF Iterates
  <2>4. ASSUME NEW i \in 0..k
        PROVE  g[i] = IF i = 0 THEN m ELSE WakeFirst(g[i - 1], e)
    <3>1. CASE i = k
      BY <1>3, <2>1, <3>1
    <3>2. CASE i # k
      <4>1. i \in 0..(k - 1) /\ g[i] = f[i]
        BY <2>1, <3>2
      <4>2. i # 0 => i - 1 \in 0..k /\ i - 1 # k
        BY <2>1, <4>1
      <4>3. i # 0 => g[i - 1] = f[i - 1]
        BY <4>2
      <4> QED
        BY <2>3, <4>1, <4>3
    <3> QED
      BY <3>1, <3>2
  <2>5. g = [i \in 0..k |-> g[i]]
    OBVIOUS
  <2> HIDE DEF g
  <2>6. Iterates(m, e, k, g)
    BY <2>4, <2>5 DEF Iterates
  <2> QED
    BY <1>1, <2>6
<1> QED
  BY <1>2, <1>3

\* The states that the loop of wake_all() goes through.
LEMMA WakeListIs ==
  ASSUME NEW m, NEW e
  PROVE  \E f : /\ WakeList(m, e) = f[MaxTasks] /\ f[0] = m
                /\ \A i \in 1..MaxTasks : f[i] = WakeFirst(f[i - 1], e)
<1> DEFINE f == CHOOSE g : g = [i \in 0..MaxTasks |->
                                  IF i = 0 THEN m ELSE WakeFirst(g[i - 1], e)]
<1>1. MaxTasks \in Nat \ {0}
  BY SchedulerAssumption
<1>2. \E g : g = [i \in 0..MaxTasks |-> IF i = 0 THEN m ELSE WakeFirst(g[i - 1], e)]
  <2>1. PICK g : Iterates(m, e, MaxTasks, g)
    BY <1>1, LoopExists
  <2>2. g = [i \in 0..MaxTasks |-> IF i = 0 THEN m ELSE WakeFirst(g[i - 1], e)]
    BY <2>1 DEF Iterates
  <2> QED
    BY <2>2
<1>3. f = [i \in 0..MaxTasks |-> IF i = 0 THEN m ELSE WakeFirst(f[i - 1], e)]
  BY <1>2
<1>4. WakeList(m, e) = f[MaxTasks]
  BY DEF WakeList
<1> HIDE DEF f
<1>5. \A i \in 0..MaxTasks : f[i] = IF i = 0 THEN m ELSE WakeFirst(f[i - 1], e)
  BY <1>3
<1>6. f[0] = m /\ \A i \in 1..MaxTasks : f[i] = WakeFirst(f[i - 1], e)
  BY <1>1, <1>5
<1> QED
  BY <1>4, <1>6

\* The lists L once the first k waiters of e have been moved to the ready FIFO.
Woken(L, e, k) ==
  [q \in Lists |-> IF q = e THEN SubSeq(L[e], k + 1, Len(L[e]))
                   ELSE IF q = "ready" THEN L["ready"] \o SubSeq(L[e], 1, k)
                   ELSE L[q]]

LEMMA ConcatIs ==
  ASSUME NEW r \in Seq(Slots), NEW q \in Seq(Slots)
  PROVE  /\ r \o q \in Seq(Slots) /\ Len(r \o q) = Len(r) + Len(q)
         /\ \A i \in 1..Len(r) : (r \o q)[i] = r[i]
         /\ \A i \in 1..Len(q) : (r \o q)[Len(r) + i] = q[i]
  OBVIOUS

\* Moving one more waiter.
LEMMA WokenNext ==
  ASSUME NEW r \in Seq(Slots), NEW w \in Seq(Slots), NEW k \in Nat, k < Len(w)
  PROVE  /\ SubSeq(w, k + 1, Len(w)) # << >>
         /\ SubSeq(w, (k + 1) + 1, Len(w)) = Tail(SubSeq(w, k + 1, Len(w)))
         /\ r \o SubSeq(w, 1, k + 1) =
              Append(r \o SubSeq(w, 1, k), SubSeq(w, k + 1, Len(w))[1])
<1> DEFINE n == Len(w)
           c == Len(r)
           a == SubSeq(w, k + 1, n)
           b == SubSeq(w, (k + 1) + 1, n)
           f == SubSeq(w, 1, k)
           g == SubSeq(w, 1, k + 1)
<1>1. n \in Nat /\ c \in Nat /\ \A i \in 1..n : w[i] \in Slots
  OBVIOUS
<1>2. /\ a \in Seq(Slots) /\ Len(a) = n - k
      /\ \A i \in 1..(n - k) : a[i] = w[k + i]
  BY <1>1
<1>3. /\ b \in Seq(Slots) /\ Len(b) = n - (k + 1)
      /\ \A i \in 1..(n - (k + 1)) : b[i] = w[(k + 1) + i]
  BY <1>1
<1>4. /\ f \in Seq(Slots) /\ Len(f) = k /\ \A i \in 1..k : f[i] = w[i]
      /\ g \in Seq(Slots) /\ Len(g) = k + 1 /\ \A i \in 1..(k + 1) : g[i] = w[i]
  BY <1>1
<1> HIDE DEF a, b, f, g, n, c
<1>5. n - k \in Nat \ {0} /\ k < n
  BY <1>1 DEF n
<1>6. a # << >>
  BY <1>2, <1>5
<1>7. b = Tail(a)
  <2>1. /\ Tail(a) \in Seq(Slots) /\ Len(Tail(a)) = n - (k + 1)
        /\ \A i \in 1..(n - (k + 1)) : Tail(a)[i] = a[i + 1]
    BY <1>1, <1>2, <1>5, <1>6
  <2>2. ASSUME NEW i \in 1..(n - (k + 1)) PROVE b[i] = Tail(a)[i]
    <3>1. i + 1 \in 1..(n - k) /\ k + (i + 1) = (k + 1) + i
      BY <1>1, <1>5
    <3> QED
      BY <1>2, <1>3, <2>1, <3>1
  <2> QED
    BY <1>3, <2>1, <2>2, SeqEqual
<1>8. r \o g = Append(r \o f, a[1])
  <2> DEFINE x == r \o g
             y == r \o f
  <2>1. /\ x \in Seq(Slots) /\ Len(x) = c + (k + 1)
        /\ \A i \in 1..c : x[i] = r[i]
        /\ \A i \in 1..(k + 1) : x[c + i] = g[i]
    <3>1. /\ x \in Seq(Slots) /\ Len(x) = c + Len(g)
          /\ \A i \in 1..c : x[i] = r[i]
          /\ \A i \in 1..Len(g) : x[c + i] = g[i]
      BY <1>4, ConcatIs DEF c
    <3> HIDE DEF x
    <3> QED
      BY <1>4, <3>1
  <2>2. /\ y \in Seq(Slots) /\ Len(y) = c + k
        /\ \A i \in 1..c : y[i] = r[i]
        /\ \A i \in 1..k : y[c + i] = f[i]
    <3>1. /\ y \in Seq(Slots) /\ Len(y) = c + Len(f)
          /\ \A i \in 1..c : y[i] = r[i]
          /\ \A i \in 1..Len(f) : y[c + i] = f[i]
      BY <1>4, ConcatIs DEF c
    <3> HIDE DEF y
    <3> QED
      BY <1>4, <3>1
  <2>3. a[1] = w[k + 1] /\ a[1] \in Slots
    BY <1>1, <1>2, <1>5
  <2> HIDE DEF x, y
  <2>4. /\ Append(y, a[1]) \in Seq(Slots) /\ Len(Append(y, a[1])) = c + (k + 1)
        /\ \A i \in 1..(c + k) : Append(y, a[1])[i] = y[i]
        /\ Append(y, a[1])[(c + k) + 1] = a[1]
    BY <1>1, <2>2, <2>3
  <2>5. ASSUME NEW i \in 1..(c + (k + 1)) PROVE x[i] = Append(y, a[1])[i]
    <3>1. CASE i \in 1..c
      <4>1. i \in 1..(c + k)
        BY <1>1, <3>1
      <4> QED
        BY <2>1, <2>2, <2>4, <3>1, <4>1
    <3>2. CASE i \notin 1..c /\ i # (c + k) + 1
      <4> DEFINE j == i - c
      <4>1. j \in 1..k /\ j \in 1..(k + 1) /\ i = c + j /\ i \in 1..(c + k)
        BY <1>1, <3>2
      <4> HIDE DEF j
      <4>2. x[i] = w[j] /\ y[i] = w[j]
        BY <1>4, <2>1, <2>2, <4>1
      <4> QED
        BY <2>4, <4>1, <4>2
    <3>3. CASE i = (c + k) + 1
      <4>1. k + 1 \in 1..(k + 1) /\ i = c + (k + 1)
        BY <1>1, <3>3
      <4> QED
        BY <1>4, <2>1, <2>3, <2>4, <3>3, <4>1
    <3> QED
      BY <3>1, <3>2, <3>3
  <2>6. x = Append(y, a[1])
    BY <2>1, <2>4, <2>5, SeqEqual
  <2> QED
    BY <2>6 DEF x, y
<1> QED
  BY <1>6, <1>7, <1>8 DEF a, b, f, g, n

\* The loop of wake_all() appends the waiters of e to the ready FIFO, in order.
LEMMA WakeListSpells ==
  ASSUME NEW m, NEW L, Linked(L), SpellAll(m, L), NEW e \in Events
  PROVE  /\ Linked(Woken(L, e, Len(L[e])))
         /\ SpellAll(WakeList(m, e), Woken(L, e, Len(L[e])))
         /\ WakeList(m, e).count = m.count + Len(L[e])
<1> DEFINE w == L[e]
           n == Len(w)
           M(k) == Woken(L, e, k)
<1>1. /\ e \in Lists /\ "ready" \in Lists /\ e # "ready"
      /\ L \in [Lists -> Seq(Slots)] /\ w \in Seq(Slots) /\ L["ready"] \in Seq(Slots)
      /\ n \in Nat /\ m.count \in Int
  BY ListsAssumption DEF Lists, Linked, SpellAll, Mem
<1>2. PICK f : /\ WakeList(m, e) = f[MaxTasks] /\ f[0] = m
               /\ \A i \in 1..MaxTasks : f[i] = WakeFirst(f[i - 1], e)
  BY WakeListIs
<1>3. n <= MaxTasks /\ MaxTasks \in Nat \ {0}
  BY <1>1, ListBound, SchedulerAssumption DEF Linked
<1>4. M(0) = L
  <2>1. SubSeq(w, 0 + 1, n) = w /\ L["ready"] \o SubSeq(w, 1, 0) = L["ready"]
    BY <1>1
  <2> QED
    BY <1>1, <2>1 DEF Woken
<1>5. ASSUME NEW k \in 0..n
      PROVE  /\ M(k) \in [Lists -> Seq(Slots)]
             /\ M(k)[e] = SubSeq(w, k + 1, n)
             /\ M(k)["ready"] = L["ready"] \o SubSeq(w, 1, k)
             /\ \A q \in Lists \ {e, "ready"} : M(k)[q] = L[q]
  <2>1. SubSeq(w, k + 1, n) \in Seq(Slots) /\ SubSeq(w, 1, k) \in Seq(Slots)
    BY <1>1
  <2>2. L["ready"] \o SubSeq(w, 1, k) \in Seq(Slots)
    BY <1>1, <2>1, ConcatIs
  <2> QED
    BY <1>1, <2>1, <2>2 DEF Woken
<1> DEFINE Reached(i, k) == /\ k = i \/ k = n
                            /\ Linked(M(k)) /\ SpellAll(f[i], M(k))
                            /\ f[i].count = m.count + k
           Bad == {i \in 0..MaxTasks : ~\E k \in 0..n : Reached(i, k)}
<1> HIDE DEF w, n, M
<1>6. Reached(0, 0) /\ 0 \in 0..n
  BY <1>1, <1>2, <1>4
<1>7. ASSUME NEW i \in 1..MaxTasks, NEW k \in 0..n, Reached(i - 1, k)
      PROVE  \E j \in 0..n : Reached(i, j)
  <2>1. f[i] = WakeFirst(f[i - 1], e) /\ k \in Nat
    BY <1>2, <1>1
  <2>2. CASE k = n
    <3>1. M(k)[e] = << >>
      BY <1>1, <1>5, <2>2
    <3>2. f[i - 1].head[e] = NoSlot
      BY <1>1, <1>7, <3>1 DEF SpellAll, Spells
    <3>3. f[i] = f[i - 1]
      BY <2>1, <3>2 DEF WakeFirst
    <3>4. Reached(i, k)
      BY <1>7, <2>2, <3>3
    <3> QED
      BY <3>4
  <2>3. CASE k # n
    <3>1. k = i - 1 /\ k < n /\ k + 1 \in 0..n /\ k + 1 = i
      BY <1>1, <1>7, <2>1, <2>3
    <3>2. /\ M(k)[e] # << >>
          /\ M(k + 1)[e] = Tail(M(k)[e])
          /\ M(k + 1)["ready"] = Append(M(k)["ready"], M(k)[e][1])
      <4>1. /\ SubSeq(w, k + 1, n) # << >>
            /\ SubSeq(w, (k + 1) + 1, n) = Tail(SubSeq(w, k + 1, n))
            /\ L["ready"] \o SubSeq(w, 1, k + 1) =
                 Append(L["ready"] \o SubSeq(w, 1, k), SubSeq(w, k + 1, n)[1])
        BY <1>1, <2>1, <3>1, WokenNext DEF n
      <4>2. /\ M(k)[e] = SubSeq(w, k + 1, n)
            /\ M(k)["ready"] = L["ready"] \o SubSeq(w, 1, k)
            /\ M(k + 1)[e] = SubSeq(w, (k + 1) + 1, n)
            /\ M(k + 1)["ready"] = L["ready"] \o SubSeq(w, 1, k + 1)
        BY <1>5, <3>1
      <4> QED
        BY <4>1, <4>2, Zenon
    <3>3. /\ M(k + 1) \in [Lists -> Seq(Slots)]
          /\ \A q \in Lists \ {e, "ready"} : M(k + 1)[q] = M(k)[q]
      BY <1>5, <3>1
    <3>4. /\ Linked(M(k + 1)) /\ SpellAll(WakeFirst(f[i - 1], e), M(k + 1))
          /\ WakeFirst(f[i - 1], e).count = f[i - 1].count + 1
      <4>1. Linked(M(k)) /\ SpellAll(f[i - 1], M(k))
        BY <1>7
      <4> QED
        BY <3>2, <3>3, <4>1, WakeFirstSpells
    <3>5. Reached(i, k + 1)
      <4>1. Linked(M(k + 1)) /\ SpellAll(f[i], M(k + 1))
        BY <2>1, <3>4
      <4>2. f[i].count = (m.count + k) + 1
        BY <1>7, <2>1, <3>4
      <4>3. \A c \in Int : (c + k) + 1 = c + (k + 1)
        BY <2>1
      <4>4. f[i].count = m.count + (k + 1)
        BY <1>1, <4>2, <4>3
      <4> QED
        BY <3>1, <4>1, <4>4
    <3> QED
      BY <3>1, <3>5
  <2> QED
    BY <2>2, <2>3
<1>8. Bad = {}
  <2> SUFFICES ASSUME Bad # {} PROVE FALSE
    OBVIOUS
  <2>1. Bad \in SUBSET Nat
    BY <1>3
  <2>2. PICK i \in Bad : \A j \in Bad : i <= j
    BY <2>1, LeastCounter
  <2>3. i \in 0..MaxTasks /\ ~\E k \in 0..n : Reached(i, k)
    BY <2>2
  <2>4. i # 0
    BY <1>6, <2>3
  <2>5. i \in 1..MaxTasks /\ i - 1 \in 0..MaxTasks /\ ~(i <= i - 1)
    BY <1>3, <2>3, <2>4
  <2>6. i - 1 \notin Bad
    BY <2>2, <2>5
  <2>7. PICK k \in 0..n : Reached(i - 1, k)
    BY <2>5, <2>6
  <2> QED
    BY <1>7, <2>3, <2>5, <2>7
<1>9. PICK k \in 0..n : Reached(MaxTasks, k)
  <2>1. MaxTasks \in 0..MaxTasks
    BY <1>3
  <2> QED
    BY <1>8, <2>1
<1>10. k = n
  BY <1>1, <1>3, <1>9
<1> QED
  BY <1>2, <1>9, <1>10 DEF M, n, w

-----------------------------------------------------------------------------
(* The lists of the program.                                               *)

\* The ready FIFO and the wait queues, by list header.
Queues == [q \in Lists |-> IF q = "ready" THEN ready ELSE waiters[q]]

\* A task runs only inside run_pass(), also when ~Scheduler() has started.
RunnerInPass == current # NoSlot => phase = "pass"

ListInv ==
  /\ EventInv
  /\ RunnerInPass
  /\ Linked(Queues)
  /\ SpellAll(mem, Queues)
  /\ mem.count = Len(ready)

LEMMA QueuesAre ==
  ASSUME ready \in Seq(Slots), waiters \in [Events -> Seq(Slots)]
  PROVE  /\ Queues \in [Lists -> Seq(Slots)] /\ Queues["ready"] = ready
         /\ \A e \in Events : Queues[e] = waiters[e]
         /\ "ready" \in Lists /\ Events \subseteq Lists /\ "ready" \notin Events
         /\ \A q \in Lists : q # "ready" => q \in Events
  BY ListsAssumption DEF Queues, Lists

LEMMA EventTypes ==
  ASSUME EventInv
  PROVE  /\ ready \in Seq(Slots) /\ waiters \in [Events -> Seq(Slots)]
         /\ FifoInv /\ current \in Slots \union {NoSlot} /\ state \in [Slots -> States]
  BY DEF EventInv, WaitersExact, EventTypeOK, TimerInv, FifoInv, Typed

\* Outside ~Scheduler() the state of a slot says which list it is in.
LEMMA ListsByState ==
  ASSUME EventInv, ~shutting_down
  PROVE  /\ Linked(Queues)
         /\ \A s \in Slots : In(Queues, s) => state[s] \in {"ready", "waiting_local"}
<1>1. /\ ready \in Seq(Slots) /\ waiters \in [Events -> Seq(Slots)]
  BY EventTypes
<1>2. /\ Queues \in [Lists -> Seq(Slots)] /\ Queues["ready"] = ready
      /\ \A e \in Events : Queues[e] = waiters[e]
      /\ "ready" \in Lists /\ Events \subseteq Lists /\ "ready" \notin Events
      /\ \A q \in Lists : q # "ready" => q \in Events
  BY <1>1, QueuesAre
<1>3. /\ IsInjective(ready) /\ \A s \in Slots : state[s] = "ready" <=> s \in Range(ready)
  BY EventTypes DEF FifoInv, ReadyQueueExact
<1>4. /\ \A e \in Events : IsInjective(waiters[e])
      /\ \A e, f \in Events : Range(waiters[e]) \cap Range(waiters[f]) # {} => e = f
      /\ \A s \in Slots :
           state[s] = "waiting_local" <=> \E e \in Events : s \in Range(waiters[e])
  BY DEF EventInv, WaitersExact
<1>5. \A i \in 1..Len(ready) : ready[i] \in Slots /\ state[ready[i]] = "ready"
  BY <1>1, <1>3 DEF Range
<1>6. ASSUME NEW e \in Events, NEW i \in 1..Len(waiters[e])
      PROVE  /\ waiters[e][i] \in Slots /\ waiters[e][i] \in Range(waiters[e])
             /\ state[waiters[e][i]] = "waiting_local"
  <2>1. waiters[e][i] \in Slots /\ waiters[e][i] \in Range(waiters[e])
    BY <1>1 DEF Range
  <2> QED
    BY <1>4, <2>1
<1>7. ASSUME NEW q \in Lists, NEW r \in Lists, NEW i \in 1..Len(Queues[q]),
             NEW j \in 1..Len(Queues[r]), Queues[q][i] = Queues[r][j]
      PROVE  q = r /\ i = j
  <2>1. CASE q = "ready" /\ r = "ready"
    BY <1>1, <1>2, <1>3, <1>7, <2>1 DEF IsInjective
  <2>2. CASE q = "ready" /\ r # "ready"
    <3>1. state[ready[i]] = "ready" /\ state[waiters[r][j]] = "waiting_local"
      BY <1>2, <1>5, <1>6, <2>2
    <3> QED
      BY <1>2, <1>7, <2>2, <3>1
  <2>3. CASE q # "ready" /\ r = "ready"
    <3>1. state[ready[j]] = "ready" /\ state[waiters[q][i]] = "waiting_local"
      BY <1>2, <1>5, <1>6, <2>3
    <3> QED
      BY <1>2, <1>7, <2>3, <3>1
  <2>4. CASE q # "ready" /\ r # "ready"
    <3>1. /\ q \in Events /\ r \in Events /\ waiters[q][i] = waiters[r][j]
          /\ i \in 1..Len(waiters[q]) /\ j \in 1..Len(waiters[r])
      BY <1>2, <1>7, <2>4
    <3>2. q = r
      <4>1. waiters[q][i] \in Range(waiters[q]) /\ waiters[r][j] \in Range(waiters[r])
        BY <1>6, <3>1
      <4>2. Range(waiters[q]) \cap Range(waiters[r]) # {}
        BY <3>1, <4>1
      <4> QED
        BY <1>4, <3>1, <4>2
    <3>3. IsInjective(waiters[q]) /\ DOMAIN waiters[q] = 1..Len(waiters[q])
      BY <1>1, <1>4, <3>1
    <3> QED
      BY <3>1, <3>2, <3>3 DEF IsInjective
  <2> QED
    BY <2>1, <2>2, <2>3, <2>4
<1>8. Linked(Queues)
  BY <1>2, <1>7 DEF Linked
<1>9. ASSUME NEW s \in Slots, In(Queues, s) PROVE state[s] \in {"ready", "waiting_local"}
  <2>1. PICK q \in Lists : \E i \in 1..Len(Queues[q]) : Queues[q][i] = s
    BY <1>9 DEF In
  <2>2. CASE q = "ready"
    BY <1>2, <1>5, <2>1, <2>2
  <2>3. CASE q # "ready"
    BY <1>2, <1>6, <2>1, <2>3
  <2> QED
    BY <2>2, <2>3
<1> QED
  BY <1>8, <1>9

LEMMA ListsApart == EventInv /\ ~shutting_down => Linked(Queues)
  BY ListsByState

\* A step of the scheduler queues one slot, dequeues one, or neither, and leaves
\* the FIFO alone once ~Scheduler() has started.
LEMMA ReadyStep ==
  ASSUME FifoInv, RunnerInPass, Next
  PROVE  \/ UNCHANGED ready
         \/ /\ ~shutting_down /\ UNCHANGED phase
            /\ \/ \E s \in Slots : ready' = Append(ready, s)
               \/ ready # << >> /\ ready' = Tail(ready)
<1>1. /\ dying \in Slots \union {NoSlot} /\ current \in Slots \union {NoSlot}
      /\ parent \in [Slots -> Slots \union {NoSlot}]
  BY DEF FifoInv, Typed
<1>2. CASE ScheduleTask
  BY <1>2 DEF ScheduleTask, Occupy, ready_push
<1>3. CASE \/ PollRejected \/ AwaitRejected \/ TeardownBegin \/ Teardown \/ Tick \/ Exited
           \/ NoExternalSignals \/ PollBegin \/ TimersDone \/ PassDone \/ Finish
           \/ SuspendUnregistered
  BY <1>3 DEF PollRejected, AwaitRejected, TeardownBegin, Teardown, TeardownDetach,
              TeardownEnd, Tick, Exited, NoExternalSignals, PollBegin,
              TimersDone, PassDone, Finish, SuspendUnregistered, restVars, vars
<1>4. CASE FireTimer
  BY <1>4 DEF FireTimer, ready_push, shutting_down
<1>5. CASE Resume
  BY <1>5 DEF Resume, shutting_down
<1>6. CASE Reap
  BY <1>1, <1>6 DEF Reap, Complete, ready_push, shutting_down
<1>7. CASE Yield \/ (\E d \in Durations : Delay(d)) \/ AwaitChild
  <2>1. current \in Slots /\ phase = "pass" /\ UNCHANGED phase
    BY <1>1, <1>7 DEF Yield, Delay, AwaitChild, Suspends, RunnerInPass
  <2> QED
    BY <1>7, <2>1 DEF Yield, Delay, AwaitChild, AdoptChild, Occupy, Requeue, ready_push,
                      shutting_down
<1> QED
  BY <1>2, <1>3, <1>4, <1>5, <1>6, <1>7 DEF Next, CoreNext, Poll, TaskSuspends

\* Events do not start or end the pass while a task runs.
LEMMA RunnerStep ==
  ASSUME RunnerInPass, [EventNext]_evars
  PROVE  RunnerInPass'
<1> USE DEF RunnerInPass
<1>1. CASE CoreNext
  BY <1>1, CoreStages
<1>2. CASE NoExternalSignals
  BY <1>2 DEF NoExternalSignals
<1>3. CASE EventSuspends
  BY <1>3 DEF EventSuspends, EventWait, Park, Suspends
<1>4. CASE \E e \in Events : EventWaitSet(e) \/ EventClear(e) \/ EventSet(e) \/ EventDestroy(e)
  BY <1>4 DEF EventWaitSet, EventClear, EventSet, EventDestroy, restVars, sleepVars
<1>5. CASE UNCHANGED evars
  BY <1>5 DEF evars, vars
<1> QED
  BY <1>1, <1>2, <1>3, <1>4, <1>5 DEF EventNext, Next

\* A step of the scheduler.
LEMMA ListSchedulerStep ==
  ASSUME ListInv, SchedulerLists, EventInv'
  PROVE  Linked(Queues)' /\ SpellAll(mem, Queues)' /\ mem'.count = Len(ready')
<1> DEFINE n == Len(ready)
           Q == Queues
<1>1. /\ Next /\ UNCHANGED waiters
      /\ mem' = IF Len(ready') > n THEN PushReady(mem, ready'[Len(ready')])
                ELSE IF Len(ready') < n THEN PopReady(mem)
                ELSE mem
  BY DEF SchedulerLists, eventVars
<1>2. /\ FifoInv /\ RunnerInPass /\ Linked(Q) /\ SpellAll(mem, Q) /\ mem.count = n
      /\ ready \in Seq(Slots) /\ waiters \in [Events -> Seq(Slots)] /\ n \in Nat
  BY EventTypes DEF ListInv
<1>3. ready' \in Seq(Slots) /\ waiters' \in [Events -> Seq(Slots)]
  BY DEF EventInv, WaitersExact, EventTypeOK, TimerInv, FifoInv, Typed
<1>4. /\ Q \in [Lists -> Seq(Slots)] /\ Q["ready"] = ready /\ "ready" \in Lists
  BY <1>2, QueuesAre
<1>5. /\ Q' \in [Lists -> Seq(Slots)] /\ Q'["ready"] = ready'
      /\ \A q \in Lists \ {"ready"} : Q'[q] = Q[q]
  BY <1>1, <1>2, <1>3, ListsAssumption DEF Queues, Lists
<1>6. CASE UNCHANGED ready
  <2>1. UNCHANGED <<mem, Q>>
    BY <1>1, <1>2, <1>6 DEF Queues
  <2> QED
    BY <1>2, <1>6, <2>1
<1> HIDE DEF n, Q
<1>7. ASSUME ~shutting_down, UNCHANGED phase, NEW s \in Slots, ready' = Append(ready, s)
      PROVE  Linked(Q)' /\ SpellAll(mem, Q)' /\ mem'.count = Len(ready')
  <2>1. /\ Len(ready') = n + 1 /\ ready'[n + 1] = s /\ \A i \in 1..n : ready'[i] = ready[i]
    BY <1>2, <1>7 DEF n
  <2>2. mem' = PushReady(mem, s)
    BY <1>1, <1>2, <2>1
  <2>3. Linked(Q)'
    <3>1. (EventInv /\ ~shutting_down => Linked(Queues))'
      BY ListsApart, PTL
    <3>2. ~shutting_down'
      BY <1>7 DEF shutting_down
    <3> QED
      BY <3>1, <3>2 DEF Q
  <2>4. ASSUME NEW q \in Lists, NEW i \in 1..Len(Q[q]), Q[q][i] = s PROVE FALSE
    <3>1. CASE q = "ready"
      <4>1. i \in 1..n /\ i \in 1..Len(Q'["ready"]) /\ n + 1 \in 1..Len(Q'["ready"]) /\ i # n + 1
        BY <1>2, <1>4, <1>5, <2>1, <3>1 DEF n
      <4>2. Q'["ready"][i] = s /\ Q'["ready"][n + 1] = s
        BY <1>4, <1>5, <2>1, <2>4, <3>1, <4>1
      <4> QED
        BY <1>4, <2>3, <4>1, <4>2 DEF Linked
    <3>2. CASE q # "ready"
      <4>1. i \in 1..Len(Q'[q]) /\ Q'[q][i] = s
        BY <1>5, <2>4, <3>2
      <4>2. n + 1 \in 1..Len(Q'["ready"]) /\ Q'["ready"][n + 1] = s
        BY <1>2, <1>5, <2>1
      <4> QED
        BY <1>4, <2>3, <3>2, <4>1, <4>2 DEF Linked
    <3> QED
      BY <3>1, <3>2
  <2>5. ~In(Q, s)
    BY <2>4 DEF In
  <2>6. Appended(Q, Q', "ready", s)
    BY <1>4, <1>5, <1>7 DEF Appended
  <2>7. Linked(Q') /\ SpellAll(PushReady(mem, s), Q') /\ PushReady(mem, s).count = mem.count + 1
    BY <1>2, <2>5, <2>6, PushReadySpells
  <2> QED
    BY <1>2, <2>1, <2>2, <2>3, <2>7
<1>8. CASE ready # << >> /\ ready' = Tail(ready)
  <2>1. Len(ready') = n - 1 /\ mem' = PopReady(mem)
    BY <1>1, <1>2, <1>8 DEF n
  <2>2. Dropped(Q, Q', "ready")
    BY <1>4, <1>5, <1>8 DEF Dropped
  <2>3. Linked(Q') /\ SpellAll(PopReady(mem), Q') /\ PopReady(mem).count = mem.count - 1
    BY <1>2, <2>2, PopReadySpells
  <2> QED
    BY <1>2, <2>1, <2>3 DEF Q
<1> QED
  BY <1>1, <1>2, <1>6, <1>7, <1>8, ReadyStep DEF Q

\* co_await wait() of an Event: the running task is in no list.
LEMMA ListWaitStep ==
  ASSUME ListInv, NEW e \in Events, EventWait(e), mem' = push_back(mem, e, current), EventInv'
  PROVE  Linked(Queues)' /\ SpellAll(mem, Queues)' /\ mem'.count = Len(ready')
<1> DEFINE Q == Queues
<1>1. /\ Linked(Q) /\ SpellAll(mem, Q) /\ mem.count = Len(ready) /\ EventInv
      /\ ready \in Seq(Slots) /\ waiters \in [Events -> Seq(Slots)]
      /\ current \in Slots \union {NoSlot}
  BY EventTypes DEF ListInv
<1>2. /\ current \in Slots /\ state[current] = "running" /\ ~shutting_down /\ UNCHANGED ready
      /\ waiters' = [waiters EXCEPT ![e] = Append(@, current)]
  BY <1>1 DEF EventWait, Park, Suspends, ListInv, RunnerInPass, shutting_down
<1>3. /\ waiters' \in [Events -> Seq(Slots)] /\ waiters'[e] = Append(waiters[e], current)
      /\ \A f \in Events \ {e} : waiters'[f] = waiters[f]
  BY <1>1, <1>2
<1>4. e \in Lists /\ Q[e] = waiters[e] /\ e # "ready"
  BY <1>1, QueuesAre
<1>5. ~In(Q, current)
  BY <1>1, <1>2, ListsByState
<1>6. /\ Q' \in [Lists -> Seq(Slots)] /\ Q'[e] = waiters'[e]
      /\ \A q \in Lists \ {e} : Q'[q] = Q[q]
  BY <1>1, <1>2, <1>3, <1>4, ListsAssumption DEF Queues, Lists
<1> HIDE DEF Q
<1>7. Appended(Q, Q', e, current)
  BY <1>3, <1>4, <1>6 DEF Appended
<1>8. Linked(Q') /\ SpellAll(push_back(mem, e, current), Q')
  BY <1>1, <1>2, <1>4, <1>5, <1>7, PushSpells
<1>9. push_back(mem, e, current).count = mem.count
  BY <1>1, <1>2, <1>4, PushBackIs DEF SpellAll
<1> QED
  BY <1>1, <1>2, <1>8, <1>9 DEF Q

\* set(): the loop of wake_all(), tombstones of ~Scheduler() included.
LEMMA ListSetStep ==
  ASSUME ListInv, NEW e \in Events, EventSet(e), mem' = WakeList(mem, e)
  PROVE  Linked(Queues)' /\ SpellAll(mem, Queues)' /\ mem'.count = Len(ready')
<1> DEFINE Q == Queues
           w == waiters[e]
           n == Len(w)
<1>1. /\ Linked(Q) /\ SpellAll(mem, Q) /\ mem.count = Len(ready)
      /\ ready \in Seq(Slots) /\ waiters \in [Events -> Seq(Slots)]
  BY EventTypes DEF ListInv
<1>2. ready' = ready \o w /\ waiters' = [waiters EXCEPT ![e] = << >>]
  BY DEF EventSet, WakeWaiters, wake_all
<1>3. /\ e \in Lists /\ Q["ready"] = ready /\ e # "ready" /\ Q[e] = w
      /\ \A q \in Lists \ {e, "ready"} : Q[q] = waiters[q] /\ q \in Events
  BY <1>1, QueuesAre
<1>4. /\ w \in Seq(Slots) /\ n \in Nat /\ SubSeq(w, n + 1, n) = << >> /\ SubSeq(w, 1, n) = w
      /\ Len(ready \o w) = Len(ready) + n
  BY <1>1
<1> HIDE DEF Q, w, n
<1>5. Woken(Q, e, n) = [q \in Lists |-> IF q = e THEN << >>
                                        ELSE IF q = "ready" THEN ready \o w ELSE Q[q]]
  BY <1>3, <1>4 DEF Woken, n
<1>6. Q' = [q \in Lists |-> IF q = "ready" THEN ready \o w ELSE waiters'[q]]
  BY <1>2 DEF Q, Queues
<1>7. ASSUME NEW q \in Lists
      PROVE  (IF q = "ready" THEN ready \o w ELSE waiters'[q]) =
             (IF q = e THEN << >> ELSE IF q = "ready" THEN ready \o w ELSE Q[q])
  BY <1>1, <1>2, <1>3
<1>8. Q' = Woken(Q, e, n)
  BY <1>5, <1>6, <1>7
<1>9. /\ Linked(Woken(Q, e, n)) /\ SpellAll(WakeList(mem, e), Woken(Q, e, n))
      /\ WakeList(mem, e).count = mem.count + n
  BY <1>1, <1>3, WakeListSpells DEF n
<1> QED
  BY <1>1, <1>2, <1>4, <1>8, <1>9 DEF Q

LEMMA ListInvInit == ListInit => ListInv
<1> SUFFICES ASSUME ListInit PROVE ListInv
  OBVIOUS
<1>1. /\ EventInit /\ ready = << >> /\ current = NoSlot
      /\ mem = [next |-> [s \in Slots |-> NoSlot], head |-> [q \in Lists |-> NoSlot],
                tail |-> [q \in Lists |-> NoSlot], count |-> 0]
      /\ waiters = [e \in Events |-> << >>]
  BY DEF ListInit, EventInit, Init
<1>2. EventInv /\ RunnerInPass
  BY <1>1, EventInvInit DEF RunnerInPass
<1>3. Queues = [q \in Lists |-> << >>]
  <2>1. ASSUME NEW q \in Lists PROVE (IF q = "ready" THEN ready ELSE waiters[q]) = << >>
    BY <1>1, <2>1 DEF Lists
  <2> QED
    BY <2>1 DEF Queues
<1>4. Linked(Queues)
  BY <1>3 DEF Linked
<1>5. mem \in Mem /\ mem.count = 0 /\ Len(ready) = 0
  BY <1>1 DEF Mem, Links
<1>6. SpellAll(mem, Queues)
  BY <1>1, <1>3, <1>5 DEF SpellAll, Spells
<1> QED
  BY <1>2, <1>4, <1>5, <1>6 DEF ListInv

LEMMA ListInvNext == ListInv /\ [ListNext]_lvars => ListInv'
<1> SUFFICES ASSUME ListInv, [ListNext]_lvars PROVE ListInv'
  OBVIOUS
<1>1. [EventNext]_evars
  BY DEF ListNext, lvars, SchedulerLists, EventLists, EventNext, EventSuspends
<1>2. EventInv' /\ RunnerInPass'
  BY <1>1, EventInvNext, RunnerStep DEF ListInv
<1>3. CASE UNCHANGED <<mem, ready, waiters>>
  BY <1>2, <1>3 DEF ListInv, Queues
<1>4. CASE SchedulerLists
  BY <1>2, <1>4, ListSchedulerStep DEF ListInv
<1>5. ASSUME NEW e \in Events, EventWait(e), mem' = push_back(mem, e, current)
      PROVE  ListInv'
  BY <1>2, <1>5, ListWaitStep DEF ListInv
<1>6. ASSUME NEW e \in Events, EventSet(e), mem' = WakeList(mem, e) PROVE ListInv'
  BY <1>2, <1>6, ListSetStep DEF ListInv
<1>7. ASSUME NEW e \in Events, EventWaitSet(e) \/ EventClear(e) \/ EventDestroy(e), UNCHANGED mem
      PROVE  ListInv'
  BY <1>3, <1>7 DEF EventWaitSet, EventClear, EventDestroy, restVars, eventVars
<1>8. CASE UNCHANGED lvars
  BY <1>3, <1>8 DEF lvars, evars, vars, eventVars
<1> QED
  BY <1>4, <1>5, <1>6, <1>7, <1>8 DEF ListNext, EventLists

LEMMA ListInvariant == ListSpec => []ListInv
  BY ListInvInit, ListInvNext, PTL DEF ListSpec

\* One next pointer per slot suffices, for any number of slots and Events: the links,
\* heads, tails and ready_count_ always spell the ready FIFO and the wait queues, also
\* during ~Scheduler(), when destroyed tasks stay linked and are woken by set().
THEOREM LinksAreExact == ListSpec => []ListsSpellQueues
<1>1. ASSUME ListInv PROVE ListsSpellQueues
  <2>1. /\ ready \in Seq(Slots) /\ waiters \in [Events -> Seq(Slots)]
        /\ SpellAll(mem, Queues) /\ mem.count = Len(ready)
    BY <1>1, EventTypes DEF ListInv
  <2>2. /\ Queues["ready"] = ready
        /\ \A e \in Events : Queues[e] = waiters[e]
        /\ "ready" \in Lists /\ Events \subseteq Lists
        /\ \A q \in Lists : q # "ready" => q \in Events
    BY <2>1, QueuesAre
  <2>3. Spells(mem, "ready", ready) /\ \A e \in Events : Spells(mem, e, waiters[e])
    BY <2>1, <2>2 DEF SpellAll
  <2>4. ASSUME NEW s \in Slots, mem.next[s] # NoSlot
        PROVE  s \in Range(ready) \/ \E e \in Events : s \in Range(waiters[e])
    <3>1. PICK q \in Lists : \E i \in 1..Len(Queues[q]) : Queues[q][i] = s
      BY <2>1, <2>4 DEF SpellAll, In
    <3>2. CASE q = "ready"
      BY <2>1, <2>2, <3>1, <3>2 DEF Range
    <3>3. CASE q # "ready"
      <4>1. q \in Events /\ waiters[q] \in Seq(Slots) /\ Queues[q] = waiters[q]
        BY <2>1, <2>2, <3>3
      <4>2. s \in Range(waiters[q])
        BY <3>1, <4>1 DEF Range
      <4> QED
        BY <4>1, <4>2
    <3> QED
      BY <3>2, <3>3
  <2> QED
    BY <2>1, <2>3, <2>4 DEF ListsSpellQueues
<1> QED
  BY <1>1, ListInvariant, PTL
==============================================================================
