------------------------------ MODULE SlotLists ------------------------------
(***************************************************************************)
(* The intrusive lists of src/src/simpleawait/scheduler.h: the ready FIFO  *)
(* and the WaitQueue of each Event share one next pointer per slot.  The   *)
(* pointers are kept in step with the sequences of modules Scheduler and   *)
(* Event, which they implement.                                            *)
(***************************************************************************)
EXTENDS Event

\* The list headers: one WaitQueue per Event and ready_head_, ready_tail_.
Lists == Events \union {"ready"}

ASSUME ListsAssumption == "ready" \notin Events

VARIABLE mem   \* the pointers: next of each slot, head and tail of each list,
               \* and ready_count_

lvars == <<evars, mem>>

ListInit ==
  /\ EventInit
  /\ mem = [next |-> [s \in Slots |-> NoSlot], head |-> [q \in Lists |-> NoSlot],
            tail |-> [q \in Lists |-> NoSlot], count |-> 0]

\* WaitQueue::push_back(s), and the link part of ready_push(s).
push_back(m, q, s) ==
  LET n == [m.next EXCEPT ![s] = NoSlot] IN
  IF m.tail[q] = NoSlot
  THEN [m EXCEPT !.next = n, !.head[q] = s, !.tail[q] = s]
  ELSE [m EXCEPT !.next = [n EXCEPT ![m.tail[q]] = s], !.tail[q] = s]

\* WaitQueue::pop_front(), and the link part of ready_pop(), of a list with a head.
pop_front_mut(m, q) ==
  LET s == m.head[q] IN [m EXCEPT !.head[q] = m.next[s], !.next[s] = NoSlot]
pop_front(m, q) ==
  LET s == m.head[q] IN
  [m EXCEPT !.head[q] = m.next[s],
            !.tail[q] = IF m.next[s] = NoSlot THEN NoSlot ELSE @,
            !.next[s] = NoSlot]

PushReady(m, s) == [push_back(m, "ready", s) EXCEPT !.count = @ + 1]
PopReady(m) == [pop_front(m, "ready") EXCEPT !.count = @ - 1]

\* One iteration of the loop in wake_all().
WakeFirst(m, e) ==
  IF m.head[e] = NoSlot THEN m ELSE PushReady(pop_front(m, e), m.head[e])

\* wake_all() of the waiters of e; a list has at most MaxTasks members.
WakeList(m, e) ==
  LET after[i \in 0..MaxTasks] == IF i = 0 THEN m ELSE WakeFirst(after[i - 1], e)
  IN after[MaxTasks]

\* A step of the scheduler queues one slot, dequeues one, or neither.
SchedulerLists ==
  /\ Next
  /\ UNCHANGED eventVars
  /\ mem' = IF Len(ready') > Len(ready) THEN PushReady(mem, ready'[Len(ready')])
            ELSE IF Len(ready') < Len(ready) THEN PopReady(mem)
            ELSE mem

EventLists(e) ==
  \/ EventWait(e) /\ mem' = push_back(mem, e, current)
  \/ EventSet(e) /\ mem' = WakeList(mem, e)
  \/ (EventWaitSet(e) \/ EventClear(e) \/ EventDestroy(e)) /\ UNCHANGED mem

ListNext == SchedulerLists \/ \E e \in Events : EventLists(e)

ListSpec == ListInit /\ [][ListNext]_lvars
ListFairSpec == ListSpec /\ EventFairness

-----------------------------------------------------------------------------

\* The pointers m of list q spell the sequence of slots queue.
Spells(m, q, queue) ==
  /\ m.head[q] = IF queue = << >> THEN NoSlot ELSE queue[1]
  /\ m.tail[q] = IF queue = << >> THEN NoSlot ELSE queue[Len(queue)]
  /\ \A i \in DOMAIN queue :
       m.next[queue[i]] = IF i = Len(queue) THEN NoSlot ELSE queue[i + 1]

\* The one next pointer per slot suffices: following the links always yields the
\* ready FIFO and the waiters of each Event in order, the tails and ready_count_ are
\* right, and a slot in no list has no successor, whichever lists the slot has been
\* moved between and although tombstones stay linked during teardown.
ListsSpellQueues ==
  /\ Spells(mem, "ready", ready)
  /\ \A e \in Events : Spells(mem, e, waiters[e])
  /\ mem.count = Len(ready)
  /\ \A s \in Slots :
       mem.next[s] # NoSlot =>
         s \in Range(ready) \/ \E e \in Events : s \in Range(waiters[e])
==============================================================================
