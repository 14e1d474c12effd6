------------------------------- MODULE Event ---------------------------------
(***************************************************************************)
(* Event (src/src/simpleawait/event.h) composed with the scheduler: a      *)
(* manual-reset latch with a FIFO of parked tasks.  Event objects live in  *)
(* user code, so any user code may set, clear or destroy one, the          *)
(* destructors that ~Scheduler() runs included.                            *)
(***************************************************************************)
EXTENDS Scheduler

CONSTANT Events   \* the Event objects of the program

VARIABLES
  is_set,    \* Event::set_
  waiters,   \* Event::waiters_
  alive      \* the Event has not been destroyed

eventVars == <<is_set, waiters, alive>>
evars == <<vars, eventVars>>

EventInit ==
  /\ Init
  /\ is_set = [e \in Events |-> FALSE]
  /\ waiters = [e \in Events |-> << >>]
  /\ alive = [e \in Events |-> TRUE]

\* await_ready() of e.wait() is false.
MustWait_mut(e) == TRUE
MustWait(e) == ~is_set[e]

\* co_await e.wait() by the running task.
EventWait(e) ==
  /\ alive[e]
  /\ MustWait(e)
  /\ Park
  /\ waiters' = [waiters EXCEPT ![e] = Append(@, current)]
  /\ UNCHANGED <<is_set, alive>>

\* Calls that do not move a task: wait() on a set Event returns at once, clear()
\* resets the latch.
EventWaitSet(e) ==
  /\ alive[e]
  /\ current # NoSlot
  /\ is_set[e]
  /\ error' = "none"
  /\ UNCHANGED <<restVars, eventVars>>

EventClear(e) ==
  /\ alive[e]
  /\ UserCode
  /\ is_set' = [is_set EXCEPT ![e] = FALSE]
  /\ error' = "none"
  /\ UNCHANGED <<restVars, waiters, alive>>

\* wake_all() empties the wait queue into the ready FIFO.
WakeWaiters_keeps(e) == wake_all(waiters[e]) /\ UNCHANGED waiters
WakeWaiters(e) ==
  /\ wake_all(waiters[e])
  /\ waiters' = [waiters EXCEPT ![e] = << >>]

\* set(): latch the Event and queue every waiter, in order.
EventSet(e) ==
  /\ alive[e]
  /\ UserCode
  /\ is_set' = [is_set EXCEPT ![e] = TRUE]
  /\ WakeWaiters(e)
  /\ error' = "none"
  /\ UNCHANGED <<sleepVars, alive>>

\* ~Event(), also of an Event that outlives the scheduler.
EventDestroy(e) ==
  /\ alive[e]
  /\ UserCode \/ phase = "gone"
  /\ alive' = [alive EXCEPT ![e] = FALSE]
  /\ error' = IF waiters[e] = << >> THEN "none" ELSE "object_destroyed_with_waiters"
  /\ UNCHANGED <<restVars, is_set, waiters>>

EventSuspends == \E e \in Events : EventWait(e)

EventNext ==
  \/ Next /\ UNCHANGED eventVars
  \/ EventSuspends
  \/ \E e \in Events : \/ EventWaitSet(e)
                       \/ EventClear(e)
                       \/ EventSet(e)
                       \/ EventDestroy(e)

EventSpec == EventInit /\ [][EventNext]_evars

\* As for the scheduler; parking on an Event is one more way to suspend.
EventFairness ==
  /\ WF_evars(NoExternalSignals /\ UNCHANGED eventVars)
  /\ WF_evars(Poll /\ UNCHANGED eventVars)
  /\ WF_evars((TaskSuspends /\ UNCHANGED eventVars) \/ EventSuspends)
  /\ WF_evars(Teardown /\ UNCHANGED eventVars)

EventFairSpec == EventSpec /\ EventFairness

-----------------------------------------------------------------------------

\* The latch, the wait queues and the lifetimes keep their types; park() links
\* only real slots into a wait queue.
EventTypeOK ==
  /\ is_set \in [Events -> BOOLEAN]
  /\ waiters \in [Events -> Seq(Slots)]
  /\ alive \in [Events -> BOOLEAN]

\* The state is well-typed and a slot is linked into at most one FIFO: a task in
\* waiting_local stands once in the waiters of exactly one Event, and no other task
\* stands in any, so the ready FIFO and the wait queues never share the slot's next
\* link.
WaitersExact ==
  /\ EventTypeOK
  /\ ~shutting_down =>
    /\ \A e \in Events : IsInjective(waiters[e])
    /\ \A e, f \in Events :
         Range(waiters[e]) \cap Range(waiters[f]) # {} => e = f
    /\ \A s \in Slots :
         state[s] = "waiting_local" <=> \E e \in Events : s \in Range(waiters[e])

\* No task stays parked on a set Event, so no set() is missed by a wait() that
\* came just before it.
NoWaiterWhileSet == \A e \in Events : is_set[e] => waiters[e] = << >>

Before(q, s, t) == \E i, j \in DOMAIN q : i < j /\ q[i] = s /\ q[j] = t

\* Tasks leave an Event in the order they parked on it: when one of two waiters
\* becomes ready the other does too and keeps its place.
WakesInOrder ==
  [][\A e \in Events : \A s, t \in Slots :
       Before(waiters[e], s, t) => \/ Before(waiters'[e], s, t)
                                   \/ Before(ready', s, t)]_evars

\* If every Event is set again and again, every parked task runs again.
EventWaitsEnd ==
  (\A e \in Events : []<>is_set[e]) =>
    \A s \in Slots :
      state[s] = "waiting_local" ~> state[s] = "running" \/ shutting_down
==============================================================================
