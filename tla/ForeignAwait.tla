---------------------------- MODULE ForeignAwait -----------------------------
(***************************************************************************)
(* A foreign coroutine that the running task starts, and that awaits       *)
(* yield() or delay() of this library.  wait_on(), running_is() and        *)
(* start_child_await() compare the awaiting handle with current_ and       *)
(* reject it; yield_current() and arm_current_timer() do not look at it,   *)
(* so they act on the running task, which goes on running.                 *)
(***************************************************************************)
EXTENDS Scheduler

\* The foreign coroutine suspends and control returns to the running task.
ForeignYield ==
  /\ current # NoSlot
  /\ Requeue
  /\ error' = "none"
  /\ UNCHANGED <<generation, handle, parent, deadline_us, active_count, current,
                 phase, dying, budget, timeVars, agenda>>

ForeignDelay(d) ==
  /\ current # NoSlot
  /\ d # 0
  /\ ~add_overflows(d)
  /\ ArmTimer(d)
  /\ error' = "none"
  /\ UNCHANGED <<generation, handle, parent, ready, active_count, current, phase,
                 dying, budget, now, clock, agenda>>

\* The running task itself suspends, in the state the foreign await gave it.
SuspendAsIs ==
  /\ Suspends
  /\ state[current] # "running"
  /\ error' = "none"
  /\ UNCHANGED <<slotVars, ready, active_count, timeVars>>

ForeignNext ==
  \/ Next
  \/ ForeignYield
  \/ \E d \in Durations : ForeignDelay(d)
  \/ SuspendAsIs

ForeignSpec == Init /\ [][ForeignNext]_vars

\* A task is never both ready and waiting: whatever stands in the ready FIFO is a
\* ready task, and stands there once.
ReadyOrWaiting ==
  ~shutting_down =>
    /\ IsInjective(ready)
    /\ \A s \in Range(ready) : state[s] = "ready"
==============================================================================
