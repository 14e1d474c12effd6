-------------------------------- MODULE Task ---------------------------------
(***************************************************************************)
(* Ownership of coroutine frames (src/src/simpleawait/task.h), composed    *)
(* with the frame pool: Task<void> objects, the Task parameters inside     *)
(* frames, TaskAwaiter, the hand-over to the scheduler, and destruction.   *)
(*                                                                         *)
(* A frame is known by its address, which the pool reuses.  Destroying a   *)
(* frame runs the destructors of its parameters before its memory is freed;*)
(* those are user code, so every operation may also happen inside them.    *)
(***************************************************************************)
EXTENDS FramePool, Sequences

CONSTANTS
  Vars,     \* the Task objects of the program that are not inside a frame
  Awaiters, \* its TaskAwaiter objects
  NoVar     \* no argument

ASSUME TaskAssumption == NoVar \notin Vars

VARIABLES
  task,     \* Task::handle_ of each Task object
  param,    \* Task::handle_ of the by-value Task parameter inside each frame
  awaiter,  \* child_ and was_empty_ of each TaskAwaiter
  adopted,  \* frames that scheduler slots point to
  dying,    \* frames inside destroy(), the innermost last
  error     \* what the latest call reported to the error hook

tvars == <<poolVars, task, param, awaiter, adopted, dying, error>>

Pointers == 0..kUsable

\* No awaiter, or one that was moved from or awaited: its destructor does nothing.
Absent == [child |-> Null, was_empty |-> FALSE]

TaskInit ==
  /\ PoolInit
  /\ task = [v \in Vars |-> Null]
  /\ param = [p \in Pointers |-> Null]
  /\ awaiter = [a \in Awaiters |-> Absent]
  /\ adopted = {}
  /\ dying = << >>
  /\ error = "none"

\* f.destroy() starts, if f is not null.
Destroy(f) == dying' = IF f = Null THEN dying ELSE Append(dying, f)

-----------------------------------------------------------------------------

\* v = coroutine(std::move(u)), or coroutine() when u is NoVar: the argument
\* moves into the new frame.  When the pool refuses, the empty Task is returned
\* and the argument is destroyed.
Call(v, u, size) ==
  LET arg == IF u = NoVar THEN Null ELSE task[u] IN
  /\ task[v] = Null \/ u = v
  /\ \E p \in Pointers \union {Null} :
       /\ allocate(p, size, kAlign)
       /\ task' = [w \in Vars |-> IF w = v THEN p ELSE IF w = u THEN Null ELSE task[w]]
       /\ \/ /\ p # Null
             /\ param' = [param EXCEPT ![p] = arg]
             /\ error' = "none"
             /\ UNCHANGED dying
          \/ /\ p = Null
             /\ Destroy(arg)
             /\ error' = "frame_pool_exhausted"
             /\ UNCHANGED param
  /\ UNCHANGED <<awaiter, adopted>>

\* v = std::move(u): the source is emptied before the previous frame is destroyed.
MoveAssign(v, u) ==
  /\ u # v
  /\ task' = [task EXCEPT ![v] = task[u], ![u] = Null]
  /\ Destroy(task[v])
  /\ error' = "none"
  /\ UNCHANGED <<poolVars, param, awaiter, adopted>>

\* v = std::move(parameter of frame f), a frame v may own or one that is being
\* destroyed, whose parameter is still there.
MoveFromParam_mut(v, f) ==
  /\ param[f] # Null
  /\ task' = [task EXCEPT ![v] = param[f]]
  /\ Destroy(task[v])
  /\ UNCHANGED <<poolVars, param, awaiter, adopted, error>>
MoveFromParam(v, f) ==
  /\ param[f] # Null
  /\ task' = [task EXCEPT ![v] = param[f]]
  /\ param' = [param EXCEPT ![f] = Null]
  /\ Destroy(task[v])
  /\ error' = "none"
  /\ UNCHANGED <<poolVars, awaiter, adopted>>

\* ~Task() or assignment of an empty Task: detach, then destroy.
reset(v) ==
  /\ task[v] # Null
  /\ task' = [task EXCEPT ![v] = Null]
  /\ Destroy(task[v])
  /\ error' = "none"
  /\ UNCHANGED <<poolVars, param, awaiter, adopted>>

\* create_task() or spawn() of v: take_frame() once a slot is known, so that a
\* refusal leaves the Task with its caller.
Schedule(v) ==
  /\ \/ /\ task[v] # Null
        /\ adopted' = adopted \union {task[v]}
        /\ task' = [task EXCEPT ![v] = Null]
        /\ error' = "none"
     \/ /\ error' = IF task[v] = Null THEN "invalid_task" ELSE "task_limit"
        /\ UNCHANGED <<adopted, task>>
  /\ UNCHANGED <<poolVars, param, awaiter, dying>>

-----------------------------------------------------------------------------

\* operator co_await of v creates the awaiter a.
CoAwait(v, a) ==
  /\ awaiter[a] = Absent
  /\ awaiter' = [awaiter EXCEPT ![a] = [child |-> task[v], was_empty |-> task[v] = Null]]
  /\ task' = [task EXCEPT ![v] = Null]
  /\ error' = "none"
  /\ UNCHANGED <<poolVars, param, adopted, dying>>

\* The awaiter b is move-constructed from a.
MoveAwaiter(a, b) ==
  /\ awaiter[b] = Absent
  /\ awaiter[a] # Absent
  /\ awaiter' = [awaiter EXCEPT ![b] = awaiter[a], ![a].child = Null]
  /\ error' = "none"
  /\ UNCHANGED <<poolVars, task, param, adopted, dying>>

\* await_ready() and await_resume() of an awaiter of an empty Task.
AwaitEmpty(a) ==
  /\ awaiter[a].was_empty
  /\ error' = "task_awaited_twice"
  /\ UNCHANGED <<poolVars, task, param, awaiter, adopted, dying>>

\* await_suspend(): start_child() adopts the child, or reports why not and
\* destroys it.
AwaitSuspend(a) ==
  /\ awaiter[a].child # Null
  /\ awaiter' = [awaiter EXCEPT ![a] = Absent]
  /\ \/ /\ adopted' = adopted \union {awaiter[a].child}
        /\ error' = "none"
        /\ UNCHANGED dying
     \/ /\ Destroy(awaiter[a].child)
        /\ error' \in {"invalid_task", "task_limit"}
        /\ UNCHANGED adopted
  /\ UNCHANGED <<poolVars, task, param>>

\* ~TaskAwaiter()
DropAwaiter(a) ==
  /\ awaiter[a] # Absent
  /\ awaiter' = [awaiter EXCEPT ![a] = Absent]
  /\ Destroy(awaiter[a].child)
  /\ error' = "none"
  /\ UNCHANGED <<poolVars, task, param, adopted>>

-----------------------------------------------------------------------------

\* The frames of slots that are not inside destroy().
Held == {f \in adopted : \A i \in DOMAIN dying : dying[i] # f}

\* The scheduler destroys the frame of a slot.  ~Scheduler() empties the slot first;
\* run_pass() empties it once the frame of the finished task is destroyed.  poll()
\* may have been called from a destructor.
Retire(f) ==
  /\ f \in Held
  /\ Destroy(f)
  /\ adopted' = adopted \ {f} \/ UNCHANGED adopted
  /\ error' = "none"
  /\ UNCHANGED <<poolVars, task, param, awaiter>>

Innermost == dying[Len(dying)]

\* destroy() runs ~Task() of the frame's parameter.
DestroyParam ==
  /\ dying # << >>
  /\ param[Innermost] # Null
  /\ param' = [param EXCEPT ![Innermost] = Null]
  /\ Destroy(param[Innermost])
  /\ error' = "none"
  /\ UNCHANGED <<poolVars, task, awaiter, adopted>>

\* Then operator delete returns the frame to the pool, and run_pass() empties the
\* slot of a task that finished.
FreeFrame ==
  /\ dying # << >>
  /\ param[Innermost] = Null
  /\ deallocate(Innermost)
  /\ error' = "none"
  /\ dying' = SubSeq(dying, 1, Len(dying) - 1)
  /\ adopted' = adopted \ {Innermost}
  /\ UNCHANGED <<task, param, awaiter>>

TaskNext ==
  \/ \E v \in Vars :
       \/ \E u \in Vars \union {NoVar}, size \in Sizes : Call(v, u, size)
       \/ \E u \in Vars : MoveAssign(v, u)
       \/ \E f \in Pointers : MoveFromParam(v, f)
       \/ reset(v)
       \/ Schedule(v)
       \/ \E a \in Awaiters : CoAwait(v, a)
  \/ \E a \in Awaiters :
       \/ \E b \in Awaiters : MoveAwaiter(a, b)
       \/ AwaitEmpty(a)
       \/ AwaitSuspend(a)
       \/ DropAwaiter(a)
  \/ \E f \in Pointers : Retire(f)
  \/ DestroyParam
  \/ FreeFrame

TaskSpec == TaskInit /\ [][TaskNext]_tvars

-----------------------------------------------------------------------------
(* Properties.                                                             *)

\* Who may destroy f, or is destroying it.
Owners(f) ==
  {<<"task", v>> : v \in {v \in Vars : task[v] = f}}
  \union {<<"param", p>> : p \in {p \in Pointers : param[p] = f}}
  \union {<<"awaiter", a>> : a \in {a \in Awaiters : awaiter[a].child = f}}
  \union {<<"slot", p>> : p \in Held \intersect {f}}
  \union {<<"destroy", i>> : i \in {i \in DOMAIN dying : dying[i] = f}}

\* Ownership is a single token: through moves, awaits, scheduling, refusals and
\* destructors that re-enter the library, every allocated frame has exactly one
\* owner and nobody holds the address of a freed one; so no frame leaks, is
\* destroyed twice or is used after it was destroyed.
SingleOwner ==
  \A f \in Pointers :
    Cardinality(Owners(f)) = IF f \in LivePointers(blocks) THEN 1 ELSE 0

\* Once nobody holds a frame the whole arena is one free block again, whatever
\* the order in which frames were freed.
PoolRecovered ==
  (\A f \in Pointers : Owners(f) = {}) =>
    blocks = [o \in {0} |-> FreeBlock(kUsable)] /\ bytesUsed = 0
==============================================================================
