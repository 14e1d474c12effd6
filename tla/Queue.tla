-------------------------------- MODULE Queue ---------------------------------
(***************************************************************************)
(* Queue (src/src/simpleawait/queue.h) composed with the scheduler: a ring *)
(* buffer, FIFOs of parked senders and receivers whose nodes live on the   *)
(* coroutine frames, and direct hand-off.  The Queue belongs to user code, *)
(* so any user code may use or destroy it, the destructors that            *)
(* ~Scheduler() runs included.                                             *)
(***************************************************************************)
EXTENDS Scheduler, SequencesExt

CONSTANTS
  Capacity,   \* template parameter of Queue
  Values,     \* the payloads
  NoValue     \* raw storage that holds no payload

ASSUME QueueAssumption == Capacity \in Nat \ {0} /\ NoValue \notin Values

VARIABLES
  cells,      \* cells_
  head,       \* head_
  count,      \* count_
  senders,    \* send_head_ .. send_tail_: the slot and the value of each node
  receivers,  \* recv_head_ .. recv_tail_: the slot of each node
  receiving,  \* slots whose frame holds a ReceiveAwaiter
  result,     \* its result_storage_, NoValue unless has_result_
  exists,     \* the Queue has not been destroyed
  last,       \* history: the value delivered last
  sent,       \* history: a bit that flips with every value sent
  received    \* history: a bit that flips with every value delivered

ring == <<cells, head, count>>
history == <<last, sent, received>>
queueVars == <<ring, senders, receivers, receiving, result, exists, history>>
qvars == <<vars, queueVars>>

Cells == 0..(Capacity - 1)

QueueInit ==
  /\ Init
  /\ cells = [i \in Cells |-> NoValue]
  /\ head = 0
  /\ count = 0
  /\ senders = << >>
  /\ receivers = << >>
  /\ receiving = {}
  /\ result = [s \in Slots |-> NoValue]
  /\ exists = TRUE
  /\ last = NoValue
  /\ sent = FALSE
  /\ received = FALSE

\* The value v is delivered.
Delivered(v) == last' = v /\ received' = ~received

-----------------------------------------------------------------------------
(* The ring buffer.                                                        *)

next_index(i) == IF i + 1 = Capacity THEN 0 ELSE i + 1

\* tail_index() of a ring with head h and n payloads.
tail_index_mut(h, n) == h
tail_index(h, n) == IF h + n >= Capacity THEN h + n - Capacity ELSE h + n

store_back(v) ==
  /\ cells' = [cells EXCEPT ![tail_index(head, count)] = v]
  /\ count' = count + 1
  /\ UNCHANGED head

\* admit_oldest_sender() buffers the oldest parked sender's value in the popped ring.
AdmitValue_mut(popped) == popped
AdmitValue(popped) ==
  [popped EXCEPT ![tail_index(next_index(head), count - 1)] = Head(senders).value]

\* pop_front_storage(), then admit_oldest_sender(), which queues that sender.
pop_and_admit_mut ==
  /\ head' = next_index(head)
  /\ cells' = [cells EXCEPT ![head] = NoValue]
  /\ count' = count - 1
  /\ UNCHANGED <<senders, state, ready>>
pop_and_admit ==
  LET popped == [cells EXCEPT ![head] = NoValue] IN
  /\ head' = next_index(head)
  /\ \/ /\ senders = << >>
        /\ cells' = popped
        /\ count' = count - 1
        /\ UNCHANGED <<senders, state, ready>>
     \/ /\ senders # << >>
        /\ cells' = AdmitValue(popped)
        /\ UNCHANGED count
        /\ senders' = Tail(senders)
        /\ wake_all(<<Head(senders).slot>>)

-----------------------------------------------------------------------------
(* Operations that do not suspend: trySend(), tryReceive(), and send() and *)
(* receive() when await_ready() returns true.                              *)

\* The value is constructed in the result storage of the parked receiver s.
Deliver_mut(s, v) == UNCHANGED result
Deliver(s, v) == result' = [result EXCEPT ![s] = v]

\* do_send(v) to the oldest parked receiver, or into the ring.
HandToReceiver(v) ==
  /\ receivers # << >>
  /\ receivers' = Tail(receivers)
  /\ Deliver(Head(receivers), v)
  /\ wake_all(<<Head(receivers)>>)
  /\ Delivered(v)
  /\ UNCHANGED ring

do_send_mut(v) ==
  \/ HandToReceiver(v)
  \/ /\ count < Capacity
     /\ store_back(v)
     /\ UNCHANGED <<receivers, result, state, ready, last, received>>
do_send(v) ==
  \/ HandToReceiver(v)
  \/ /\ receivers = << >>
     /\ count < Capacity
     /\ store_back(v)
     /\ UNCHANGED <<receivers, result, state, ready, last, received>>

QueueSend(v) ==
  /\ exists
  /\ UserCode
  /\ do_send(v)
  /\ sent' = ~sent
  /\ error' = "none"
  /\ UNCHANGED <<sleepVars, senders, receiving, exists>>

QueueReceive ==
  /\ exists
  /\ UserCode
  /\ count # 0
  /\ Delivered(cells[head])
  /\ pop_and_admit
  /\ error' = "none"
  /\ UNCHANGED <<sleepVars, receivers, receiving, result, exists, sent>>

\* trySend() of a full Queue and tryReceive() from an empty one return false.
QueueRefuses ==
  /\ exists
  /\ UserCode
  /\ (receivers = << >> /\ count = Capacity) \/ count = 0
  /\ error' = "none"
  /\ UNCHANGED <<restVars, queueVars>>

-----------------------------------------------------------------------------
(* co_await send() and receive() that suspend.                             *)

QueueSendParks(v) ==
  /\ exists
  /\ receivers = << >>
  /\ count = Capacity
  /\ Park
  /\ senders' = Append(senders, [slot |-> current, value |-> v])
  /\ sent' = ~sent
  /\ UNCHANGED <<ring, receivers, receiving, result, exists, last, received>>

QueueReceiveParks ==
  /\ exists
  /\ count = 0
  /\ Park
  /\ receivers' = Append(receivers, current)
  /\ receiving' = receiving \union {current}
  /\ UNCHANGED <<ring, senders, result, exists, history>>

\* ~Queue(), also of a Queue that outlives the scheduler: parked nodes are told
\* that they are no longer linked, and buffered payloads are destroyed.
QueueDestroy ==
  /\ exists
  /\ UserCode \/ phase = "gone"
  /\ exists' = FALSE
  /\ senders' = << >>
  /\ receivers' = << >>
  /\ cells' = [i \in Cells |-> NoValue]
  /\ head' = tail_index(head, count)
  /\ count' = 0
  /\ error' = IF senders = << >> /\ receivers = << >> THEN "none"
              ELSE "object_destroyed_with_waiters"
  /\ UNCHANGED <<restVars, receiving, result, history>>

\* The awaiter of slot s takes its node out of a wait list, if it is linked there.
unlink_sender(s) ==
  \/ (\A i \in DOMAIN senders : senders[i].slot # s) /\ UNCHANGED senders
  \/ \E i \in DOMAIN senders : senders[i].slot = s /\ senders' = RemoveAt(senders, i)

unlink_receiver(s) ==
  \/ (\A i \in DOMAIN receivers : receivers[i] # s) /\ UNCHANGED receivers
  \/ \E i \in DOMAIN receivers : receivers[i] = s /\ receivers' = RemoveAt(receivers, i)

\* The awaiters on the frame of s are destroyed: a node that is still linked is
\* unlinked, and a result nobody took is destroyed.
DropAwaiters_mut(s) ==
  /\ receiving' = receiving \ {s}
  /\ result' = [t \in Slots |-> IF t = s THEN NoValue ELSE result[t]]
  /\ UNCHANGED <<senders, receivers>>
DropAwaiters(s) ==
  /\ unlink_sender(s)
  /\ unlink_receiver(s)
  /\ receiving' = receiving \ {s}
  /\ result' = [t \in Slots |-> IF t = s THEN NoValue ELSE result[t]]

\* A step of the scheduler alone.  A resumed task leaves its await with its
\* result; a frame that is destroyed takes its awaiters along before any other
\* destructor runs.
QueueSchedulerStep ==
  /\ Next
  /\ DropAwaiters(IF current' # NoSlot THEN current' ELSE dying')
  /\ UNCHANGED <<ring, exists, history>>

-----------------------------------------------------------------------------

QueueSuspends == QueueReceiveParks \/ \E v \in Values : QueueSendParks(v)

QueueNext ==
  \/ QueueSchedulerStep
  \/ QueueSuspends
  \/ \E v \in Values : QueueSend(v)
  \/ QueueReceive
  \/ QueueRefuses
  \/ QueueDestroy

QueueSpec == QueueInit /\ [][QueueNext]_qvars

\* As for the scheduler; parking on the Queue is one more way to suspend.
QueueFairness ==
  /\ WF_qvars(QueueSchedulerStep /\ NoExternalSignals)
  /\ WF_qvars(QueueSchedulerStep /\ Poll)
  /\ WF_qvars((QueueSchedulerStep /\ TaskSuspends) \/ QueueSuspends)
  /\ WF_qvars(QueueSchedulerStep /\ Teardown)

QueueFairSpec == QueueSpec /\ QueueFairness

-----------------------------------------------------------------------------

Parked == {senders[i].slot : i \in DOMAIN senders} \union Range(receivers)

\* The ring, the wait lists and the results keep their types; head_ never leaves
\* the array.
QueueTypeOK ==
  /\ cells \in [Cells -> Values \union {NoValue}]
  /\ head \in Cells
  /\ count \in 0..Capacity
  /\ senders \in Seq([slot : Slots, value : Values])
  /\ receivers \in Seq(Slots)
  /\ receiving \subseteq Slots
  /\ result \in [Slots -> Values \union {NoValue}]
  /\ exists \in BOOLEAN
  /\ last \in Values \union {NoValue}
  /\ sent \in BOOLEAN
  /\ received \in BOOLEAN

\* The state is well-typed and payloads live exactly in the count_ cells from head_
\* on: store_back() never constructs over a live payload and pop_front_storage()
\* never destroys raw storage.
CellsExact ==
  /\ QueueTypeOK
  /\ exists => \A i \in Cells : cells[i] # NoValue <=> (i - head) % Capacity < count

\* Nobody waits for what is there: receivers are parked only while the Queue is
\* empty, senders only while it is full, whatever trySend(), tryReceive() and
\* frame destruction do in between.
NoNeedlessWait ==
  /\ receivers # << >> => count = 0
  /\ senders # << >> => count = Capacity

\* A parked task stands once in one of the wait lists and every task there is
\* parked (only the destruction of the Queue strands tasks), also while
\* ~Scheduler() destroys their frames: no list holds a dead node.
ParkedExact ==
  exists =>
    /\ Cardinality(Parked) = Len(senders) + Len(receivers)
    /\ Parked = {s \in Slots : state[s] = "waiting_local"}

\* A suspended receive() has its value exactly when its task has been made ready,
\* so await_resume() always finds one and no value is written twice.
ReceiverHasValue ==
  \A s \in Slots :
    /\ s \in receiving => (result[s] # NoValue <=> state[s] = "ready")
    /\ result[s] # NoValue => s \in receiving

\* The values sent and not delivered: the ring, then what parked senders hold.
Contents ==
  [i \in 1..count |-> cells[(head + i - 1) % Capacity]] \o
  [i \in 1..Len(senders) |-> senders[i].value]

\* What has become of the channel: ~Queue() closes it, ~Scheduler() destroys the
\* tasks that wait for it.
Stage ==
  IF ~exists THEN "closed" ELSE IF shutting_down THEN "abandoned" ELSE "open"

AbstractChannel == INSTANCE Channel WITH chan <- Contents, stage <- Stage

\* The Queue implements the FIFO channel: until ~Queue() every value sent is
\* delivered in the order of sending and once, through hand-off, buffer and parked
\* senders alike; none is dropped, but for what a sender holds that ~Scheduler()
\* destroys while it is parked.
ImplementsChannel == AbstractChannel!Spec

\* Parked senders run again if values keep being received, parked receivers if
\* values keep being sent.
QueueWaitsEnd ==
  \A s \in Slots :
    /\ []<><<QueueReceive>>_qvars =>
         ((\E i \in DOMAIN senders : senders[i].slot = s) ~>
            state[s] = "running" \/ shutting_down)
    /\ []<><<\E v \in Values : QueueSend(v)>>_qvars =>
         (s \in Range(receivers) ~> state[s] = "running" \/ shutting_down)
==============================================================================
