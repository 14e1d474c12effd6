------------------------------- MODULE Channel --------------------------------
(***************************************************************************)
(* What a Queue promises (src/src/simpleawait/queue.h): every value that   *)
(* is sent leaves in the order of sending, once, until the Queue is        *)
(* destroyed.  Neither the ring buffer nor the waiting tasks are visible   *)
(* here.  The bits flip with every value sent and with every value         *)
(* delivered, so that a send that stores nothing, or a delivery of the     *)
(* value that was delivered last, is a step like any other.                *)
(***************************************************************************)
EXTENDS Integers, Sequences

CONSTANTS Values, Capacity, NoValue

VARIABLES
  chan,     \* values sent and not yet delivered, oldest first
  last,     \* the value delivered last
  sent,     \* flips with every value sent
  received, \* flips with every value delivered
  stage     \* "open", "abandoned" once waiting senders may be destroyed, "closed"

chanVars == <<chan, last, sent, received, stage>>

Init ==
  /\ chan = << >>
  /\ last = NoValue
  /\ sent = FALSE
  /\ received = FALSE
  /\ stage = "open"

\* A value is sent: buffered, or kept by a sender that waits for room.
Put(v) ==
  /\ stage # "closed"
  /\ chan' = Append(chan, v)
  /\ sent' = ~sent
  /\ UNCHANGED <<last, received, stage>>

\* The oldest value is delivered.
Take ==
  /\ stage # "closed"
  /\ chan # << >>
  /\ last' = Head(chan)
  /\ received' = ~received
  /\ chan' = Tail(chan)
  /\ UNCHANGED <<sent, stage>>

\* A value is sent to a receiver that waits for one.
HandOff(v) ==
  /\ stage # "closed"
  /\ chan = << >>
  /\ last' = v
  /\ sent' = ~sent
  /\ received' = ~received
  /\ UNCHANGED <<chan, stage>>

\* The scheduler starts to destroy the waiting tasks.
Abandon ==
  /\ stage = "open"
  /\ stage' = "abandoned"
  /\ UNCHANGED <<chan, last, sent, received>>

\* A sender that waits for room is destroyed with its value.
Withdraw ==
  /\ stage = "abandoned"
  /\ \E i \in (Capacity + 1)..Len(chan) :
       chan' = SubSeq(chan, 1, i - 1) \o SubSeq(chan, i + 1, Len(chan))
  /\ UNCHANGED <<last, sent, received, stage>>

\* The channel is destroyed with its values, once.
Close ==
  /\ stage # "closed"
  /\ stage' = "closed"
  /\ chan' = << >>
  /\ UNCHANGED <<last, sent, received>>

Next ==
  \/ \E v \in Values : Put(v) \/ HandOff(v)
  \/ Take
  \/ Abandon
  \/ Withdraw
  \/ Close

Spec == Init /\ [][Next]_chanVars
==============================================================================
