--------------------------- MODULE TombstoneOrder ----------------------------
(***************************************************************************)
(* Which completed slot acquire_slot() reuses.  The scheduler with a       *)
(* history of the order in which its tombstones were left.                 *)
(***************************************************************************)
EXTENDS Scheduler

VARIABLE tombstones   \* history: completed slots, oldest first

tvars == <<vars, tombstones>>

OrderInit == Init /\ tombstones = << >>

\* tombstones' drops the slots that are reused and adds those that complete.
RecordOrder ==
  LET kept == SelectSeq(tombstones, LAMBDA s : state'[s] = "completed") IN
  \/ \E s \in Slots : /\ state'[s] = "completed"
                      /\ state[s] # "completed"
                      /\ tombstones' = Append(kept, s)
  \/ /\ \A s \in Slots : state'[s] = "completed" => state[s] = "completed"
     /\ tombstones' = kept

OrderSpec == OrderInit /\ [][Next /\ RecordOrder]_tvars

Reused(s) == state[s] = "completed" /\ generation'[s] # generation[s]

\* acquire_slot() reuses the oldest tombstone whose generations are not used up.
OldestReused ==
  [][\A s \in Slots : Reused(s) =>
       \A i, j \in DOMAIN tombstones :
         /\ tombstones[j] = s
         /\ generation[tombstones[i]] # MaxGeneration
         => j <= i]_tvars
==============================================================================
