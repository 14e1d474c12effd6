----------------------------- MODULE MCScheduler -----------------------------
(* The scheduler alone, for TLC.                                           *)
EXTENDS Scheduler
==============================================================================
