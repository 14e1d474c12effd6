------------------------------- MODULE MCQueue -------------------------------
(* The scheduler with a Queue, for TLC.                                    *)
EXTENDS Queue
==============================================================================
