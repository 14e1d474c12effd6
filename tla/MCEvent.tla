------------------------------- MODULE MCEvent -------------------------------
(* The scheduler with Events and the pointers of its lists, for TLC.       *)
EXTENDS SlotLists
==============================================================================
