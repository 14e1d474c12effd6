-------------------------------- MODULE MCTask -------------------------------
(* Instance of Task and FramePool for TLC. *)
EXTENDS Task, TLC

\* The program's Task objects are interchangeable, and so are its awaiters.
Symmetry == Permutations(Vars) \union Permutations(Awaiters)
==============================================================================
