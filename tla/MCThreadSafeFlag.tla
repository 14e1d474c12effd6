--------------------------- MODULE MCThreadSafeFlag --------------------------
(* The scheduler with ThreadSafeFlags and poll_and_wait(), for TLC.        *)
EXTENDS ThreadSafeFlag

FlagSymmetry == Permutations(Flags) \union Permutations(Contexts)
==============================================================================
