--------------------------------- MODULE MCSmc ---------------------------------
(* Instance of Smc for TLC; cores, callers and pointers are interchangeable. *)
EXTENDS Smc, TLC

Symmetry == Permutations(CPU) \cup Permutations(Caller) \cup Permutations(Data)
================================================================================
