------------------------------ MODULE MCThreads ------------------------------
(* Instance of Threads for TLC.                                              *)
EXTENDS Threads, TLC

CoreSymmetry == Permutations(CPU)
================================================================================
