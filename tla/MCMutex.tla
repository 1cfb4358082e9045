------------------------------- MODULE MCMutex -------------------------------
(* Instance of Mutex for TLC: three streams compete for two cores.          *)
EXTENDS Mutex, TLC
================================================================================
