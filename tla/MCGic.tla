--------------------------------- MODULE MCGic ---------------------------------
(* Instance of Gic for TLC: two interrupts that nobody but the non-secure    *)
(* world uses, and the driver's two, which share a word of every register.   *)
EXTENDS Gic
================================================================================
