--------------------------------- MODULE MCMmu ---------------------------------
(* Instance of Mmu for TLC: code and the start of the data share a section,  *)
(* as kern.ld places them.                                                   *)
EXTENDS Mmu
================================================================================
