------------------------------ MODULE MCTeeEntry ------------------------------
(* Instance of TeeEntry for TLC.                                             *)
EXTENDS TeeEntry
================================================================================
