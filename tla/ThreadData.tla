------------------------------ MODULE ThreadData ------------------------------
(***************************************************************************)
(* Thread specific data, thread_set_tsd() and thread_get_tsd() of          *)
(* kern/thread.c, on top of the pool of threads the rest of that file      *)
(* implements (ThreadPool).  A thread sets its data on one core and asks   *)
(* for it on another, after any number of suspensions.                     *)
(***************************************************************************)
EXTENDS ThreadPool

CONSTANTS Data,     \* pointers to what a thread allocates for itself
          NULL

ASSUME ThreadDataAssumption == NULL \notin Data

VARIABLES tsd,      \* tsd of threads[t]
          tsd_free, \* threads[t] has a tsd_free
          mine      \* history: what the call in thread t has set last

dataVars == <<pool, tsd, tsd_free, mine>>

DataInit ==
  /\ Init
  /\ tsd = [t \in Thread |-> NULL]
  /\ tsd_free = [t \in Thread |-> FALSE]
  /\ mine = [t \in Thread |-> NULL]

(* The assertions say that the core runs an active thread.                 *)
SetTsd(c, p) ==
  /\ core[c] # None /\ \A t \in Thread : tsd[t] # p
  /\ tsd' = [tsd EXCEPT ![core[c][1]] = p]
  /\ tsd_free' = [tsd_free EXCEPT ![core[c][1]] = TRUE]
  /\ mine' = [mine EXCEPT ![core[c][1]] = p]
  /\ UNCHANGED pool

(* Mutant: the state of the thread decides alone.                          *)
GetTsd_AnyActive(c) ==
  IF NoneActive THEN NULL ELSE tsd[CHOOSE t \in Thread : st[t] = "ACTIVE"]

GetTsd(c) ==
  IF core[c] = None \/ st[core[c][1]] # "ACTIVE" THEN NULL ELSE tsd[core[c][1]]

(* thread_alloc_and_run(): the slot's data is left as it is.               *)
StartCall(c, t, k) ==
  /\ Start(c, t, k)
  /\ mine' = [mine EXCEPT ![t] = NULL]
  /\ UNCHANGED <<tsd, tsd_free>>

(* thread_state_free(): likewise.                                          *)
FinishCall(c) ==
  /\ Finish(c)
  /\ UNCHANGED <<tsd, tsd_free, mine>>

(* thread_state_suspend() and thread_resume_from_rpc() do not look at it.  *)
SuspendCall(c) ==
  /\ Suspend(c)
  /\ UNCHANGED <<tsd, tsd_free, mine>>

ResumeCall(c, t, k) ==
  /\ Resume(c, t, k)
  /\ UNCHANGED <<tsd, tsd_free, mine>>

DataNext == \E c \in CPU :
  \/ \E p \in Data : SetTsd(c, p)
  \/ \E t \in Thread, k \in Clnt : StartCall(c, t, k) \/ ResumeCall(c, t, k)
  \/ FinishCall(c)
  \/ SuspendCall(c)

DataSpec == DataInit /\ [][DataNext]_dataVars

(* Types; the data has its function.                                       *)
DataTypeOK ==
  /\ tsd \in [Thread -> Data \cup {NULL}]
  /\ mine \in [Thread -> Data \cup {NULL}]
  /\ \A t \in Thread : tsd_free[t] <=> tsd[t] # NULL

(* A thread that has set its data gets it back on whatever core it is, and *)
(* code outside a thread gets none, not even while another core runs one.  *)
DataFollowsThread == \A c \in CPU :
  IF core[c] = None THEN GetTsd(c) = NULL
  ELSE mine[core[c][1]] # NULL => GetTsd(c) = mine[core[c][1]]
================================================================================
