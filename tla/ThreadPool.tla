------------------------------ MODULE ThreadPool ------------------------------
(***************************************************************************)
(* What kern/thread.c promises the rest of the trusted OS: a fixed pool of *)
(* threads, of which at most one runs at a time in the whole system.  A    *)
(* core starts a free thread for a client or resumes a suspended thread    *)
(* for the client that owns it, and stops serving it by suspending or      *)
(* finishing it.  Nothing is said about locks, stacks or registers.        *)
(***************************************************************************)
EXTENDS Integers

CONSTANTS CPU, Thread, Clnt, None

VARIABLES st,       \* st[t]: the state of thread t
          client,   \* client[t]: the client thread t works for
          core      \* core[c]: <<the thread core c runs, the client it serves>>, or None

pool == <<st, client, core>>

Init ==
    /\ st = [t \in Thread |-> "FREE"]
    /\ client \in [Thread -> Clnt]
    /\ core = [c \in CPU |-> None]

NoneActive == \A t \in Thread : st[t] # "ACTIVE"

Run(c, t, k) ==
    /\ NoneActive
    /\ core[c] = None
    /\ st' = [st EXCEPT ![t] = "ACTIVE"]
    /\ core' = [core EXCEPT ![c] = <<t, k>>]

Start(c, t, k) ==
    /\ st[t] = "FREE"
    /\ Run(c, t, k)
    /\ client' = [client EXCEPT ![t] = k]

Resume(c, t, k) ==
    /\ st[t] = "SUSPENDED"
    /\ client[t] = k
    /\ Run(c, t, k)
    /\ UNCHANGED client

Stop(c, s) ==
    /\ core[c] # None
    /\ st' = [st EXCEPT ![core[c][1]] = s]
    /\ core' = [core EXCEPT ![c] = None]
    /\ UNCHANGED client

Suspend(c) == Stop(c, "SUSPENDED")
Finish(c)  == Stop(c, "FREE")

Next == \E c \in CPU :
    \/ \E t \in Thread, k \in Clnt : Start(c, t, k) \/ Resume(c, t, k)
    \/ Suspend(c)
    \/ Finish(c)

Spec == Init /\ [][Next]_pool
================================================================================
