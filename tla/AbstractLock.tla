----------------------------- MODULE AbstractLock -----------------------------
(***************************************************************************)
(* What kern/mutex.h promises its callers: a lock owned by at most one     *)
(* agent at a time.  mutex_lock() returns only as the owner; mutex_trylock()*)
(* returns as the owner or gives up, and it may give up even though the    *)
(* lock is free (the store of the exclusive pair is allowed to fail).      *)
(***************************************************************************)
CONSTANT Agent

VARIABLE phase    \* phase[a]: where agent a stands with respect to the lock

Phase == {"idle", "wait", "try", "own"}

Free == \A a \in Agent : phase[a] # "own"

Goto(a, from, to) ==
    /\ phase[a] = from
    /\ phase' = [phase EXCEPT ![a] = to]

Init == phase = [a \in Agent |-> "idle"]

Request(a)  == Goto(a, "idle", "wait")
TryStart(a) == Goto(a, "idle", "try")
Acquire(a)  == Free /\ (Goto(a, "wait", "own") \/ Goto(a, "try", "own"))
TryFail(a)  == Goto(a, "try", "idle")
Release(a)  == Goto(a, "own", "idle")

Next == \E a \in Agent :
            Request(a) \/ TryStart(a) \/ Acquire(a) \/ TryFail(a) \/ Release(a)

Spec == Init /\ [][Next]_phase

\* At most one agent owns the lock (what every caller of kern/mutex.h relies on).
OneOwner == \A a, b \in Agent : phase[a] = "own" /\ phase[b] = "own" => a = b
================================================================================
