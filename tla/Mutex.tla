-------------------------------- MODULE Mutex --------------------------------
(***************************************************************************)
(* kern/mutex.c and kern/mutex_asm.S, one memory access per step.          *)
(*                                                                         *)
(* An agent is an instruction stream (a trusted thread, or the code a core *)
(* runs for the non-secure world); on[a] is the core executing it.  mon is *)
(* the set of cores whose exclusive monitor holds a reservation on the     *)
(* mutex word, as LDREX sets it and STREX, CLREX and a store by another    *)
(* core clear it.  An agent can lose its core only through the secure      *)
(* monitor (sm_asm.S), which clears the core's reservation on every entry. *)
(* The memory order the two DMBs establish is not modelled: every step is  *)
(* atomic and seen by all cores.                                           *)
(***************************************************************************)
EXTENDS Naturals

CONSTANTS CPU,      \* cores
          Agent,    \* instruction streams using the mutex
          Nowhere   \* not a core: the place of a descheduled agent

ASSUME NowhereAssumption == Nowhere \notin CPU

VARIABLES state,    \* the mutex word
          mon,      \* cores holding an exclusive reservation on it
          pc,       \* pc[a]: the next memory access of agent a
          on        \* on[a]: the core agent a runs on

vars == <<state, mon, pc, on>>

LockPc    == {"lock", "lock_strex"}
TryPc     == {"try", "try_strex"}
StrexPc   == {"lock_strex", "try_strex"}
HolderPc  == {"held", "unlock"}
Running(a)    == on[a] # Nowhere
Idle(c)       == \A a \in Agent : on[a] # c

Init ==
    /\ state = "unlocked"                       \* MUTEX_INITIALIZER
    /\ mon = {}
    /\ pc = [a \in Agent |-> "idle"]
    /\ on = [a \in Agent |-> Nowhere]

Goto(a, from, to) ==
    /\ Running(a)
    /\ pc[a] = from
    /\ pc' = [pc EXCEPT ![a] = to]

--------------------------------------------------------------------------------
(* mutex_lock(), mutex_trylock(), mutex_unlock(): entry.                     *)
CallLock(a)    == Goto(a, "idle", "lock") /\ UNCHANGED <<state, mon, on>>
CallTrylock(a) == Goto(a, "idle", "try")  /\ UNCHANGED <<state, mon, on>>

(* mutex_unlock() asserts that the word is locked before it stores.           *)
CallUnlock(a) ==
    /\ Goto(a, "held", IF state = "locked" THEN "unlock" ELSE "assert")
    /\ UNCHANGED <<state, mon, on>>

(* ldrex; cmp; beq.  The reservation is taken whatever the value read is.     *)
Ldrex(a, from, locked, unlocked) ==
    /\ Goto(a, from, IF state = "locked" THEN locked ELSE unlocked)
    /\ mon' = mon \cup {on[a]}
    /\ UNCHANGED <<state, on>>

LdrexTry_NoBranch(a) ==                 \* variant: a locked word is not refused
    Ldrex(a, "try", "held", "try_strex")

LdrexLock(a) == Ldrex(a, "lock", "lock", "lock_strex")
LdrexTry(a)  == Ldrex(a, "try", "idle", "try_strex")

(* strexne; cmpne; beq.  It stores only under a reservation of its own core,  *)
(* and its store takes every core's reservation away.                         *)
Reserved(a) == on[a] \in mon

StrexOk(a, from) ==
    /\ Goto(a, from, "held")
    /\ Reserved(a)
    /\ state' = "locked"
    /\ mon' = {}
    /\ UNCHANGED on

StrexFail(a, from, to) ==
    /\ Goto(a, from, to)
    /\ ~Reserved(a)
    /\ UNCHANGED <<state, mon, on>>

StrexLock_NoReload(a) ==                \* variant: the retry skips the LDREX
    StrexOk(a, "lock_strex") \/ StrexFail(a, "lock_strex", "lock_strex")

StrexLock(a) == StrexOk(a, "lock_strex") \/ StrexFail(a, "lock_strex", "lock")
StrexTry(a)  == StrexOk(a, "try_strex")  \/ StrexFail(a, "try_strex", "idle")

(* The unlocking store ends the other cores' reservations; whether it also    *)
(* ends one of its own core is left to the implementation by the architecture.*)
Str(a) ==
    /\ Goto(a, "unlock", "idle")
    /\ state' = "unlocked"
    /\ mon' \in {{}, mon \cap {on[a]}}
    /\ UNCHANGED on

(* sm_smc_entry, in either direction: CLREX, and another stream on the core.  *)
Clrex_Forgotten(c) == mon               \* variant: no CLREX in the monitor

Clrex(c) == mon \ {c}

Preempt(a) ==
    /\ Running(a)
    /\ on' = [on EXCEPT ![a] = Nowhere]
    /\ mon' = Clrex(on[a])
    /\ UNCHANGED <<state, pc>>

Resume(a, c) ==
    /\ ~Running(a)
    /\ Idle(c)
    /\ on' = [on EXCEPT ![a] = c]
    /\ mon' = Clrex(c)
    /\ UNCHANGED <<state, pc>>

Step(a) == LdrexLock(a) \/ LdrexTry(a) \/ StrexLock(a) \/ StrexTry(a)

Next == \E a \in Agent :
    \/ CallLock(a) \/ CallTrylock(a) \/ CallUnlock(a)
    \/ Step(a) \/ Str(a)
    \/ Preempt(a)
    \/ \E c \in CPU : Resume(a, c)

Spec == Init /\ [][Next]_vars

(* A core that has started one of the mutex functions keeps executing it.    *)
Fairness == \A a \in Agent : WF_vars(Step(a))

FairSpec == Spec /\ Fairness

--------------------------------------------------------------------------------
(* Properties.                                                                *)

\* The types, and that a core executes one instruction stream at a time.
TypeOK ==
    /\ state \in {"locked", "unlocked"}
    /\ mon \subseteq CPU
    /\ pc \in [Agent -> {"idle", "assert"} \cup LockPc \cup TryPc \cup HolderPc]
    /\ on \in [Agent -> CPU \cup {Nowhere}]
    /\ \A a, b \in Agent : Running(a) /\ on[a] = on[b] => a = b

Holds(a) == pc[a] \in HolderPc

\* Two agents are never both between mutex_lock() and the store of
\* mutex_unlock(): thread.c relies on it for threads[] (lock_global).
MutualExclusion == \A a, b \in Agent : Holds(a) /\ Holds(b) => a = b

\* The assertion of mutex_unlock() never fires for an agent that unlocks what it
\* locked: nobody else's unlock can have freed the word meanwhile (mutex.c:47).
UnlockAssertHolds == \A a \in Agent : pc[a] # "assert"

\* A core about to execute STREX with its reservation intact still sees the
\* word unlocked, although another stream may have used the core in between.
ReservationSound ==
    \A a \in Agent : pc[a] \in StrexPc /\ Reserved(a) => state = "unlocked"

\* The word is locked exactly while somebody holds the mutex: no path of
\* __mutex_lock or __mutex_trylock leaves it locked behind its caller's back.
LockedIffHeld == state = "locked" <=> \E a \in Agent : Holds(a)

PhaseOf(p) == IF p \in LockPc THEN "wait"
              ELSE IF p \in TryPc THEN "try"
              ELSE IF p \in HolderPc THEN "own" ELSE "idle"

Lock == INSTANCE AbstractLock WITH phase <- [a \in Agent |-> PhaseOf(pc[a])]

\* The instruction sequences implement the lock their callers assume.
ImplementsLock == Lock!Spec

\* No livelock: while an agent spins in mutex_lock() on its core somebody gets
\* the mutex, though every STREX may lose its reservation to another core.
SpinEnds == \A a \in Agent :
    (pc[a] \in LockPc /\ Running(a)) ~> (~Running(a) \/ \E b \in Agent : Holds(b))

================================================================================
