----------------------------- MODULE MutexProofs -----------------------------
(***************************************************************************)
(* Proofs about Mutex, for any set of cores and any set of streams.        *)
(***************************************************************************)
EXTENDS Mutex, TLAPS

(* The safety properties support one another: STREX succeeds only while the  *)
(* word is unlocked (ReservationSound), hence while nobody holds the mutex   *)
(* (LockedIffHeld), hence creates the only holder (MutualExclusion).         *)
MutexInv ==
    /\ TypeOK
    /\ ReservationSound
    /\ LockedIffHeld
    /\ MutualExclusion
    /\ UnlockAssertHolds

LEMMA InitMutexInv == Init => MutexInv
  BY NowhereAssumption
  DEF Init, MutexInv, TypeOK, ReservationSound, LockedIffHeld, MutualExclusion,
      UnlockAssertHolds, Holds, Running, Reserved, HolderPc, StrexPc, LockPc, TryPc

LEMMA NextMutexInv == MutexInv /\ [Next]_vars => MutexInv'
<1> SUFFICES ASSUME MutexInv, [Next]_vars PROVE MutexInv'
  OBVIOUS
<1> USE NowhereAssumption
    DEF MutexInv, TypeOK, ReservationSound, LockedIffHeld, MutualExclusion,
        UnlockAssertHolds, Holds, Running, Reserved, Goto,
        HolderPc, StrexPc, LockPc, TryPc
<1>1. ASSUME NEW a \in Agent, CallLock(a) \/ CallTrylock(a) PROVE MutexInv'
  BY <1>1 DEF CallLock, CallTrylock
<1>2. ASSUME NEW a \in Agent, CallUnlock(a) PROVE MutexInv'
  BY <1>2 DEF CallUnlock
<1>3. ASSUME NEW a \in Agent, LdrexLock(a) PROVE MutexInv'
  BY <1>3 DEF LdrexLock, Ldrex
<1>4. ASSUME NEW a \in Agent, LdrexTry(a) PROVE MutexInv'
  BY <1>4 DEF LdrexTry, Ldrex
<1>5. ASSUME NEW a \in Agent, StrexLock(a) PROVE MutexInv'
  BY <1>5 DEF StrexLock, StrexOk, StrexFail
<1>6. ASSUME NEW a \in Agent, StrexTry(a) PROVE MutexInv'
  BY <1>6 DEF StrexTry, StrexOk, StrexFail
<1>7. ASSUME NEW a \in Agent, Str(a) PROVE MutexInv'
  BY <1>7 DEF Str
<1>8. ASSUME NEW a \in Agent, Preempt(a) PROVE MutexInv'
  BY <1>8 DEF Preempt, Clrex
<1>9. ASSUME NEW a \in Agent, NEW c \in CPU, Resume(a, c) PROVE MutexInv'
  BY <1>9 DEF Resume, Clrex, Idle
<1>10. CASE UNCHANGED vars
  BY <1>10 DEF vars
<1>11. QED
  BY <1>1, <1>2, <1>3, <1>4, <1>5, <1>6, <1>7, <1>8, <1>9, <1>10 DEF Next, Step

\* The state stays within its types and a core runs one stream at a time,
\* together with every property of the inductive invariant above.
THEOREM MutexInvariant == Spec => []MutexInv
  BY InitMutexInv, NextMutexInv, PTL DEF Spec

\* The mutex word and the reservations stay within their types (mutex.h).
THEOREM TypeCorrect == Spec => []TypeOK
  BY MutexInvariant, PTL DEF MutexInv

\* At most one stream is between mutex_lock() and the store of mutex_unlock().
THEOREM MutualExclusionHolds == Spec => []MutualExclusion
  BY MutexInvariant, PTL DEF MutexInv

\* The assertion in mutex_unlock() (mutex.c:47) never fires.
THEOREM UnlockNeverAsserts == Spec => []UnlockAssertHolds
  BY MutexInvariant, PTL DEF MutexInv

\* A reservation that survives until STREX vouches for an unlocked word, whoever
\* used the core between the two instructions: the CLREX of sm_asm.S:95.
THEOREM ReservationsAreSound == Spec => []ReservationSound
  BY MutexInvariant, PTL DEF MutexInv

\* No path through the lock functions leaves the word locked with no holder, or
\* unlocked with one.
THEOREM LockedMeansHeld == Spec => []LockedIffHeld
  BY MutexInvariant, PTL DEF MutexInv

--------------------------------------------------------------------------------
(* Refinement of AbstractLock.                                                *)

AbstractPhase == [a \in Agent |-> PhaseOf(pc[a])]

(* One agent's phase follows its pc; the others' stay.                        *)
LEMMA PhaseStep ==
  ASSUME TypeOK, NEW a \in Agent, NEW from, NEW to, Goto(a, from, to)
  PROVE  /\ AbstractPhase[a] = PhaseOf(from)
         /\ AbstractPhase' = [AbstractPhase EXCEPT ![a] = PhaseOf(to)]
  BY DEF AbstractPhase, TypeOK, Goto, PhaseOf

LEMMA InitImplementsLock == Init => Lock!Init
  BY DEF Init, Lock!Init, PhaseOf, LockPc, TryPc, HolderPc

LEMMA NextImplementsLock ==
  MutexInv /\ [Next]_vars => [Lock!Next]_AbstractPhase
<1> SUFFICES ASSUME MutexInv, [Next]_vars PROVE [Lock!Next]_AbstractPhase
  OBVIOUS
<1>ty. TypeOK
  BY DEF MutexInv
<1>ph. /\ PhaseOf("idle") = "idle" /\ PhaseOf("assert") = "idle"
       /\ PhaseOf("lock") = "wait" /\ PhaseOf("lock_strex") = "wait"
       /\ PhaseOf("try") = "try" /\ PhaseOf("try_strex") = "try"
       /\ PhaseOf("held") = "own" /\ PhaseOf("unlock") = "own"
  BY DEF PhaseOf, LockPc, TryPc, HolderPc
<1>same. ASSUME UNCHANGED pc PROVE UNCHANGED AbstractPhase
  BY <1>same DEF AbstractPhase
<1>stay. ASSUME NEW a \in Agent, NEW from, NEW to, Goto(a, from, to),
                PhaseOf(from) = PhaseOf(to)
         PROVE  UNCHANGED AbstractPhase
  <2>1. AbstractPhase' = [AbstractPhase EXCEPT ![a] = AbstractPhase[a]]
    BY <1>stay, <1>ty, PhaseStep
  <2>2. QED
    BY <2>1 DEF AbstractPhase
<1>move. ASSUME NEW a \in Agent, NEW from, NEW to, Goto(a, from, to)
         PROVE  Lock!Goto(a, PhaseOf(from), PhaseOf(to))
  BY <1>move, <1>ty, PhaseStep DEF Lock!Goto, AbstractPhase
<1>1. ASSUME NEW a \in Agent, CallLock(a) PROVE Lock!Request(a)
  BY <1>1, <1>move, <1>ph DEF CallLock, Lock!Request
<1>2. ASSUME NEW a \in Agent, CallTrylock(a) PROVE Lock!TryStart(a)
  BY <1>2, <1>move, <1>ph DEF CallTrylock, Lock!TryStart
<1>3. ASSUME NEW a \in Agent, CallUnlock(a) PROVE UNCHANGED AbstractPhase
  <2>1. Goto(a, "held", "unlock")
    BY <1>3 DEF CallUnlock, Goto, MutexInv, LockedIffHeld, Holds, HolderPc, TypeOK
  <2>2. QED
    BY <2>1, <1>stay, <1>ph
<1>4. ASSUME NEW a \in Agent, LdrexLock(a) PROVE UNCHANGED AbstractPhase
  BY <1>4, <1>stay, <1>ph DEF LdrexLock, Ldrex
<1>5. ASSUME NEW a \in Agent, LdrexTry(a)
      PROVE  Lock!TryFail(a) \/ UNCHANGED AbstractPhase
  <2>1. CASE state = "locked"
    BY <2>1, <1>5, <1>move, <1>ph DEF LdrexTry, Ldrex, Lock!TryFail
  <2>2. CASE state # "locked"
    BY <2>2, <1>5, <1>stay, <1>ph DEF LdrexTry, Ldrex
  <2>3. QED
    BY <2>1, <2>2
<1>free. ASSUME NEW a \in Agent, pc[a] \in StrexPc, Reserved(a) PROVE Lock!Free
  BY <1>free DEF MutexInv, ReservationSound, LockedIffHeld, Holds,
     Lock!Free, AbstractPhase, PhaseOf, LockPc, TryPc
<1>6. ASSUME NEW a \in Agent, StrexLock(a)
      PROVE  Lock!Acquire(a) \/ UNCHANGED AbstractPhase
  <2>1. CASE StrexOk(a, "lock_strex")
    BY <2>1, <1>move, <1>free, <1>ph DEF StrexOk, Lock!Acquire, Goto, StrexPc
  <2>2. CASE StrexFail(a, "lock_strex", "lock")
    BY <2>2, <1>stay, <1>ph DEF StrexFail
  <2>3. QED
    BY <1>6, <2>1, <2>2 DEF StrexLock
<1>7. ASSUME NEW a \in Agent, StrexTry(a) PROVE Lock!Acquire(a) \/ Lock!TryFail(a)
  <2>1. CASE StrexOk(a, "try_strex")
    BY <2>1, <1>move, <1>free, <1>ph DEF StrexOk, Lock!Acquire, Goto, StrexPc
  <2>2. CASE StrexFail(a, "try_strex", "idle")
    BY <2>2, <1>move, <1>ph DEF StrexFail, Lock!TryFail
  <2>3. QED
    BY <1>7, <2>1, <2>2 DEF StrexTry
<1>8. ASSUME NEW a \in Agent, Str(a) PROVE Lock!Release(a)
  BY <1>8, <1>move, <1>ph DEF Str, Lock!Release
<1>9. ASSUME NEW a \in Agent, Preempt(a) PROVE UNCHANGED AbstractPhase
  BY <1>9, <1>same DEF Preempt
<1>10. ASSUME NEW a \in Agent, NEW c \in CPU, Resume(a, c)
       PROVE  UNCHANGED AbstractPhase
  BY <1>10, <1>same DEF Resume
<1>11. CASE UNCHANGED vars
  BY <1>11, <1>same DEF vars
<1>12. QED
  BY <1>1, <1>2, <1>3, <1>4, <1>5, <1>6, <1>7, <1>8, <1>9, <1>10, <1>11
  DEF Next, Step, Lock!Next

\* __mutex_lock, __mutex_trylock and __mutex_unlock implement the abstract lock,
\* whatever the streams, the cores and the reschedulings between instructions.
THEOREM MutexImplementsLock == Spec => ImplementsLock
<1>1. Init => Lock!Init
  BY InitImplementsLock
<1>2. MutexInv /\ [Next]_vars => [Lock!Next]_[a \in Agent |-> PhaseOf(pc[a])]
  BY NextImplementsLock DEF AbstractPhase
<1>3. QED
  BY <1>1, <1>2, MutexInvariant, PTL DEF Spec, ImplementsLock, Lock!Spec
================================================================================
