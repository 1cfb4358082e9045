---------------------------- MODULE ThreadsProofs ----------------------------
(***************************************************************************)
(* Proofs about Threads, for any number of cores and threads, any clients  *)
(* and register contents, and a non-secure world of either kind.           *)
(*                                                                         *)
(* ControlInv ties what a core has in curr_thread, n and its masks to where*)
(* it is in the code; SchedInv, on top of it, the lock to the states of the*)
(* threads; DataInv the saved registers to what the thread must find.  The *)
(* refinement of ThreadPool rests on the three.  TokenInv says where the   *)
(* right to resume a thread is, for a non-secure world that follows the    *)
(* rules.                                                                  *)
(***************************************************************************)
EXTENDS Threads, TLAPS

(* Where the core is, looking through an FIQ handler.                         *)
EffPc(c) == IF pc[c] = "fiq" THEN fret[c].pc ELSE pc[c]

MaskOf(p) == IF p \in ThreadPc THEN {} ELSE IF p \in {"irq", "fiqwin"} THEN {"I"} ELSE Both

RunPc == ThreadPc \cup {"irq", "suspend", "suspend_cs", "free", "free_cs"}
NPc   == {"alloc_run", "resume_run", "rpc_load"}

(* What a core has in its variables, and what it will return to.               *)
CoreControl(c) ==
    /\ pc[c] # "halt" => (curr_thread[c] # NoThread <=> EffPc(c) \in RunPc)
    /\ n[c] # NoThread <=> pc[c] \in NPc
    /\ mask[c] = MaskOf(pc[c])
    /\ pc[c] = "fiq" => /\ fret[c].pc \in ThreadPc \cup {"irq", "fiqwin"}
                        /\ fret[c].cpsr = MaskOf(fret[c].pc)
    /\ EffPc(c) \in {"irq", "suspend", "suspend_cs"} =>
            at[c].cpsr = {} /\ at[c].pc \in ThreadPc

CoreInv == \A c \in CPU : CoreControl(c)

CoreVars(c) == <<pc[c], r[c], curr_thread[c], n[c], mask[c], fret[c], at[c]>>

(* A context that can be resumed lies in the thread's code, with nothing masked.*)
RegsOK(t) == regs[t].cpsr = {} /\ regs[t].pc \in ThreadPc

RegsInv ==
    /\ \A t \in Thread : state[t] = "SUSPENDED" => RegsOK(t)
    /\ \A c \in CPU : pc[c] = "resume_run" => RegsOK(n[c])

(* In the secure world a core works for some client.                          *)
GuestInv == \A c \in CPU : pc[c] # "nsec" => guest[c] \in Clnt

ControlInv == TypeOK /\ CoreInv /\ RegsInv /\ GuestInv

--------------------------------------------------------------------------------
(* Facts about the records of Threads.                                        *)

LEMMA ThreadFacts == NoThread \notin Thread /\ Thread \subseteq ThreadId /\ 0 \in ThreadId
  BY ConstantsAssumption DEF Thread, ThreadId, NoThread

LEMMA PcFacts ==
  /\ ThreadPc \subseteq Pc /\ "thread" \in Pc
  /\ "nsec" \in Pc /\ "recv" \in Pc /\ "fiqwin" \in Pc /\ "irq" \in Pc /\ "fiq" \in Pc
  /\ "alloc" \in Pc /\ "alloc_check" \in Pc /\ "alloc_take" \in Pc /\ "alloc_run" \in Pc
  /\ "resume" \in Pc /\ "resume_check" \in Pc /\ "resume_take" \in Pc
  /\ "resume_run" \in Pc /\ "suspend" \in Pc /\ "suspend_cs" \in Pc /\ "rpc_load" \in Pc
  /\ "free" \in Pc /\ "free_cs" \in Pc /\ "smc" \in Pc /\ "halt" \in Pc
  BY DEF ThreadPc, Pc

LEMMA NullFacts == NoArgs \in Args /\ NoCtx \in SavedAt /\ NoRet \in SavedFret
  BY ConstantsAssumption, ThreadFacts DEF NoArgs, Args, NoCtx, SavedAt, NoRet, SavedFret, Both

LEMMA MaskFacts ==
  /\ "I" \in Both /\ "F" \in Both /\ Both \ {"F"} = {"I"} /\ {"I"} \cup {"F"} = Both
  /\ {} \cup {"I"} = {"I"}
  BY DEF Both

LEMMA MaskTypes ==
  /\ {} \in SUBSET Both /\ Both \in SUBSET Both
  /\ \A m \in SUBSET Both : /\ m \cup {"F"} \in SUBSET Both /\ m \cup {"I"} \in SUBSET Both
                            /\ m \ {"F"} \in SUBSET Both
  BY DEF Both

LEMMA ArgsFacts ==
  ASSUME NEW x \in Args
  PROVE  /\ x.a1 \in Val /\ x.a3 \in ThreadId /\ x.a7 \in Clnt
         /\ [x EXCEPT !.a0 = "OK"] \in Args
         /\ \A v \in Val : [x EXCEPT !.a1 = v] \in Args
  BY DEF Args

LEMMA ReplyFacts ==
  /\ \A v \in Val : [NoArgs EXCEPT !.a1 = v] \in Args
  /\ \A t \in Thread : /\ [NoArgs EXCEPT !.a0 = "RPC", !.a3 = t] \in Args
                       /\ [NoArgs EXCEPT !.a0 = "RPC_IRQ", !.a3 = t] \in Args
  BY NullFacts, ThreadFacts DEF Args

LEMMA CallFacts ==
  /\ [NoArgs EXCEPT !.a0 = "HANDLE_FIQ"] \in Args
  /\ [NoArgs EXCEPT !.a0 = "HANDLE_FIQ"].a7 \in Clnt
  /\ \A f \in Fn \cup {"RETURN_FROM_RPC"}, v \in Val, t \in ThreadId, k \in Clnt :
        /\ [a0 |-> f, a1 |-> v, a3 |-> t, a7 |-> k] \in Args
        /\ [a0 |-> f, a1 |-> v, a3 |-> t, a7 |-> k].a7 \in Clnt
  BY NullFacts, ConstantsAssumption DEF Args, NoArgs

LEMMA RefusedFacts ==
  ASSUME TypeOK, NEW c \in CPU, NEW a0 \in {"EBUSY", "ERESUME"}
  PROVE  Refused(c, a0) \in Args
<1>1. r[c] \in Args
  BY DEF TypeOK
<1>2. r[c].a7 \in Clnt
  BY <1>1, ArgsFacts
<1>3. QED
  BY <1>2, NullFacts DEF Refused, Args

LEMMA RegsFacts ==
  ASSUME NEW x \in SavedRegs
  PROVE  /\ x.a1 \in Val /\ x.cpsr \in SUBSET Both
         /\ \A v \in Val : /\ [x EXCEPT !.a1 = v] \in SavedRegs
                           /\ [x EXCEPT !.a1 = v].pc = x.pc
                           /\ [x EXCEPT !.a1 = v].cpsr = x.cpsr
         /\ \A p \in ThreadPc, m \in SUBSET Both :
                /\ [x EXCEPT !.cpsr = m, !.pc = p] \in SavedRegs
                /\ [x EXCEPT !.cpsr = m, !.pc = p].pc = p
                /\ [x EXCEPT !.cpsr = m, !.pc = p].cpsr = m
                /\ [x EXCEPT !.cpsr = m, !.pc = p].a1 = x.a1
  BY DEF SavedRegs

LEMMA CtxFacts ==
  ASSUME NEW p \in ThreadPc, NEW m \in SUBSET Both
  PROVE  /\ \A v \in Val : [a1 |-> v, pc |-> p, cpsr |-> m] \in SavedRegs
         /\ \A b \in BOOLEAN : [pc |-> p, cpsr |-> m, copy |-> b] \in SavedAt
  BY DEF SavedRegs, SavedAt

LEMMA ExpectedFacts ==
  /\ \A v \in Val, k \in Clnt : [a1 |-> v, pc |-> "thread", a7 |-> k] \in Expected
  /\ \A x \in Expected :
        /\ x.a1 \in Val \cup {Await} /\ x.a7 \in Clnt
        /\ \A v \in Val : [x EXCEPT !.a1 = v] \in Expected
        /\ [x EXCEPT !.a1 = x.a1] \in Expected
        /\ [x EXCEPT !.pc = "thread"] \in Expected
        /\ [x EXCEPT !.a1 = Await, !.pc = "rpc_return"] \in Expected
        /\ [x EXCEPT !.a1 = 0, !.pc = "zero"] \in Expected
  BY ConstantsAssumption DEF Expected, ThreadPc

--------------------------------------------------------------------------------
(* Control.                                                                   *)

LEMMA InitControl == Init => ControlInv
<1> SUFFICES ASSUME Init PROVE ControlInv
  OBVIOUS
<1>1. TypeOK
  BY ConstantsAssumption, ThreadFacts, NullFacts
  DEF Init, TypeOK, Pc, SavedRegs, Expected, Both
<1>2. CoreInv
  BY DEF Init, CoreInv, CoreControl, EffPc, MaskOf, RunPc, NPc, ThreadPc
<1>3. RegsInv
  BY DEF Init, RegsInv
<1>4. GuestInv
  BY DEF Init, GuestInv
<1>5. QED
  BY <1>1, <1>2, <1>3, <1>4 DEF ControlInv

(* A step of core c is one of these, with the control state of the others kept.*)
LEMMA Elsewhere ==
  ASSUME TypeOK, NEW c \in CPU,
         NwStep(c) \/ HandlerStep(c) \/ ThreadStep(c) \/ ExceptionStep(c)
  PROVE  \A d \in CPU \ {c} : UNCHANGED CoreVars(d)
<1> USE DEF TypeOK, CoreVars, NextPc, threadVars
<1>1. CASE NwStep(c)
  BY <1>1 DEF NwStep, NwCall, NwReturn, FiqNsec, EnterSecure
<1>2. CASE HandlerStep(c)
  <2>1. CASE RecvFiq(c) \/ RecvFast(c) \/ RecvStd(c) \/ LockGlobal(c)
    BY <2>1 DEF RecvFiq, RecvFast, RecvStd, Halt, LockGlobal
  <2>2. CASE AllocCheck(c) \/ AllocFull(c) \/ ResumeCheck(c) \/ ResumeFail(c)
    BY <2>2 DEF AllocCheck, AllocFull, ResumeCheck, ResumeFail, CheckActive, Refuse
  <2>3. CASE AllocTake(c) \/ ResumeTake(c)
    BY <2>3 DEF AllocTake, ResumeTake, Take
  <2>4. CASE AllocRun(c)
    BY <2>4 DEF AllocRun, LoadContext
  <2>5. CASE ResumeRun(c)
    BY <2>5 DEF ResumeRun, LoadContext
  <2>6. CASE SuspendCs(c) \/ FreeCs(c)
    BY <2>6 DEF SuspendCs, Suspend, SuspendAs, FreeCs, Free, Halt
  <2>7. CASE RpcLoad(c) \/ FiqReturn(c) \/ SmcExit(c)
    BY <2>7 DEF RpcLoad, FiqReturn, SmcExit
  <2>8. QED
    BY <1>2, <2>1, <2>2, <2>3, <2>4, <2>5, <2>6, <2>7 DEF HandlerStep
<1>3. CASE ThreadStep(c)
  BY <1>3 DEF ThreadStep, Compute, ThreadRpc, SaveState, RpcReturn, ThreadReturn
<1>4. CASE ExceptionStep(c)
  BY <1>4 DEF ExceptionStep, IrqEntry, IrqSave, SaveState, FiqEntry, FiqWinEnd
<1>5. QED
  BY <1>1, <1>2, <1>3, <1>4

LEMMA CoreStep ==
  ASSUME CoreInv, NEW c \in CPU, CoreControl(c)',
         \A d \in CPU \ {c} : UNCHANGED CoreVars(d)
  PROVE  CoreInv'
<1> SUFFICES ASSUME NEW d \in CPU \ {c} PROVE CoreControl(d)'
  BY DEF CoreInv
<1>1. CoreControl(d) /\ UNCHANGED CoreVars(d)
  BY DEF CoreInv
<1>2. QED
  BY <1>1 DEF CoreControl, CoreVars, EffPc

LEMMA ResumeContext ==
  ASSUME ControlInv, NEW c \in CPU, At(c, "resume_run")
  PROVE  /\ n[c] \in Thread
         /\ ReturnedContext(c, n[c]) \in SavedRegs
         /\ ReturnedContext(c, n[c]).pc \in ThreadPc
         /\ ReturnedContext(c, n[c]).cpsr = {}
<1>1. n[c] \in Thread /\ RegsOK(n[c])
  BY ThreadFacts DEF ControlInv, TypeOK, CoreInv, CoreControl, RegsInv, At, NPc
<1>2. regs[n[c]] \in SavedRegs /\ r[c].a1 \in Val
  BY <1>1, ArgsFacts DEF ControlInv, TypeOK
<1>3. QED
  BY <1>1, <1>2, RegsFacts DEF ReturnedContext, RegsOK

LEMMA NextCore == ASSUME ControlInv, [Next]_vars PROVE CoreInv'
<1> USE ThreadFacts, MaskFacts
    DEF ControlInv, TypeOK, CoreInv, CoreControl, EffPc, MaskOf, RunPc, NPc, ThreadPc,
        At, NextPc, threadVars
<1>1. ASSUME NEW c \in CPU, NEW f \in Fn, NEW v \in Val, NEW k \in Clnt, NwCall(c, f, v, k)
      PROVE  CoreControl(c)'
  BY <1>1 DEF NwCall, EnterSecure
<1>2. ASSUME NEW c \in CPU, NEW t \in ThreadId, NEW v \in Val, NEW k \in Clnt, NwReturn(c, t, v, k)
      PROVE  CoreControl(c)'
  BY <1>2 DEF NwReturn, EnterSecure
<1>3. ASSUME NEW c \in CPU, FiqNsec(c) PROVE CoreControl(c)'
  BY <1>3 DEF FiqNsec, EnterSecure
<1>4. ASSUME NEW c \in CPU, RecvFiq(c) PROVE CoreControl(c)'
  BY <1>4 DEF RecvFiq
<1>5. ASSUME NEW c \in CPU, RecvFast(c) PROVE CoreControl(c)'
  BY <1>5 DEF RecvFast
<1>6. ASSUME NEW c \in CPU, RecvStd(c) PROVE CoreControl(c)'
  BY <1>6 DEF RecvStd, Halt
<1>7. ASSUME NEW c \in CPU, LockGlobal(c) PROVE CoreControl(c)'
  BY <1>7 DEF LockGlobal, LockedPc
<1>8. ASSUME NEW c \in CPU, AllocCheck(c) PROVE CoreControl(c)'
  BY <1>8 DEF AllocCheck, CheckActive, Refuse
<1>9. ASSUME NEW c \in CPU, AllocFull(c) PROVE CoreControl(c)'
  BY <1>9 DEF AllocFull, Refuse
<1>10. ASSUME NEW c \in CPU, AllocTake(c) PROVE CoreControl(c)'
  BY <1>10 DEF AllocTake, Take
<1>11. ASSUME NEW c \in CPU, AllocRun(c) PROVE CoreControl(c)'
  BY <1>11 DEF AllocRun, LoadContext
<1>12. ASSUME NEW c \in CPU, ResumeCheck(c) PROVE CoreControl(c)'
  BY <1>12 DEF ResumeCheck, CheckActive, Refuse
<1>13. ASSUME NEW c \in CPU, ResumeTake(c) PROVE CoreControl(c)'
  BY <1>13 DEF ResumeTake, MayResume, Take
<1>14. ASSUME NEW c \in CPU, ResumeFail(c) PROVE CoreControl(c)'
  BY <1>14 DEF ResumeFail, Refuse
<1>15. ASSUME NEW c \in CPU, ResumeRun(c) PROVE CoreControl(c)'
  <2>1. /\ n[c] \in Thread
        /\ ReturnedContext(c, n[c]).pc \in ThreadPc
        /\ ReturnedContext(c, n[c]).cpsr = {}
    BY ResumeContext, <1>15 DEF ResumeRun
  <2>2. QED
    BY <2>1, <1>15 DEF ResumeRun, LoadContext
<1>16. ASSUME NEW c \in CPU, SuspendCs(c) PROVE CoreControl(c)'
  <2>1. CASE RunsActive(c)
    BY <2>1, <1>16 DEF SuspendCs, Suspend, SuspendAs, NoCtx
  <2>2. CASE ~RunsActive(c)
    BY <2>2, <1>16 DEF SuspendCs, Halt
  <2>3. QED
    BY <2>1, <2>2
<1>17. ASSUME NEW c \in CPU, RpcLoad(c) PROVE CoreControl(c)'
  BY <1>17 DEF RpcLoad
<1>18. ASSUME NEW c \in CPU, FreeCs(c) PROVE CoreControl(c)'
  <2>1. CASE RunsActive(c)
    BY <2>1, <1>18 DEF FreeCs, Free
  <2>2. CASE ~RunsActive(c)
    BY <2>2, <1>18 DEF FreeCs, Halt
  <2>3. QED
    BY <2>1, <2>2
<1>19. ASSUME NEW c \in CPU, FiqReturn(c) PROVE CoreControl(c)'
  BY <1>19 DEF FiqReturn
<1>20. ASSUME NEW c \in CPU, SmcExit(c) PROVE CoreControl(c)'
  BY <1>20 DEF SmcExit
<1>21. ASSUME NEW c \in CPU, NEW v \in Val, Compute(c, v) PROVE CoreControl(c)'
  BY <1>21 DEF Compute
<1>22. ASSUME NEW c \in CPU, ThreadRpc(c) PROVE CoreControl(c)'
  BY <1>22 DEF ThreadRpc, SaveState
<1>23. ASSUME NEW c \in CPU, RpcReturn(c) PROVE CoreControl(c)'
  BY <1>23 DEF RpcReturn
<1>24. ASSUME NEW c \in CPU, ThreadReturn(c) PROVE CoreControl(c)'
  BY <1>24 DEF ThreadReturn
<1>25. ASSUME NEW c \in CPU, IrqEntry(c) PROVE CoreControl(c)'
  BY <1>25 DEF IrqEntry, Secure
<1>26. ASSUME NEW c \in CPU, IrqSave(c) PROVE CoreControl(c)'
  BY <1>26 DEF IrqSave, SaveState
<1>27. ASSUME NEW c \in CPU, FiqEntry(c) PROVE CoreControl(c)'
  BY <1>27 DEF FiqEntry, Secure
<1>28. ASSUME NEW c \in CPU, FiqWinEnd(c) PROVE CoreControl(c)'
  BY <1>28 DEF FiqWinEnd
<1>29. ASSUME NEW c \in CPU,
             NwStep(c) \/ HandlerStep(c) \/ ThreadStep(c) \/ ExceptionStep(c)
       PROVE  CoreInv'
  <2>1. CoreControl(c)'
    BY <1>1, <1>2, <1>3, <1>4, <1>5, <1>6, <1>7, <1>8, <1>9, <1>10, <1>11, <1>12, <1>13,
       <1>14, <1>15, <1>16, <1>17, <1>18, <1>19, <1>20, <1>21, <1>22, <1>23, <1>24, <1>25,
       <1>26, <1>27, <1>28, <1>29
    DEF NwStep, HandlerStep, ThreadStep, ExceptionStep
  <2>2. QED
    BY <2>1, <1>29, Elsewhere, CoreStep DEF ControlInv
<1>30. CASE UNCHANGED vars
  BY <1>30 DEF vars
<1>31. QED
  BY <1>29, <1>30 DEF Next

LEMMA UnmaskedPc ==
  ASSUME ControlInv, NEW c \in CPU
  PROVE  /\ "I" \notin mask[c] => pc[c] \in ThreadPc
         /\ "F" \notin mask[c] => pc[c] \in ThreadPc \cup {"irq", "fiqwin"}
  BY MaskFacts DEF ControlInv, CoreInv, CoreControl, MaskOf

LEMMA NextType == ASSUME ControlInv, [Next]_vars PROVE TypeOK'
<1> USE ThreadFacts, PcFacts, NullFacts DEF ControlInv, TypeOK, At, NextPc, threadVars
<1>1. ASSUME NEW c \in CPU, NEW f \in Fn, NEW v \in Val, NEW k \in Clnt, NwCall(c, f, v, k)
      PROVE  TypeOK'
  BY <1>1, CallFacts DEF NwCall, EnterSecure
<1>2. ASSUME NEW c \in CPU, NEW t \in ThreadId, NEW v \in Val, NEW k \in Clnt, NwReturn(c, t, v, k)
      PROVE  TypeOK'
  <2>1. "RETURN_FROM_RPC" \in Fn \cup {"RETURN_FROM_RPC"}
    OBVIOUS
  <2>2. QED
    BY <2>1, <1>2, CallFacts DEF NwReturn, EnterSecure
<1>3. ASSUME NEW c \in CPU, FiqNsec(c) PROVE TypeOK'
  BY <1>3, CallFacts DEF FiqNsec, EnterSecure
<1>4. ASSUME NEW c \in CPU, RecvFiq(c) PROVE TypeOK'
  BY <1>4, MaskTypes DEF RecvFiq
<1>5. ASSUME NEW c \in CPU, RecvFast(c) PROVE TypeOK'
  BY <1>5, ArgsFacts DEF RecvFast
<1>6. ASSUME NEW c \in CPU, RecvStd(c) PROVE TypeOK'
  BY <1>6 DEF RecvStd, Halt
<1>7. ASSUME NEW c \in CPU, LockGlobal(c) PROVE TypeOK'
  BY <1>7 DEF LockGlobal, LockedPc
<1>8. ASSUME NEW c \in CPU, AllocCheck(c) PROVE TypeOK'
  <2>1. CASE HaveOneActive
    <3>1. Refused(c, "EBUSY") \in Args
      BY RefusedFacts
    <3>2. Refuse(c, "EBUSY")
      BY <2>1, <1>8 DEF AllocCheck, CheckActive
    <3>3. QED
      BY <3>1, <3>2 DEF Refuse
  <2>2. CASE ~HaveOneActive
    BY <2>2, <1>8 DEF AllocCheck, CheckActive
  <2>3. QED
    BY <2>1, <2>2
<1>9. ASSUME NEW c \in CPU, AllocFull(c) PROVE TypeOK'
  <2>1. Refused(c, "EBUSY") \in Args
    BY RefusedFacts
  <2>2. QED
    BY <2>1, <1>9 DEF AllocFull, Refuse
<1>10. ASSUME NEW c \in CPU, AllocTake(c) PROVE TypeOK'
  <2>1. PICK t \in Thread : /\ Take(c, t, "alloc_run")
                            /\ live' = [live EXCEPT ![t] = [a1 |-> r[c].a1, pc |-> "thread", a7 |-> guest[c]]]
    BY <1>10 DEF AllocTake
  <2>2. [a1 |-> r[c].a1, pc |-> "thread", a7 |-> guest[c]] \in Expected
    BY <1>10, ArgsFacts, ExpectedFacts DEF AllocTake, GuestInv
  <2>3. QED
    BY <2>1, <2>2 DEF Take
<1>11. ASSUME NEW c \in CPU, AllocRun(c) PROVE TypeOK'
  <2>1. n[c] \in Thread
    BY <1>11 DEF AllocRun, CoreInv, CoreControl, NPc
  <2>2. [a1 |-> r[c].a1, pc |-> "thread", cpsr |-> {}] \in SavedRegs
    BY ArgsFacts, CtxFacts, MaskTypes DEF ThreadPc
  <2>3. [NoArgs EXCEPT !.a1 = r[c].a1] \in Args /\ r[c].a7 \in Clnt
    BY ArgsFacts, ReplyFacts
  <2>4. QED
    BY <2>1, <2>2, <2>3, MaskTypes, <1>11 DEF AllocRun, LoadContext
<1>12. ASSUME NEW c \in CPU, ResumeCheck(c) PROVE TypeOK'
  <2>1. CASE HaveOneActive
    <3>1. Refused(c, "EBUSY") \in Args
      BY RefusedFacts
    <3>2. Refuse(c, "EBUSY")
      BY <2>1, <1>12 DEF ResumeCheck, CheckActive
    <3>3. QED
      BY <3>1, <3>2 DEF Refuse
  <2>2. CASE ~HaveOneActive
    BY <2>2, <1>12 DEF ResumeCheck, CheckActive
  <2>3. QED
    BY <2>1, <2>2
<1>13. ASSUME NEW c \in CPU, ResumeTake(c) PROVE TypeOK'
  <2>1. r[c].a3 \in Thread
    BY <1>13 DEF ResumeTake, MayResume
  <2>2. [live[r[c].a3] EXCEPT !.a1 = IF @ = Await THEN r[c].a1 ELSE @] \in Expected
    BY <2>1, ArgsFacts, ExpectedFacts
  <2>3. QED
    BY <2>1, <2>2, <1>13 DEF ResumeTake, Take
<1>14. ASSUME NEW c \in CPU, ResumeFail(c) PROVE TypeOK'
  <2>1. Refused(c, "ERESUME") \in Args
    BY RefusedFacts
  <2>2. QED
    BY <2>1, <1>14 DEF ResumeFail, Refuse
<1>15. ASSUME NEW c \in CPU, ResumeRun(c) PROVE TypeOK'
  <2>1. ReturnedContext(c, n[c]) \in SavedRegs /\ ReturnedContext(c, n[c]).pc \in ThreadPc
    BY ResumeContext, <1>15 DEF ResumeRun
  <2>2. n[c] \in Thread
    BY ResumeContext, <1>15 DEF ResumeRun
  <2>3. /\ [NoArgs EXCEPT !.a1 = ReturnedContext(c, n[c]).a1] \in Args
        /\ ReturnedContext(c, n[c]).cpsr \in SUBSET Both
    BY <2>1, RegsFacts, ReplyFacts
  <2>4. QED
    BY <2>1, <2>2, <2>3, <1>15 DEF ResumeRun, LoadContext
<1>16. ASSUME NEW c \in CPU, SuspendCs(c) PROVE TypeOK'
  <2>1. CASE RunsActive(c)
    <3> DEFINE t == curr_thread[c]
    <3>1. t \in Thread
      BY <2>1 DEF RunsActive
    <3>2. at[c].cpsr = {} /\ at[c].pc \in ThreadPc /\ at[c].copy \in BOOLEAN
      BY <1>16 DEF SuspendCs, CoreInv, CoreControl, EffPc, SavedAt
    <3>3. [regs[t] EXCEPT !.cpsr = at[c].cpsr, !.pc = at[c].pc] \in SavedRegs
      BY <3>1, <3>2, RegsFacts, MaskTypes
    <3>4. /\ (IF at[c].copy THEN t ELSE NoThread) \in Thread \cup {NoThread}
          /\ (IF at[c].copy THEN NoArgs ELSE [NoArgs EXCEPT !.a0 = "RPC_IRQ", !.a3 = t]) \in Args
          /\ (IF at[c].copy THEN "rpc_load" ELSE "smc") \in Pc
      BY <3>1, ReplyFacts
    <3>5. SuspendAs(c, "SUSPENDED", NoThread)
      BY <2>1, <1>16 DEF SuspendCs, Suspend
    <3>6. regs' \in [Thread -> SavedRegs]
      BY <3>1, <3>3, <3>5 DEF SuspendAs
    <3>7. r' \in [CPU -> Args] /\ n' \in [CPU -> Thread \cup {NoThread}] /\ pc' \in [CPU -> Pc]
      BY <3>4, <3>5 DEF SuspendAs
    <3>8. copy' \in [Thread -> BOOLEAN] /\ state' \in [Thread -> {"FREE", "SUSPENDED", "ACTIVE"}]
      BY <3>1, <3>2, <3>5 DEF SuspendAs
    <3>9. QED
      BY <3>5, <3>6, <3>7, <3>8 DEF SuspendAs
  <2>2. CASE ~RunsActive(c)
    BY <2>2, <1>16 DEF SuspendCs, Halt
  <2>3. QED
    BY <2>1, <2>2
<1>17. ASSUME NEW c \in CPU, RpcLoad(c) PROVE TypeOK'
  <2>1. n[c] \in Thread
    BY <1>17 DEF RpcLoad, CoreInv, CoreControl, NPc
  <2>2. QED
    BY <2>1, ReplyFacts, <1>17 DEF RpcLoad
<1>18. ASSUME NEW c \in CPU, FreeCs(c) PROVE TypeOK'
  <2>1. CASE RunsActive(c)
    <3>1. curr_thread[c] \in Thread
      BY <2>1 DEF RunsActive
    <3>2. Free(c)
      BY <2>1, <1>18 DEF FreeCs
    <3>3. [live[curr_thread[c]] EXCEPT !.a1 = 0, !.pc = "zero"] \in Expected
      BY <3>1, ExpectedFacts
    <3>4. QED
      BY <3>1, <3>2, <3>3 DEF Free
  <2>2. CASE ~RunsActive(c)
    BY <2>2, <1>18 DEF FreeCs, Halt
  <2>3. QED
    BY <2>1, <2>2
<1>19. ASSUME NEW c \in CPU, FiqReturn(c) PROVE TypeOK'
  <2>1. fret[c].pc \in Pc /\ fret[c].cpsr \in SUBSET Both
    BY <1>19 DEF FiqReturn, CoreInv, CoreControl, SavedFret
  <2>2. QED
    BY <2>1, <1>19 DEF FiqReturn
<1>20. ASSUME NEW c \in CPU, SmcExit(c) PROVE TypeOK'
  BY <1>20 DEF SmcExit
<1>21. ASSUME NEW c \in CPU, NEW v \in Val, Compute(c, v) PROVE TypeOK'
  <2>1. curr_thread[c] \in Thread
    BY <1>21 DEF Compute, CoreInv, CoreControl, EffPc, RunPc, ThreadPc
  <2>2. QED
    BY <2>1, <1>21, ArgsFacts, ExpectedFacts DEF Compute
<1>22. ASSUME NEW c \in CPU, ThreadRpc(c) PROVE TypeOK'
  <2>1. CASE curr_thread[c] = NoThread
    BY <2>1, <1>22 DEF ThreadRpc, SaveState
  <2>2. CASE curr_thread[c] # NoThread
    <3>1. curr_thread[c] \in Thread
      BY <2>2
    <3>2. [regs[curr_thread[c]] EXCEPT !.a1 = r[c].a1] \in SavedRegs
      BY <3>1, RegsFacts, ArgsFacts
    <3>3. [pc |-> "rpc_return", cpsr |-> mask[c], copy |-> TRUE] \in SavedAt
      BY <1>22, CtxFacts, MaskTypes DEF CoreInv, CoreControl, EffPc, ThreadPc, RunPc
    <3>4. QED
      BY <2>2, <3>1, <3>2, <3>3, ExpectedFacts, <1>22 DEF ThreadRpc, SaveState
  <2>3. QED
    BY <2>1, <2>2
<1>23. ASSUME NEW c \in CPU, RpcReturn(c) PROVE TypeOK'
  <2>1. curr_thread[c] \in Thread
    BY <1>23 DEF RpcReturn, CoreInv, CoreControl, EffPc, RunPc, ThreadPc
  <2>2. QED
    BY <2>1, <1>23, ArgsFacts, ExpectedFacts DEF RpcReturn
<1>24. ASSUME NEW c \in CPU, ThreadReturn(c) PROVE TypeOK'
  BY <1>24, ArgsFacts, MaskTypes DEF ThreadReturn
<1>25. ASSUME NEW c \in CPU, IrqEntry(c) PROVE TypeOK'
  <2>1. pc[c] \in ThreadPc
    BY <1>25, UnmaskedPc DEF IrqEntry
  <2>2. [pc |-> pc[c], cpsr |-> mask[c], copy |-> FALSE] \in SavedAt
    BY <2>1, CtxFacts
  <2>3. QED
    BY <2>2, MaskTypes, <1>25 DEF IrqEntry
<1>26. ASSUME NEW c \in CPU, IrqSave(c) PROVE TypeOK'
  <2>1. CASE curr_thread[c] = NoThread
    BY <2>1, <1>26 DEF IrqSave, SaveState
  <2>2. CASE curr_thread[c] # NoThread
    <3>1. curr_thread[c] \in Thread
      BY <2>2
    <3>2. [regs[curr_thread[c]] EXCEPT !.a1 = r[c].a1] \in SavedRegs
      BY <3>1, RegsFacts, ArgsFacts
    <3>3. at[c] \in SavedAt
      OBVIOUS
    <3>4. QED
      BY <2>2, <3>1, <3>2, <3>3, <1>26 DEF IrqSave, SaveState
  <2>3. QED
    BY <2>1, <2>2
<1>27. ASSUME NEW c \in CPU, FiqEntry(c) PROVE TypeOK'
  <2>1. pc[c] \in ThreadPc \cup {"irq", "fiqwin"}
    BY <1>27, UnmaskedPc DEF FiqEntry
  <2>2. [pc |-> pc[c], cpsr |-> mask[c]] \in SavedFret
    BY <2>1 DEF SavedFret
  <2>3. QED
    BY <2>2, MaskTypes, <1>27 DEF FiqEntry
<1>28. ASSUME NEW c \in CPU, FiqWinEnd(c) PROVE TypeOK'
  BY <1>28, MaskTypes DEF FiqWinEnd
<1>29. CASE UNCHANGED vars
  BY <1>29 DEF vars
<1>30. QED
  BY <1>1, <1>2, <1>3, <1>4, <1>5, <1>6, <1>7, <1>8, <1>9, <1>10, <1>11, <1>12, <1>13,
     <1>14, <1>15, <1>16, <1>17, <1>18, <1>19, <1>20, <1>21, <1>22, <1>23, <1>24, <1>25,
     <1>26, <1>27, <1>28, <1>29
  DEF Next, NwStep, HandlerStep, ThreadStep, ExceptionStep
LEMMA NextGuest == ASSUME ControlInv, [Next]_vars PROVE GuestInv'
<1> USE DEF ControlInv, TypeOK, GuestInv, At, NextPc, threadVars
<1>1. ASSUME NEW c \in CPU, NwStep(c) PROVE GuestInv'
  BY <1>1, CallFacts DEF NwStep, NwCall, NwReturn, FiqNsec, EnterSecure
<1>2. ASSUME NEW c \in CPU, HandlerStep(c) PROVE GuestInv'
  <2>1. CASE RecvFiq(c) \/ RecvFast(c) \/ RecvStd(c)
    BY <2>1 DEF RecvFiq, RecvFast, RecvStd, Halt
  <2>2. CASE LockGlobal(c)
    BY <2>2 DEF LockGlobal, LockedPc
  <2>3. CASE AllocCheck(c) \/ AllocFull(c) \/ ResumeCheck(c) \/ ResumeFail(c)
    BY <2>3 DEF AllocCheck, AllocFull, ResumeCheck, ResumeFail, CheckActive, Refuse
  <2>4. CASE AllocTake(c) \/ ResumeTake(c)
    BY <2>4 DEF AllocTake, ResumeTake, Take
  <2>5. CASE AllocRun(c)
    BY <2>5 DEF AllocRun, LoadContext
  <2>6. CASE ResumeRun(c)
    BY <2>6 DEF ResumeRun, LoadContext
  <2>7. CASE SuspendCs(c) \/ FreeCs(c)
    BY <2>7 DEF SuspendCs, Suspend, SuspendAs, FreeCs, Free, Halt
  <2>8. CASE RpcLoad(c) \/ FiqReturn(c) \/ SmcExit(c)
    BY <2>8 DEF RpcLoad, FiqReturn, SmcExit
  <2>9. QED
    BY <1>2, <2>1, <2>2, <2>3, <2>4, <2>5, <2>6, <2>7, <2>8 DEF HandlerStep
<1>3. ASSUME NEW c \in CPU, ThreadStep(c) PROVE GuestInv'
  <2>1. CASE (\E v \in Val : Compute(c, v)) \/ RpcReturn(c) \/ ThreadReturn(c)
    BY <2>1 DEF Compute, RpcReturn, ThreadReturn
  <2>2. CASE ThreadRpc(c)
    BY <2>2 DEF ThreadRpc, SaveState
  <2>3. QED
    BY <1>3, <2>1, <2>2 DEF ThreadStep
<1>4. ASSUME NEW c \in CPU, ExceptionStep(c) PROVE GuestInv'
  BY <1>4 DEF ExceptionStep, IrqEntry, IrqSave, SaveState, FiqEntry, FiqWinEnd, Secure
<1>5. CASE UNCHANGED vars
  BY <1>5 DEF vars
<1>6. QED
  BY <1>1, <1>2, <1>3, <1>4, <1>5 DEF Next

(* A context that can be resumed stays so, and only such a context is suspended*)
(* or taken for a resumption.                                                 *)
LEMMA RegsStep ==
  ASSUME ControlInv, NEW c \in CPU,
         NwStep(c) \/ HandlerStep(c) \/ ThreadStep(c) \/ ExceptionStep(c)
  PROVE  /\ \A t \in Thread :
               /\ RegsOK(t) => RegsOK(t)'
               /\ state[t] # "SUSPENDED" /\ state'[t] = "SUSPENDED" => RegsOK(t)'
         /\ pc'[c] = "resume_run" => pc[c] # "resume_run" /\ RegsOK(n[c])'
<1> USE ThreadFacts DEF ControlInv, TypeOK, RegsOK, At, NextPc, threadVars
<1>1. CASE NwStep(c)
  BY <1>1 DEF NwStep, NwCall, NwReturn, FiqNsec, EnterSecure
<1>2. CASE HandlerStep(c)
  <2>1. CASE RecvFiq(c) \/ RecvFast(c) \/ RecvStd(c)
    BY <2>1 DEF RecvFiq, RecvFast, RecvStd, Halt
  <2>2. CASE LockGlobal(c)
    BY <2>2 DEF LockGlobal, LockedPc
  <2>3. CASE AllocCheck(c) \/ AllocFull(c) \/ ResumeCheck(c) \/ ResumeFail(c)
    BY <2>3 DEF AllocCheck, AllocFull, ResumeCheck, ResumeFail, CheckActive, Refuse
  <2>4. CASE AllocTake(c)
    BY <2>4 DEF AllocTake, Take
  <2>5. CASE ResumeTake(c)
    <3>1. /\ r[c].a3 \in Thread /\ RegsOK(r[c].a3)
          /\ Take(c, r[c].a3, "resume_run")
      BY <2>5 DEF ResumeTake, MayResume, RegsInv
    <3>2. pc[c] # "resume_run"
      BY <2>5 DEF ResumeTake
    <3>3. QED
      BY <3>1, <3>2 DEF Take
  <2>6. CASE AllocRun(c)
    <3>1. n[c] \in Thread
      BY <2>6 DEF AllocRun, CoreInv, CoreControl, NPc
    <3>2. QED
      BY <2>6, <3>1 DEF AllocRun, LoadContext, ThreadPc
  <2>7. CASE ResumeRun(c)
    <3>1. /\ n[c] \in Thread
          /\ ReturnedContext(c, n[c]).pc \in ThreadPc
          /\ ReturnedContext(c, n[c]).cpsr = {}
      BY <2>7, ResumeContext DEF ResumeRun
    <3>2. ReturnedContext(c, n[c]).pc # "resume_run"
      BY <3>1 DEF ThreadPc
    <3>3. QED
      BY <2>7, <3>1, <3>2 DEF ResumeRun, LoadContext
  <2>8. CASE SuspendCs(c)
    <3>1. CASE RunsActive(c)
      <4>1. curr_thread[c] \in Thread
        BY <3>1 DEF RunsActive
      <4>2. at[c].cpsr = {} /\ at[c].pc \in ThreadPc
        BY <2>8 DEF SuspendCs, CoreInv, CoreControl, EffPc
      <4>3. regs[curr_thread[c]] \in SavedRegs
        BY <4>1
      <4>4. /\ [regs[curr_thread[c]] EXCEPT !.cpsr = at[c].cpsr, !.pc = at[c].pc].cpsr = {}
            /\ [regs[curr_thread[c]] EXCEPT !.cpsr = at[c].cpsr, !.pc = at[c].pc].pc \in ThreadPc
        BY <4>2, <4>3 DEF SavedRegs
      <4>5. SuspendAs(c, "SUSPENDED", NoThread)
        BY <2>8, <3>1 DEF SuspendCs, Suspend
      <4>6. pc'[c] # "resume_run"
        BY <4>5 DEF SuspendAs
      <4>7. QED
        BY <4>1, <4>4, <4>5, <4>6 DEF SuspendAs
    <3>2. CASE ~RunsActive(c)
      BY <2>8, <3>2 DEF SuspendCs, Halt
    <3>3. QED
      BY <3>1, <3>2
  <2>9. CASE FreeCs(c)
    BY <2>9 DEF FreeCs, Free, Halt, RunsActive
  <2>10. CASE RpcLoad(c) \/ SmcExit(c)
    BY <2>10 DEF RpcLoad, SmcExit
  <2>11. CASE FiqReturn(c)
    BY <2>11 DEF FiqReturn, CoreInv, CoreControl, ThreadPc
  <2>12. QED
    BY <1>2, <2>1, <2>2, <2>3, <2>4, <2>5, <2>6, <2>7, <2>8, <2>9, <2>10, <2>11
    DEF HandlerStep
<1> DEFINE Saved == /\ curr_thread[c] \in Thread
                    /\ regs' = [regs EXCEPT ![curr_thread[c]].a1 = r[c].a1]
<1>3. ASSUME state' = state, pc'[c] # "resume_run", regs' = regs \/ Saved
      PROVE  /\ \A t \in Thread :
                   /\ RegsOK(t) => RegsOK(t)'
                   /\ state[t] # "SUSPENDED" /\ state'[t] = "SUSPENDED" => RegsOK(t)'
             /\ pc'[c] = "resume_run" => pc[c] # "resume_run" /\ RegsOK(n[c])'
  <2>1. r[c].a1 \in Val /\ \A t \in Thread : regs[t] \in SavedRegs
    BY ArgsFacts
  <2>2. CASE Saved
    <3>1. /\ [regs[curr_thread[c]] EXCEPT !.a1 = r[c].a1].pc = regs[curr_thread[c]].pc
          /\ [regs[curr_thread[c]] EXCEPT !.a1 = r[c].a1].cpsr = regs[curr_thread[c]].cpsr
      BY <2>1, <2>2, RegsFacts
    <3>2. QED
      BY <1>3, <2>2, <3>1
  <2>3. CASE regs' = regs
    BY <1>3, <2>3
  <2>4. QED
    BY <1>3, <2>2, <2>3
<1>4. CASE ThreadStep(c)
  BY <1>3, <1>4 DEF ThreadStep, Compute, ThreadRpc, SaveState, RpcReturn, ThreadReturn
<1>5. CASE ExceptionStep(c)
  BY <1>3, <1>5 DEF ExceptionStep, IrqEntry, IrqSave, SaveState, FiqEntry, FiqWinEnd
<1>6. QED
  BY <1>1, <1>2, <1>4, <1>5

LEMMA NextRegs == ASSUME ControlInv, [Next]_vars PROVE RegsInv'
<1>1. ASSUME NEW c \in CPU,
             NwStep(c) \/ HandlerStep(c) \/ ThreadStep(c) \/ ExceptionStep(c)
      PROVE  RegsInv'
  <2>1. ASSUME NEW t \in Thread, state'[t] = "SUSPENDED" PROVE RegsOK(t)'
    BY <1>1, <2>1, RegsStep DEF ControlInv, RegsInv
  <2>2. ASSUME NEW d \in CPU, pc'[d] = "resume_run" PROVE RegsOK(n[d])'
    <3>1. CASE d = c
      BY <1>1, <2>2, <3>1, RegsStep
    <3>2. CASE d # c
      <4>1. pc[d] = "resume_run" /\ n'[d] = n[d]
        BY <1>1, <2>2, <3>2, Elsewhere DEF ControlInv, CoreVars
      <4>2. n[d] \in Thread /\ RegsOK(n[d])
        BY <4>1 DEF ControlInv, TypeOK, CoreInv, CoreControl, NPc, RegsInv
      <4>3. \A t \in Thread : RegsOK(t) => RegsOK(t)'
        BY <1>1, RegsStep
      <4>4. QED
        BY <4>1, <4>2, <4>3 DEF RegsOK
    <3>3. QED
      BY <3>1, <3>2
  <2>3. QED
    BY <2>1, <2>2 DEF RegsInv
<1>2. CASE UNCHANGED vars
  BY <1>2 DEF vars, ControlInv, RegsInv, RegsOK
<1>3. QED
  BY <1>1, <1>2 DEF Next

THEOREM ControlInvariant == Spec => []ControlInv
<1>1. ControlInv /\ [Next]_vars => ControlInv'
  BY NextType, NextCore, NextRegs, NextGuest DEF ControlInv
<1>2. QED
  BY InitControl, <1>1, PTL DEF Spec

\* The tables of the scheduler and the registers of every core keep their types.
THEOREM TypeCorrect == Spec => []TypeOK
<1>1. ControlInv => TypeOK
  BY DEF ControlInv
<1>2. QED
  BY ControlInvariant, <1>1, PTL

\* No FIQ arrives while the interrupted code has a frame on the stack it would use.
THEOREM TmpStack == Spec => []TmpStackExclusive
<1>1. ControlInv => TmpStackExclusive
  BY DEF ControlInv, CoreInv, CoreControl, TmpStackExclusive, OnTmpStack, ThreadPc
<1>2. QED
  BY ControlInvariant, <1>1, PTL

\* A thread runs with IRQ and FIQ unmasked, however often it was suspended.
THEOREM Unmasked == Spec => []ThreadUnmasked
<1>1. ControlInv => ThreadUnmasked
  BY DEF ControlInv, CoreInv, CoreControl, MaskOf, ThreadUnmasked
<1>2. QED
  BY ControlInvariant, <1>1, PTL

--------------------------------------------------------------------------------
(* The lock and the threads.                                                  *)

CriticalPc == {"alloc_check", "alloc_take", "resume_check", "resume_take",
               "suspend_cs", "free_cs"}
TakePc     == {"alloc_take", "resume_take"}

LockInv ==
    /\ \A c \in CPU : pc[c] \in CriticalPc => lock
    /\ \A c, d \in CPU : pc[c] \in CriticalPc /\ pc[d] \in CriticalPc => c = d

(* What have_one_active_thread() said is still true when it is acted upon.    *)
CheckInv == \A c \in CPU : pc[c] \in TakePc => ~HaveOneActive

HoldInv ==
    /\ \A t \in Thread : state[t] = "ACTIVE" => \E c \in CPU : Holds(c) = t
    /\ \A c \in CPU : Holds(c) # NoThread => state[Holds(c)] = "ACTIVE"
    /\ \A c, d \in CPU : Holds(c) # NoThread /\ Holds(c) = Holds(d) => c = d

SchedInv == LockInv /\ CheckInv /\ HoldInv /\ OneActive

(* What a step of core c does to the lock.                                    *)
Outside(c) == lock' = lock /\ (pc'[c] \in CriticalPc => pc[c] \in CriticalPc)
Acquires(c) == ~lock /\ lock'
Releases(c) == pc[c] \in CriticalPc /\ pc'[c] \notin CriticalPc

LEMMA LockStep ==
  ASSUME ControlInv, NEW c \in CPU,
         NwStep(c) \/ HandlerStep(c) \/ ThreadStep(c) \/ ExceptionStep(c)
  PROVE  Outside(c) \/ Acquires(c) \/ Releases(c)
<1> USE DEF Outside, Acquires, Releases, CriticalPc, ControlInv, TypeOK, At, NextPc, threadVars
<1>1. CASE NwStep(c)
  BY <1>1 DEF NwStep, NwCall, NwReturn, FiqNsec, EnterSecure
<1>2. CASE HandlerStep(c)
  <2>1. CASE RecvFiq(c) \/ RecvFast(c) \/ RecvStd(c)
    BY <2>1 DEF RecvFiq, RecvFast, RecvStd, Halt
  <2>2. CASE LockGlobal(c)
    BY <2>2 DEF LockGlobal
  <2>3. CASE AllocCheck(c) \/ ResumeCheck(c)
    BY <2>3 DEF AllocCheck, ResumeCheck, CheckActive, Refuse
  <2>4. CASE AllocFull(c) \/ ResumeFail(c)
    BY <2>4 DEF AllocFull, ResumeFail, Refuse
  <2>5. CASE AllocTake(c) \/ ResumeTake(c)
    BY <2>5 DEF AllocTake, ResumeTake, Take
  <2>6. CASE AllocRun(c)
    BY <2>6 DEF AllocRun, LoadContext
  <2>7. CASE ResumeRun(c)
    <3>1. ReturnedContext(c, n[c]).pc \in ThreadPc
      BY <2>7, ResumeContext DEF ResumeRun
    <3>2. QED
      BY <2>7, <3>1 DEF ResumeRun, LoadContext, ThreadPc
  <2>8. CASE SuspendCs(c)
    BY <2>8 DEF SuspendCs, Suspend, SuspendAs, Halt
  <2>9. CASE FreeCs(c)
    BY <2>9 DEF FreeCs, Free, Halt
  <2>10. CASE RpcLoad(c) \/ SmcExit(c)
    BY <2>10 DEF RpcLoad, SmcExit
  <2>11. CASE FiqReturn(c)
    BY <2>11 DEF FiqReturn, CoreInv, CoreControl, ThreadPc
  <2>12. QED
    BY <1>2, <2>1, <2>2, <2>3, <2>4, <2>5, <2>6, <2>7, <2>8, <2>9, <2>10, <2>11
    DEF HandlerStep
<1>3. CASE ThreadStep(c)
  BY <1>3 DEF ThreadStep, Compute, ThreadRpc, SaveState, RpcReturn, ThreadReturn
<1>4. CASE ExceptionStep(c)
  BY <1>4 DEF ExceptionStep, IrqEntry, IrqSave, SaveState, FiqEntry, FiqWinEnd
<1>5. QED
  BY <1>1, <1>2, <1>3, <1>4

(* What a step of core c does to the threads: nothing, or it takes one when    *)
(* none is active, or it gives up its own; the last two with the lock held.    *)
Calm(c)    == state' = state /\ Holds(c)' = Holds(c)
Takes(c, t) ==
    /\ pc[c] \in TakePc
    /\ Holds(c) = NoThread
    /\ state' = [state EXCEPT ![t] = "ACTIVE"]
    /\ Holds(c)' = t
GivesUp(c, t) ==
    /\ pc[c] \in {"suspend_cs", "free_cs"}
    /\ Holds(c) = t
    /\ \E s \in {"FREE", "SUSPENDED"} : state' = [state EXCEPT ![t] = s]
    /\ Holds(c)' = NoThread

LEMMA StateStep ==
  ASSUME ControlInv, NEW c \in CPU,
         NwStep(c) \/ HandlerStep(c) \/ ThreadStep(c) \/ ExceptionStep(c)
  PROVE  Calm(c) \/ \E t \in Thread : Takes(c, t) \/ GivesUp(c, t)
<1> USE ThreadFacts DEF Calm, Holds, TakePc, ControlInv, TypeOK, At, NextPc, threadVars
<1>1. CASE NwStep(c)
  BY <1>1 DEF NwStep, NwCall, NwReturn, FiqNsec, EnterSecure
<1>2. CASE HandlerStep(c)
  <2>1. CASE RecvFiq(c) \/ RecvFast(c) \/ RecvStd(c)
    BY <2>1 DEF RecvFiq, RecvFast, RecvStd, Halt
  <2>2. CASE LockGlobal(c)
    BY <2>2 DEF LockGlobal, LockedPc
  <2>3. CASE AllocCheck(c) \/ ResumeCheck(c)
    BY <2>3 DEF AllocCheck, ResumeCheck, CheckActive, Refuse
  <2>4. CASE AllocFull(c) \/ ResumeFail(c)
    BY <2>4 DEF AllocFull, ResumeFail, Refuse
  <2>5. CASE AllocTake(c)
    <3>1. PICK t \in Thread : Take(c, t, "alloc_run")
      BY <2>5 DEF AllocTake
    <3>2. pc[c] = "alloc_take" /\ curr_thread[c] = NoThread
      BY <2>5 DEF AllocTake, CoreInv, CoreControl, EffPc, RunPc, ThreadPc
    <3>3. Takes(c, t)
      BY <3>1, <3>2 DEF Take, Takes
    <3>4. QED
      BY <3>3
  <2>6. CASE ResumeTake(c)
    <3>1. r[c].a3 \in Thread /\ Take(c, r[c].a3, "resume_run")
      BY <2>6 DEF ResumeTake, MayResume
    <3>2. pc[c] = "resume_take" /\ curr_thread[c] = NoThread
      BY <2>6 DEF ResumeTake, CoreInv, CoreControl, EffPc, RunPc, ThreadPc
    <3>3. Takes(c, r[c].a3)
      BY <3>1, <3>2 DEF Take, Takes
    <3>4. QED
      BY <3>1, <3>3
  <2>7. CASE AllocRun(c)
    BY <2>7 DEF AllocRun, LoadContext
  <2>8. CASE ResumeRun(c)
    <3>1. ReturnedContext(c, n[c]).pc \in ThreadPc
      BY <2>8, ResumeContext DEF ResumeRun
    <3>2. QED
      BY <2>8, <3>1 DEF ResumeRun, LoadContext, ThreadPc
  <2>9. CASE SuspendCs(c)
    <3>1. CASE RunsActive(c)
      <4>1. SuspendAs(c, "SUSPENDED", NoThread) /\ pc[c] = "suspend_cs"
        BY <2>9, <3>1 DEF SuspendCs, Suspend
      <4>2. curr_thread[c] \in Thread
        BY <3>1 DEF RunsActive
      <4>3. GivesUp(c, curr_thread[c])
        BY <4>1, <4>2 DEF SuspendAs, GivesUp
      <4>4. QED
        BY <4>2, <4>3
    <3>2. CASE ~RunsActive(c)
      BY <2>9, <3>2 DEF SuspendCs, Halt
    <3>3. QED
      BY <3>1, <3>2
  <2>10. CASE FreeCs(c)
    <3>1. CASE RunsActive(c)
      <4>1. Free(c) /\ pc[c] = "free_cs"
        BY <2>10, <3>1 DEF FreeCs
      <4>2. curr_thread[c] \in Thread
        BY <3>1 DEF RunsActive
      <4>3. GivesUp(c, curr_thread[c])
        BY <4>1, <4>2 DEF Free, GivesUp
      <4>4. QED
        BY <4>2, <4>3
    <3>2. CASE ~RunsActive(c)
      BY <2>10, <3>2 DEF FreeCs, Halt
    <3>3. QED
      BY <3>1, <3>2
  <2>11. CASE RpcLoad(c) \/ SmcExit(c)
    BY <2>11 DEF RpcLoad, SmcExit
  <2>12. CASE FiqReturn(c)
    BY <2>12 DEF FiqReturn, CoreInv, CoreControl, ThreadPc
  <2>13. QED
    BY <1>2, <2>1, <2>2, <2>3, <2>4, <2>5, <2>6, <2>7, <2>8, <2>9, <2>10, <2>11, <2>12
    DEF HandlerStep
<1>3. CASE ThreadStep(c)
  BY <1>3 DEF ThreadStep, Compute, ThreadRpc, SaveState, RpcReturn, ThreadReturn
<1>4. CASE ExceptionStep(c)
  BY <1>4, UnmaskedPc
  DEF ExceptionStep, IrqEntry, IrqSave, SaveState, FiqEntry, FiqWinEnd, ThreadPc
<1>5. QED
  BY <1>1, <1>2, <1>3, <1>4

LEMMA CheckStep ==
  ASSUME ControlInv, NEW c \in CPU, pc'[c] \in TakePc,
         NwStep(c) \/ HandlerStep(c) \/ ThreadStep(c) \/ ExceptionStep(c)
  PROVE  ~HaveOneActive /\ state' = state
<1> USE DEF TakePc, ControlInv, TypeOK, At, NextPc, threadVars
<1>1. CASE NwStep(c)
  BY <1>1 DEF NwStep, NwCall, NwReturn, FiqNsec, EnterSecure
<1>2. CASE HandlerStep(c)
  <2>1. CASE RecvFiq(c) \/ RecvFast(c) \/ RecvStd(c)
    BY <2>1 DEF RecvFiq, RecvFast, RecvStd, Halt
  <2>2. CASE LockGlobal(c)
    BY <2>2 DEF LockGlobal, LockedPc
  <2>3. CASE AllocCheck(c) \/ ResumeCheck(c)
    BY <2>3 DEF AllocCheck, ResumeCheck, CheckActive, Refuse
  <2>4. CASE AllocFull(c) \/ ResumeFail(c)
    BY <2>4 DEF AllocFull, ResumeFail, Refuse
  <2>5. CASE AllocTake(c) \/ ResumeTake(c)
    BY <2>5 DEF AllocTake, ResumeTake, Take
  <2>6. CASE AllocRun(c)
    BY <2>6 DEF AllocRun, LoadContext
  <2>7. CASE ResumeRun(c)
    <3>1. ReturnedContext(c, n[c]).pc \in ThreadPc
      BY <2>7, ResumeContext DEF ResumeRun
    <3>2. QED
      BY <2>7, <3>1 DEF ResumeRun, LoadContext, ThreadPc
  <2>8. CASE SuspendCs(c) \/ FreeCs(c)
    BY <2>8 DEF SuspendCs, Suspend, SuspendAs, FreeCs, Free, Halt
  <2>9. CASE RpcLoad(c) \/ SmcExit(c)
    BY <2>9 DEF RpcLoad, SmcExit
  <2>10. CASE FiqReturn(c)
    BY <2>10 DEF FiqReturn, CoreInv, CoreControl, ThreadPc
  <2>11. QED
    BY <1>2, <2>1, <2>2, <2>3, <2>4, <2>5, <2>6, <2>7, <2>8, <2>9, <2>10
    DEF HandlerStep
<1>3. CASE ThreadStep(c)
  BY <1>3, UnmaskedPc
  DEF ThreadStep, Compute, ThreadRpc, SaveState, RpcReturn, ThreadReturn
<1>4. CASE ExceptionStep(c)
  BY <1>4 DEF ExceptionStep, IrqEntry, IrqSave, SaveState, FiqEntry, FiqWinEnd
<1>5. QED
  BY <1>1, <1>2, <1>3, <1>4

LEMMA InitSched == Init => SchedInv
  BY ThreadFacts DEF Init, SchedInv, LockInv, CheckInv, HoldInv, OneActive, CriticalPc, TakePc,
     Holds, HaveOneActive

LEMMA NextSched == ASSUME ControlInv, SchedInv, [Next]_vars PROVE SchedInv'
<1>1. ASSUME NEW c \in CPU,
             NwStep(c) \/ HandlerStep(c) \/ ThreadStep(c) \/ ExceptionStep(c)
      PROVE  SchedInv'
  <2>1. \A d \in CPU \ {c} : pc'[d] = pc[d] /\ Holds(d)' = Holds(d)
    BY <1>1, Elsewhere DEF ControlInv, CoreVars, Holds
  <2>2. LockInv'
    <3>1. CASE Outside(c)
      BY <2>1, <3>1 DEF SchedInv, LockInv, Outside
    <3>2. CASE Acquires(c)
      <4>1. \A d \in CPU : pc[d] \notin CriticalPc
        BY <3>2 DEF SchedInv, LockInv, Acquires
      <4>2. QED
        BY <2>1, <3>2, <4>1 DEF LockInv, Acquires
    <3>3. CASE Releases(c)
      <4>1. \A d \in CPU : pc'[d] \notin CriticalPc
        BY <2>1, <3>3 DEF SchedInv, LockInv, Releases
      <4>2. QED
        BY <4>1 DEF LockInv
    <3>4. QED
      BY <1>1, <3>1, <3>2, <3>3, LockStep
  <2>3. CheckInv'
    <3> SUFFICES ASSUME NEW d \in CPU, pc'[d] \in TakePc PROVE ~HaveOneActive'
      BY DEF CheckInv
    <3>1. CASE d = c
      BY <1>1, <3>1, CheckStep DEF HaveOneActive
    <3>2. CASE d # c
      <4>1. pc[d] \in TakePc /\ ~HaveOneActive
        BY <2>1, <3>2 DEF SchedInv, CheckInv
      <4>2. pc[c] \notin CriticalPc
        BY <3>2, <4>1 DEF SchedInv, LockInv, CriticalPc, TakePc
      <4>3. state' = state
        BY <1>1, <4>2, StateStep DEF Calm, Takes, GivesUp, CriticalPc, TakePc
      <4>4. QED
        BY <4>1, <4>3 DEF HaveOneActive
    <3>3. QED
      BY <3>1, <3>2
  <2>4. HoldInv' /\ OneActive'
    <3>1. CASE Calm(c)
      <4>1. \A d \in CPU : Holds(d)' = Holds(d)
        BY <2>1, <3>1 DEF Calm
      <4>2. QED
        BY <3>1, <4>1 DEF SchedInv, HoldInv, OneActive, Calm
    <3>2. ASSUME NEW t \in Thread, Takes(c, t) PROVE HoldInv' /\ OneActive'
      <4>1. \A u \in Thread : state[u] # "ACTIVE"
        BY <3>2 DEF SchedInv, CheckInv, HaveOneActive, Takes
      <4>2. \A d \in CPU : Holds(d) = NoThread
        <5>1. \A d \in CPU : Holds(d) \in Thread \cup {NoThread}
          BY DEF ControlInv, TypeOK, Holds
        <5>2. QED
          BY <4>1, <5>1 DEF SchedInv, HoldInv
      <4>3. \A u \in Thread : state'[u] = "ACTIVE" <=> u = t
        BY <3>2, <4>1 DEF Takes, ControlInv, TypeOK
      <4>4. Holds(c)' = t /\ \A d \in CPU \ {c} : Holds(d)' = NoThread
        BY <2>1, <3>2, <4>2 DEF Takes
      <4>5. QED
        BY <4>3, <4>4, ThreadFacts DEF HoldInv, OneActive
    <3>3. ASSUME NEW t \in Thread, GivesUp(c, t) PROVE HoldInv' /\ OneActive'
      <4>1. state[t] = "ACTIVE"
        BY <3>3, ThreadFacts DEF SchedInv, HoldInv, GivesUp
      <4>2. \A u \in Thread : state'[u] # "ACTIVE"
        BY <3>3, <4>1 DEF SchedInv, OneActive, GivesUp, ControlInv, TypeOK
      <4>3. \A d \in CPU : Holds(d)' = NoThread
        <5>1. ASSUME NEW d \in CPU \ {c} PROVE Holds(d) = NoThread
          <6>1. Holds(d) \in Thread \cup {NoThread}
            BY DEF ControlInv, TypeOK, Holds
          <6>2. QED
            BY <3>3, <4>1, <6>1, ThreadFacts DEF SchedInv, HoldInv, OneActive, GivesUp
        <5>2. QED
          BY <2>1, <3>3, <5>1 DEF GivesUp
      <4>4. QED
        BY <4>2, <4>3, ThreadFacts DEF HoldInv, OneActive
    <3>4. QED
      BY <1>1, <3>1, <3>2, <3>3, StateStep
  <2>5. QED
    BY <2>2, <2>3, <2>4 DEF SchedInv
<1>2. CASE UNCHANGED vars
  BY <1>2 DEF vars, SchedInv, LockInv, CheckInv, HoldInv, OneActive, Holds, HaveOneActive
<1>3. QED
  BY <1>1, <1>2 DEF Next

THEOREM SchedInvariant == Spec => []SchedInv
<1>1. ControlInv /\ SchedInv /\ [Next]_vars => SchedInv'
  BY NextSched
<1>2. QED
  BY InitSched, ControlInvariant, <1>1, PTL DEF Spec

\* At most one thread is active in the whole system, whatever the non-secure world
\* calls and however the cores interleave.
THEOREM OneActiveHolds == Spec => []OneActive
<1>1. SchedInv => OneActive
  BY DEF SchedInv
<1>2. QED
  BY SchedInvariant, <1>1, PTL

\* The active thread is on exactly one core, and no core gives up a thread, or goes to
\* the non-secure world, without releasing it.
THEOREM ActiveIsRunHolds == Spec => []ActiveIsRun
<1>1. ControlInv /\ SchedInv => ActiveIsRun
  BY DEF ControlInv, SchedInv, HoldInv, ActiveIsRun, CoreInv, CoreControl, EffPc, RunPc,
     ThreadPc, Holds
<1>2. QED
  BY ControlInvariant, SchedInvariant, <1>1, PTL

--------------------------------------------------------------------------------
(* The assertions of thread.c.  A fast call that makes an RPC does fail one    *)
(* (run fast_rpc); no other call does.                                         *)

NoInvoke == \A c \in CPU : r[c].a0 # "FASTCALL_INVOKE"

LEMMA CallsFacts ==
  /\ NoArgs.a0 # "FASTCALL_INVOKE"
  /\ \A v : [NoArgs EXCEPT !.a1 = v].a0 # "FASTCALL_INVOKE"
  /\ \A t : /\ [NoArgs EXCEPT !.a0 = "RPC", !.a3 = t].a0 # "FASTCALL_INVOKE"
            /\ [NoArgs EXCEPT !.a0 = "RPC_IRQ", !.a3 = t].a0 # "FASTCALL_INVOKE"
  /\ [NoArgs EXCEPT !.a0 = "HANDLE_FIQ"].a0 # "FASTCALL_INVOKE"
  /\ \A x \in Args : /\ [x EXCEPT !.a0 = "OK"].a0 # "FASTCALL_INVOKE"
                     /\ \A v : [x EXCEPT !.a1 = v].a0 = x.a0
  /\ \A c \in CPU, a0 \in {"EBUSY", "ERESUME"} : Refused(c, a0).a0 # "FASTCALL_INVOKE"
  BY DEF NoArgs, Args, Refused

LEMMA AssertStep ==
  ASSUME "FASTCALL_INVOKE" \notin Fn, ControlInv, SchedInv, NoInvoke, NoAssertFails,
         NEW c \in CPU, NwStep(c) \/ HandlerStep(c) \/ ThreadStep(c) \/ ExceptionStep(c)
  PROVE  r'[c].a0 # "FASTCALL_INVOKE" /\ pc'[c] # "halt"
<1> USE CallsFacts, ThreadFacts
    DEF NoInvoke, NoAssertFails, ControlInv, TypeOK, At, NextPc, threadVars
<1> DEFINE curr == curr_thread[c]
<1>run. ASSUME pc[c] \in ThreadPc \cup {"irq", "suspend_cs", "free_cs"}
        PROVE  curr # NoThread /\ RunsActive(c)
  <2>1. curr # NoThread /\ Holds(c) = curr
    BY <1>run DEF CoreInv, CoreControl, EffPc, RunPc, ThreadPc, Holds
  <2>2. QED
    BY <2>1 DEF SchedInv, HoldInv, RunsActive
<1>1. CASE NwStep(c)
  <2>1. ASSUME NEW args, args.a0 # "FASTCALL_INVOKE", EnterSecure(c, args)
        PROVE  r'[c].a0 # "FASTCALL_INVOKE" /\ pc'[c] # "halt"
    BY <2>1 DEF EnterSecure
  <2>2. ASSUME NEW f \in Fn, NEW v \in Val, NEW k \in Clnt, NwCall(c, f, v, k)
        PROVE  r'[c].a0 # "FASTCALL_INVOKE" /\ pc'[c] # "halt"
    BY <2>1, <2>2 DEF NwCall
  <2>3. ASSUME NEW t \in ThreadId, NEW v \in Val, NEW k \in Clnt, NwReturn(c, t, v, k)
        PROVE  r'[c].a0 # "FASTCALL_INVOKE" /\ pc'[c] # "halt"
    BY <2>1, <2>3 DEF NwReturn
  <2>4. CASE FiqNsec(c)
    BY <2>1, <2>4 DEF FiqNsec
  <2>5. QED
    BY <1>1, <2>2, <2>3, <2>4 DEF NwStep
<1>2. CASE HandlerStep(c)
  <2>1. CASE RecvFiq(c) \/ RecvFast(c)
    BY <2>1 DEF RecvFiq, RecvFast
  <2>2. CASE RecvStd(c)
    <3>1. curr = NoThread
      BY <2>2 DEF RecvStd, CoreInv, CoreControl, EffPc, RunPc, ThreadPc
    <3>2. QED
      BY <2>2, <3>1 DEF RecvStd
  <2>3. CASE LockGlobal(c)
    BY <2>3 DEF LockGlobal, LockedPc
  <2>4. CASE AllocCheck(c) \/ ResumeCheck(c)
    BY <2>4 DEF AllocCheck, ResumeCheck, CheckActive, Refuse
  <2>5. CASE AllocFull(c) \/ ResumeFail(c)
    BY <2>5 DEF AllocFull, ResumeFail, Refuse
  <2>6. CASE AllocTake(c) \/ ResumeTake(c)
    BY <2>6 DEF AllocTake, ResumeTake, Take
  <2>7. CASE AllocRun(c)
    BY <2>7 DEF AllocRun, LoadContext
  <2>8. CASE ResumeRun(c)
    <3>1. ReturnedContext(c, n[c]).pc \in ThreadPc
      BY <2>8, ResumeContext DEF ResumeRun
    <3>2. QED
      BY <2>8, <3>1 DEF ResumeRun, LoadContext, ThreadPc
  <2>9. CASE SuspendCs(c)
    <3>1. SuspendAs(c, "SUSPENDED", NoThread)
      BY <2>9, <1>run DEF SuspendCs, Suspend
    <3>2. QED
      BY <3>1 DEF SuspendAs
  <2>10. CASE FreeCs(c)
    <3>1. Free(c) /\ pc[c] # "halt"
      BY <2>10, <1>run DEF FreeCs
    <3>2. QED
      BY <3>1 DEF Free
  <2>11. CASE RpcLoad(c) \/ SmcExit(c)
    <3>1. CASE RpcLoad(c)
      BY <3>1 DEF RpcLoad
    <3>2. CASE SmcExit(c)
      BY <3>2 DEF SmcExit
    <3>3. QED
      BY <2>11, <3>1, <3>2
  <2>12. CASE FiqReturn(c)
    BY <2>12 DEF FiqReturn, CoreInv, CoreControl, ThreadPc
  <2>13. QED
    BY <1>2, <2>1, <2>2, <2>3, <2>4, <2>5, <2>6, <2>7, <2>8, <2>9, <2>10, <2>11, <2>12
    DEF HandlerStep
<1>3. CASE ThreadStep(c)
  <2>1. pc[c] \in ThreadPc
    BY <1>3 DEF ThreadStep, Compute, ThreadRpc, RpcReturn, ThreadReturn, ThreadPc
  <2>2. curr # NoThread
    BY <2>1, <1>run
  <2>3. ASSUME NEW v \in Val, Compute(c, v)
        PROVE  r'[c].a0 # "FASTCALL_INVOKE" /\ pc'[c] # "halt"
    BY <2>3 DEF Compute
  <2>4. CASE ThreadRpc(c)
    BY <2>2, <2>4 DEF ThreadRpc, SaveState
  <2>5. CASE RpcReturn(c) \/ ThreadReturn(c)
    BY <2>2, <2>5 DEF RpcReturn, ThreadReturn
  <2>6. QED
    BY <1>3, <2>3, <2>4, <2>5 DEF ThreadStep
<1>4. CASE ExceptionStep(c)
  <2>1. CASE IrqSave(c)
    BY <2>1, <1>run DEF IrqSave, SaveState
  <2>2. CASE IrqEntry(c) \/ FiqEntry(c) \/ FiqWinEnd(c)
    BY <2>2 DEF IrqEntry, FiqEntry, FiqWinEnd
  <2>3. QED
    BY <1>4, <2>1, <2>2 DEF ExceptionStep
<1>5. QED
  BY <1>1, <1>2, <1>3, <1>4

\* No assertion of thread.c fails, as long as no fast call makes an RPC.
THEOREM AssertionsHold ==
  ASSUME "FASTCALL_INVOKE" \notin Fn
  PROVE  Spec => []NoAssertFails
<1> DEFINE Inv == NoInvoke /\ NoAssertFails
<1>1. Init => Inv
  BY CallsFacts DEF Init, NoInvoke, NoAssertFails
<1>2. Inv /\ ControlInv /\ SchedInv /\ [Next]_vars => Inv'
  <2> SUFFICES ASSUME Inv, ControlInv, SchedInv, [Next]_vars PROVE Inv'
    OBVIOUS
  <2>1. ASSUME NEW c \in CPU,
               NwStep(c) \/ HandlerStep(c) \/ ThreadStep(c) \/ ExceptionStep(c)
        PROVE  Inv'
    <3>1. \A d \in CPU \ {c} : pc'[d] = pc[d] /\ r'[d] = r[d]
      BY <2>1, Elsewhere DEF ControlInv, CoreVars
    <3>2. r'[c].a0 # "FASTCALL_INVOKE" /\ pc'[c] # "halt"
      BY <2>1, AssertStep
    <3>3. QED
      BY <3>1, <3>2 DEF NoInvoke, NoAssertFails
  <2>2. CASE UNCHANGED vars
    BY <2>2 DEF vars, NoInvoke, NoAssertFails
  <2>3. QED
    BY <2>1, <2>2 DEF Next
<1>3. Inv => NoAssertFails
  OBVIOUS
<1>4. QED
  BY <1>1, <1>2, <1>3, ControlInvariant, SchedInvariant, PTL DEF Spec

--------------------------------------------------------------------------------
(* What threads compute with, and for whom.                                   *)

EntryPc == {"recv", "alloc", "alloc_check", "alloc_take", "alloc_run",
            "resume", "resume_check", "resume_take", "resume_run"}

(* Core c, at p, has thread t: what the thread must find is in its registers, *)
(* or in what it is about to load from the slot, or to save there.            *)
CoreData(c, t, p) ==
    /\ pc[c] \in EntryPc => r[c].a7 = guest[c]
    /\ t # NoThread => /\ live[t].a7 = guest[c]
                       /\ pc[c] # "alloc_run" => hyp_clnt_id[t] = guest[c]
    /\ p \in ThreadPc => live[t].a1 = r[c].a1 /\ live[t].pc = p
    /\ p = "irq" => live[t].a1 = r[c].a1 /\ live[t].pc = at[c].pc /\ ~at[c].copy
    /\ p \in {"suspend", "suspend_cs"} =>
         /\ live[t].a1 = IF at[c].copy THEN Await ELSE regs[t].a1
         /\ live[t].pc = at[c].pc
    /\ p = "alloc_run" => live[t].a1 = r[c].a1 /\ live[t].pc = "thread"
    /\ p = "resume_run" => /\ live[t].a1 = IF copy[t] THEN r[c].a1 ELSE regs[t].a1
                           /\ live[t].pc = regs[t].pc

CoreDataOK(c) == CoreData(c, Holds(c), EffPc(c))

(* The slot of a suspended thread has its client and, unless an answer is due,*)
(* its registers.                                                             *)
SlotData(t) == state[t] = "SUSPENDED" =>
    /\ hyp_clnt_id[t] = live[t].a7
    /\ live[t].a1 = IF copy[t] THEN Await ELSE regs[t].a1
    /\ live[t].pc = regs[t].pc

DataInv == (\A c \in CPU : CoreDataOK(c)) /\ (\A t \in Thread : SlotData(t))

Slot(t) == <<state[t], hyp_clnt_id[t], copy[t], regs[t], live[t]>>

(* A step of core c leaves the other cores' clients and all slots alone but   *)
(* those of the thread it has and of the thread it gets.                      *)
LEMMA DataFrame ==
  ASSUME ControlInv, NEW c \in CPU,
         NwStep(c) \/ HandlerStep(c) \/ ThreadStep(c) \/ ExceptionStep(c)
  PROVE  /\ \A d \in CPU \ {c} : guest'[d] = guest[d]
         /\ \A u \in Thread : u # Holds(c) /\ u # Holds(c)' => UNCHANGED Slot(u)
<1> USE ThreadFacts DEF Slot, Holds, ControlInv, TypeOK, At, NextPc, threadVars
<1>1. CASE NwStep(c)
  BY <1>1 DEF NwStep, NwCall, NwReturn, FiqNsec, EnterSecure
<1>2. CASE HandlerStep(c)
  <2>1. CASE RecvFiq(c) \/ RecvFast(c) \/ RecvStd(c) \/ LockGlobal(c)
    BY <2>1 DEF RecvFiq, RecvFast, RecvStd, Halt, LockGlobal
  <2>2. CASE AllocCheck(c) \/ AllocFull(c) \/ ResumeCheck(c) \/ ResumeFail(c)
    BY <2>2 DEF AllocCheck, AllocFull, ResumeCheck, ResumeFail, CheckActive, Refuse
  <2>3. CASE AllocTake(c)
    BY <2>3 DEF AllocTake, Take
  <2>4. CASE ResumeTake(c)
    BY <2>4 DEF ResumeTake, MayResume, Take
  <2>5. CASE AllocRun(c)
    BY <2>5 DEF AllocRun, LoadContext
  <2>6. CASE ResumeRun(c)
    BY <2>6 DEF ResumeRun, LoadContext
  <2>7. CASE SuspendCs(c)
    BY <2>7 DEF SuspendCs, Suspend, SuspendAs, Halt
  <2>8. CASE FreeCs(c)
    BY <2>8 DEF FreeCs, Free, Halt
  <2>9. CASE RpcLoad(c) \/ FiqReturn(c) \/ SmcExit(c)
    BY <2>9 DEF RpcLoad, FiqReturn, SmcExit
  <2> QED
    BY <1>2, <2>1, <2>2, <2>3, <2>4, <2>5, <2>6, <2>7, <2>8, <2>9 DEF HandlerStep
<1>3. CASE ThreadStep(c)
  <2>1. ASSUME NEW v \in Val, Compute(c, v)
        PROVE  /\ \A d \in CPU \ {c} : guest'[d] = guest[d]
               /\ \A u \in Thread : u # Holds(c) /\ u # Holds(c)' => UNCHANGED Slot(u)
    BY <2>1 DEF Compute
  <2>2. CASE ThreadRpc(c)
    BY <2>2 DEF ThreadRpc, SaveState
  <2>3. CASE RpcReturn(c) \/ ThreadReturn(c)
    BY <2>3 DEF RpcReturn, ThreadReturn
  <2> QED  BY <1>3, <2>1, <2>2, <2>3 DEF ThreadStep
<1>4. CASE ExceptionStep(c)
  BY <1>4 DEF ExceptionStep, IrqEntry, IrqSave, SaveState, FiqEntry, FiqWinEnd
<1> QED  BY <1>1, <1>2, <1>3, <1>4

(* The core that takes a step finds, or leaves, the thread's registers right. *)
LEMMA CoreDataStep ==
  ASSUME ControlInv, SchedInv, DataInv, NEW c \in CPU,
         NwStep(c) \/ HandlerStep(c) \/ ThreadStep(c) \/ ExceptionStep(c)
  PROVE  CoreDataOK(c)'
<1> USE ThreadFacts
    DEF CoreDataOK, CoreData, EntryPc, Holds, EffPc, RunPc, NPc, ThreadPc,
        ControlInv, CoreInv, CoreControl, TypeOK, At, NextPc, threadVars
<1>0. CoreDataOK(c)
  BY DEF DataInv
<1>1. CASE NwStep(c)
  <2>1. ASSUME NEW args, EnterSecure(c, args) PROVE CoreDataOK(c)'
    <3>1. pc'[c] = "recv" /\ r'[c] = args /\ guest'[c] = args.a7
      BY <2>1 DEF EnterSecure
    <3>2. Holds(c)' = NoThread
      BY <2>1, <3>1 DEF EnterSecure
    <3> QED  BY <3>1, <3>2
  <2> QED  BY <1>1, <2>1 DEF NwStep, NwCall, NwReturn, FiqNsec
<1>2. CASE HandlerStep(c)
  <2>1. CASE RecvFiq(c) \/ RecvFast(c)
    BY <1>0, <2>1 DEF RecvFiq, RecvFast
  <2>2. CASE RecvStd(c)
    BY <1>0, <2>2 DEF RecvStd, Halt
  <2>3. CASE LockGlobal(c)
    BY <1>0, <2>3 DEF LockGlobal, LockedPc
  <2>4. CASE AllocCheck(c) \/ ResumeCheck(c)
    BY <1>0, <2>4 DEF AllocCheck, ResumeCheck, CheckActive, Refuse
  <2>5. CASE AllocFull(c) \/ ResumeFail(c)
    BY <1>0, <2>5 DEF AllocFull, ResumeFail, Refuse
  <2>6. CASE AllocTake(c)
    <3>1. PICK t \in Thread :
            /\ Take(c, t, "alloc_run")
            /\ live' = [live EXCEPT ![t] = [a1 |-> r[c].a1, pc |-> "thread", a7 |-> guest[c]]]
      BY <2>6 DEF AllocTake
    <3>2. pc[c] = "alloc_take"
      BY <2>6 DEF AllocTake
    <3>3. /\ pc'[c] = "alloc_run" /\ n'[c] = t /\ r' = r /\ guest' = guest
          /\ live'[t] = [a1 |-> r[c].a1, pc |-> "thread", a7 |-> guest[c]]
      BY <3>1 DEF Take
    <3> QED  BY <1>0, <3>2, <3>3
  <2>7. CASE ResumeTake(c)
    <3> DEFINE t == r[c].a3
    <3>1. /\ t \in Thread /\ state[t] = "SUSPENDED" /\ hyp_clnt_id[t] = r[c].a7
          /\ Take(c, t, "resume_run") /\ pc[c] = "resume_take"
          /\ live' = [live EXCEPT ![t].a1 = IF @ = Await THEN r[c].a1 ELSE @]
      BY <2>7 DEF ResumeTake, MayResume
    <3> HIDE DEF t
    <3>2. /\ pc'[c] = "resume_run" /\ n'[c] = t
          /\ UNCHANGED <<r, guest, hyp_clnt_id, copy, regs>>
      BY <3>1 DEF Take
    <3>3. /\ live'[t].pc = live[t].pc /\ live'[t].a7 = live[t].a7
          /\ live'[t].a1 = IF live[t].a1 = Await THEN r[c].a1 ELSE live[t].a1
      BY <3>1 DEF Expected
    <3>4. regs[t].a1 # Await
      BY <3>1, ConstantsAssumption DEF SavedRegs, Await
    <3>5. SlotData(t)
      BY <3>1 DEF DataInv
    <3> QED  BY <1>0, <3>1, <3>2, <3>3, <3>4, <3>5 DEF SlotData
  <2>8. CASE AllocRun(c)
    BY <1>0, <2>8 DEF AllocRun, LoadContext, NoArgs
  <2>9. CASE ResumeRun(c)
    <3>1. /\ n[c] \in Thread /\ ReturnedContext(c, n[c]).pc \in ThreadPc
          /\ ReturnedContext(c, n[c]).pc = regs[n[c]].pc
          /\ ReturnedContext(c, n[c]).a1 = IF copy[n[c]] THEN r[c].a1 ELSE regs[n[c]].a1
      BY <2>9, ResumeContext DEF ResumeRun, ReturnedContext, SavedRegs
    <3> QED  BY <1>0, <2>9, <3>1 DEF ResumeRun, LoadContext, NoArgs
  <2>10. CASE SuspendCs(c)
    BY <1>0, <2>10 DEF SuspendCs, Suspend, SuspendAs, Halt
  <2>11. CASE FreeCs(c)
    BY <1>0, <2>11 DEF FreeCs, Free, Halt
  <2>12. CASE RpcLoad(c) \/ SmcExit(c)
    BY <1>0, <2>12 DEF RpcLoad, SmcExit
  <2>13. CASE FiqReturn(c)
    BY <1>0, <2>13 DEF FiqReturn
  <2> QED
    BY <1>2, <2>1, <2>2, <2>3, <2>4, <2>5, <2>6, <2>7, <2>8, <2>9, <2>10, <2>11, <2>12, <2>13
    DEF HandlerStep
<1>3. CASE ThreadStep(c)
  <2>1. ASSUME NEW v \in Val, Compute(c, v) PROVE CoreDataOK(c)'
    <3>1. curr_thread[c] \in Thread
      BY <2>1 DEF Compute
    <3> QED  BY <1>0, <2>1, <3>1 DEF Compute, Args, Expected
  <2>2. CASE ThreadRpc(c)
    BY <1>0, <2>2 DEF ThreadRpc, SaveState, Expected
  <2>3. CASE RpcReturn(c)
    <3>1. curr_thread[c] \in Thread
      BY <2>3 DEF RpcReturn
    <3> QED  BY <1>0, <2>3, <3>1 DEF RpcReturn, Expected
  <2>4. CASE ThreadReturn(c)
    BY <1>0, <2>4 DEF ThreadReturn
  <2> QED  BY <1>3, <2>1, <2>2, <2>3, <2>4 DEF ThreadStep
<1>4. CASE ExceptionStep(c)
  <2>1. CASE IrqEntry(c)
    BY <1>0, <2>1, UnmaskedPc DEF IrqEntry
  <2>2. CASE IrqSave(c)
    BY <1>0, <2>2 DEF IrqSave, SaveState, SavedRegs
  <2>3. CASE FiqEntry(c)
    BY <1>0, <2>3, UnmaskedPc DEF FiqEntry
  <2>4. CASE FiqWinEnd(c)
    BY <1>0, <2>4 DEF FiqWinEnd
  <2> QED  BY <1>4, <2>1, <2>2, <2>3, <2>4 DEF ExceptionStep
<1> QED  BY <1>1, <1>2, <1>3, <1>4

(* A thread that is suspended leaves in its slot what it must find again.     *)
LEMMA SlotDataStep ==
  ASSUME ControlInv, SchedInv, DataInv, NEW c \in CPU, NEW t \in Thread,
         Holds(c) = t, Holds(c)' # t,
         NwStep(c) \/ HandlerStep(c) \/ ThreadStep(c) \/ ExceptionStep(c)
  PROVE  SlotData(t)'
<1> USE ThreadFacts DEF ControlInv, TypeOK
<1>1. pc[c] \in {"suspend_cs", "free_cs"}
  BY StateStep DEF Calm, Takes, GivesUp
<1>2. curr_thread[c] = t
  BY <1>1 DEF Holds
<1>3. CASE pc[c] = "suspend_cs"
  <2>1. SuspendCs(c)
    BY <1>3 DEF NwStep, HandlerStep, ThreadStep, ExceptionStep, NwCall, NwReturn, FiqNsec,
       EnterSecure, At, RecvFiq, RecvFast, RecvStd, LockGlobal, LockedPc, AllocCheck,
       ResumeCheck, CheckActive, AllocFull, ResumeFail, AllocTake, ResumeTake, AllocRun,
       ResumeRun, RpcLoad, FreeCs, FiqReturn, SmcExit, Compute, ThreadRpc, RpcReturn,
       ThreadReturn, IrqEntry, IrqSave, FiqEntry, FiqWinEnd, CoreInv, CoreControl, MaskOf,
       ThreadPc, Both
  <2>2. Suspend(c)
    BY <1>3, <2>1 DEF SuspendCs, Halt, NextPc, Holds
  <2>3. /\ copy'[t] = at[c].copy /\ regs'[t].pc = at[c].pc /\ regs'[t].a1 = regs[t].a1
        /\ UNCHANGED <<hyp_clnt_id, live>>
    BY <1>2, <2>2 DEF Suspend, SuspendAs, SavedRegs
  <2> QED
    BY <1>2, <1>3, <2>3 DEF DataInv, CoreDataOK, CoreData, Holds, EffPc, SlotData
<1>4. CASE pc[c] = "free_cs"
  <2>1. FreeCs(c)
    BY <1>4 DEF NwStep, HandlerStep, ThreadStep, ExceptionStep, NwCall, NwReturn, FiqNsec,
       EnterSecure, At, RecvFiq, RecvFast, RecvStd, LockGlobal, LockedPc, AllocCheck,
       ResumeCheck, CheckActive, AllocFull, ResumeFail, AllocTake, ResumeTake, AllocRun,
       ResumeRun, RpcLoad, SuspendCs, FiqReturn, SmcExit, Compute, ThreadRpc, RpcReturn,
       ThreadReturn, IrqEntry, IrqSave, FiqEntry, FiqWinEnd, CoreInv, CoreControl, MaskOf,
       ThreadPc, Both
  <2>2. Free(c)
    BY <1>4, <2>1 DEF FreeCs, Halt, NextPc, Holds
  <2> QED  BY <1>2, <2>2 DEF Free, SlotData
<1> QED  BY <1>1, <1>3, <1>4

LEMMA InitData == Init => DataInv
  BY ThreadFacts
  DEF Init, DataInv, CoreDataOK, CoreData, SlotData, EntryPc, ThreadPc, Holds, EffPc

LEMMA NextData ==
  ASSUME ControlInv, ControlInv', SchedInv, SchedInv', DataInv, [Next]_vars PROVE DataInv'
<1>1. ASSUME NEW c \in CPU,
             NwStep(c) \/ HandlerStep(c) \/ ThreadStep(c) \/ ExceptionStep(c)
      PROVE  DataInv'
  <2>1. ASSUME NEW d \in CPU PROVE CoreDataOK(d)'
    <3>1. CASE d = c
      BY <1>1, <3>1, CoreDataStep
    <3>2. CASE d # c
      <4>1. UNCHANGED <<CoreVars(d), guest[d]>>
        BY <1>1, <3>2, Elsewhere, DataFrame DEF ControlInv
      <4>2. CoreDataOK(d) /\ Holds(d)' = Holds(d) /\ EffPc(d)' = EffPc(d)
        BY <4>1 DEF DataInv, CoreVars, Holds, EffPc
      <4>3. CASE Holds(d) = NoThread
        <5>1. EffPc(d) \notin ThreadPc \cup {"irq", "suspend", "suspend_cs", "alloc_run", "resume_run"}
              \/ pc[d] = "halt"
          BY <4>3 DEF ControlInv, CoreInv, CoreControl, Holds, EffPc, RunPc, NPc, ThreadPc
        <5>2. EffPc(d) \notin ThreadPc \cup {"irq", "suspend", "suspend_cs", "alloc_run", "resume_run"}
          BY <5>1 DEF EffPc, ThreadPc
        <5> QED  BY <4>1, <4>2, <4>3, <5>2 DEF CoreDataOK, CoreData, CoreVars
      <4>4. CASE Holds(d) # NoThread
        <5>1. Holds(d) \in Thread /\ Holds(d) # Holds(c)
          BY <3>2, <4>4 DEF ControlInv, TypeOK, Holds, SchedInv, HoldInv
        <5>2. Holds(d) # Holds(c)'
          BY <3>2, <4>2, <4>4 DEF SchedInv, HoldInv
        <5>3. PICK t \in Thread : t = Holds(d)
          BY <5>1
        <5>4. UNCHANGED <<hyp_clnt_id[t], copy[t], regs[t], live[t]>>
          BY <1>1, <4>2, <5>1, <5>2, <5>3, DataFrame DEF Slot
        <5>5. UNCHANGED <<pc[d], r[d], at[d], guest[d]>>
          BY <4>1 DEF CoreVars
        <5> QED  BY <4>2, <5>3, <5>4, <5>5 DEF CoreDataOK, CoreData
      <4> QED  BY <4>3, <4>4
    <3> QED  BY <3>1, <3>2
  <2>2. ASSUME NEW t \in Thread PROVE SlotData(t)'
    <3>1. CASE t # Holds(c) /\ t # Holds(c)'
      <4>1. SlotData(t) /\ UNCHANGED Slot(t)
        BY <1>1, <3>1, DataFrame DEF DataInv
      <4> QED  BY <4>1 DEF SlotData, Slot
    <3>2. CASE t = Holds(c)'
      BY <3>2, ThreadFacts DEF SchedInv, HoldInv, SlotData
    <3>3. CASE t = Holds(c) /\ t # Holds(c)'
      BY <1>1, <3>3, SlotDataStep
    <3> QED  BY <3>1, <3>2, <3>3
  <2> QED  BY <2>1, <2>2 DEF DataInv
<1>2. CASE UNCHANGED vars
  BY <1>2 DEF vars, DataInv, CoreDataOK, CoreData, SlotData, Holds, EffPc
<1> QED  BY <1>1, <1>2 DEF Next

THEOREM DataInvariant == Spec => []DataInv
<1>1. ControlInv /\ ControlInv' /\ SchedInv /\ SchedInv' /\ DataInv /\ [Next]_vars => DataInv'
  BY NextData
<1> QED  BY InitData, ControlInvariant, SchedInvariant, <1>1, PTL DEF Spec

\* A thread goes on where it was, with the registers it had but for the answer of an
\* RPC, after any interrupts, suspensions and moves between any number of cores.
THEOREM RegistersIntact == Spec => []RegsIntact
<1>1. ControlInv /\ DataInv => RegsIntact
  BY DEF ControlInv, DataInv, CoreDataOK, CoreData, RegsIntact, Holds, EffPc, ThreadPc
<1> QED  BY ControlInvariant, DataInvariant, <1>1, PTL

\* A thread works for the client that started it, whatever thread numbers and client
\* ids the non-secure world passes (thread.c:157).
THEOREM ClientsKept == Spec => []ThreadRunsForItsClient
<1>1. ControlInv /\ DataInv => ThreadRunsForItsClient
  BY ThreadFacts DEF ControlInv, CoreInv, CoreControl, DataInv, CoreDataOK, CoreData,
     ThreadRunsForItsClient, Holds, EffPc, RunPc, ThreadPc
<1> QED  BY ControlInvariant, DataInvariant, <1>1, PTL

--------------------------------------------------------------------------------
(* Refinement of ThreadPool.                                                  *)

PoolClient == [t \in Thread |-> live[t].a7]
PoolCore == [c \in CPU |-> IF Holds(c) = NoThread THEN <<>> ELSE <<Holds(c), guest[c]>>]

(* A core that has a thread keeps its client, and so does a thread in use.    *)
LEMMA ClientStep ==
  ASSUME ControlInv, NEW c \in CPU,
         NwStep(c) \/ HandlerStep(c) \/ ThreadStep(c) \/ ExceptionStep(c)
  PROVE  /\ Holds(c) # NoThread => guest'[c] = guest[c]
         /\ \A t \in Thread : state[t] # "FREE" => live'[t].a7 = live[t].a7
<1> USE ThreadFacts DEF Holds, ControlInv, TypeOK, At, NextPc, threadVars, Expected
<1> DEFINE Kept == \A t \in Thread : live'[t].a7 = live[t].a7
<1>1. CASE NwStep(c)
  BY <1>1 DEF NwStep, NwCall, NwReturn, FiqNsec, EnterSecure, CoreInv, CoreControl,
     EffPc, RunPc, ThreadPc
<1>2. CASE HandlerStep(c)
  <2>1. CASE RecvFiq(c) \/ RecvFast(c) \/ RecvStd(c) \/ LockGlobal(c)
    BY <2>1 DEF RecvFiq, RecvFast, RecvStd, Halt, LockGlobal
  <2>2. CASE AllocCheck(c) \/ AllocFull(c) \/ ResumeCheck(c) \/ ResumeFail(c)
    BY <2>2 DEF AllocCheck, AllocFull, ResumeCheck, ResumeFail, CheckActive, Refuse
  <2>3. CASE AllocTake(c)
    BY <2>3 DEF AllocTake, Take
  <2>4. CASE ResumeTake(c)
    BY <2>4 DEF ResumeTake, MayResume, Take
  <2>5. CASE AllocRun(c) \/ ResumeRun(c)
    BY <2>5 DEF AllocRun, ResumeRun
  <2>6. CASE SuspendCs(c)
    BY <2>6 DEF SuspendCs, Suspend, SuspendAs, Halt
  <2>7. CASE FreeCs(c)
    <3>1. guest' = guest /\ (live' = live \/ Free(c))
      BY <2>7 DEF FreeCs, Free, Halt
    <3>2. ASSUME Free(c) PROVE Kept
      <4>1. live' = [live EXCEPT ![curr_thread[c]].a1 = 0, ![curr_thread[c]].pc = "zero"]
        BY <3>2 DEF Free
      <4> QED  BY <4>1
    <3> QED  BY <3>1, <3>2
  <2>8. CASE RpcLoad(c) \/ FiqReturn(c)
    BY <2>8 DEF RpcLoad, FiqReturn
  <2>9. CASE SmcExit(c)
    BY <2>9 DEF SmcExit, CoreInv, CoreControl, EffPc, RunPc, ThreadPc
  <2> QED
    BY <1>2, <2>1, <2>2, <2>3, <2>4, <2>5, <2>6, <2>7, <2>8, <2>9 DEF HandlerStep
<1>3. CASE ThreadStep(c)
  <2>1. ASSUME NEW v \in Val, Compute(c, v) PROVE guest' = guest /\ Kept
    BY <2>1 DEF Compute
  <2>2. CASE ThreadRpc(c)
    BY <2>2 DEF ThreadRpc, SaveState
  <2>3. CASE RpcReturn(c)
    <3>1. live' = [live EXCEPT ![curr_thread[c]].pc = "thread"] /\ guest' = guest
      BY <2>3 DEF RpcReturn
    <3> QED  BY <3>1
  <2>4. CASE ThreadReturn(c)
    BY <2>4 DEF ThreadReturn
  <2> QED  BY <1>3, <2>1, <2>2, <2>3, <2>4 DEF ThreadStep
<1>4. CASE ExceptionStep(c)
  BY <1>4 DEF ExceptionStep, IrqEntry, IrqSave, SaveState, FiqEntry, FiqWinEnd
<1> QED  BY <1>1, <1>2, <1>3, <1>4

LEMMA InitPool == Init => Pool!Init
  BY ThreadFacts, ConstantsAssumption DEF Init, Pool!Init, Holds

LEMMA NextPool ==
  ASSUME ControlInv, ControlInv', SchedInv, SchedInv', DataInv, DataInv', [Next]_vars
  PROVE  [Pool!Next]_<<state, PoolClient, PoolCore>>
<1>1. ASSUME NEW c \in CPU,
             NwStep(c) \/ HandlerStep(c) \/ ThreadStep(c) \/ ExceptionStep(c)
      PROVE  [Pool!Next]_<<state, PoolClient, PoolCore>>
  <2>1. \A d \in CPU \ {c} : Holds(d)' = Holds(d) /\ guest'[d] = guest[d]
    BY <1>1, Elsewhere, DataFrame DEF ControlInv, CoreVars, Holds
  <2>2. \A t \in Thread : state[t] # "FREE" => live'[t].a7 = live[t].a7
    BY <1>1, ClientStep
  <2>3. Holds(c) # NoThread => guest'[c] = guest[c]
    BY <1>1, ClientStep
  <2>4. Holds(c)' # NoThread => guest'[c] \in Clnt /\ live'[Holds(c)'].a7 = guest'[c]
    <3> SUFFICES ASSUME Holds(c)' # NoThread
                 PROVE  guest'[c] \in Clnt /\ live'[Holds(c)'].a7 = guest'[c]
      OBVIOUS
    <3>1. live'[Holds(c)'].a7 = guest'[c]
      BY DEF DataInv, CoreDataOK, CoreData
    <3>2. Holds(c)' \in Thread /\ live' \in [Thread -> Expected]
      BY DEF ControlInv, TypeOK, Holds
    <3> QED  BY <3>1, <3>2 DEF Expected
  <2>5. \A u \in Thread : u # Holds(c) /\ u # Holds(c)' => live'[u].a7 = live[u].a7
    BY <1>1, DataFrame DEF Slot
  <2>6. CASE Calm(c)
    <3>1. \A t \in Thread : live'[t].a7 = live[t].a7
      BY <2>2, <2>5, <2>6, ThreadFacts DEF Calm, SchedInv, HoldInv
    <3>2. PoolClient' = PoolClient
      BY <3>1 DEF PoolClient
    <3>3. PoolCore' = PoolCore
      BY <2>1, <2>3, <2>6 DEF PoolCore, Calm
    <3> QED  BY <2>6, <3>2, <3>3 DEF Calm
  <2>7. ASSUME NEW t \in Thread, Takes(c, t) PROVE Pool!Next
    <3>1. Holds(c) = NoThread /\ Holds(c)' = t /\ t # NoThread
      BY <2>7, ThreadFacts DEF Takes
    <3>2. PICK k \in Clnt : k = guest'[c] /\ live'[t].a7 = k
      BY <2>4, <3>1
    <3>3. ~HaveOneActive /\ state' = [state EXCEPT ![t] = "ACTIVE"]
      BY <2>7 DEF Takes, SchedInv, CheckInv
    <3>4. PoolCore[c] = <<>> /\ PoolCore' = [PoolCore EXCEPT ![c] = <<t, k>>]
      BY <2>1, <3>1, <3>2 DEF PoolCore
    <3>5. PoolClient' = [PoolClient EXCEPT ![t] = k]
      BY <2>5, <3>1, <3>2, ThreadFacts DEF PoolClient
    <3>6. Pool!Run(c, t, k)
      BY <3>3, <3>4 DEF Pool!Run, Pool!NoneActive, HaveOneActive, PoolCore
    <3>7. CASE state[t] = "FREE"
      <4>1. Pool!Start(c, t, k)
        BY <3>5, <3>6, <3>7 DEF Pool!Start, PoolClient
      <4> QED  BY <3>2, <4>1 DEF Pool!Next
    <3>8. CASE state[t] = "SUSPENDED"
      <4>1. PoolClient[t] = k /\ PoolClient' = PoolClient
        BY <2>2, <3>2, <3>5, <3>8 DEF PoolClient
      <4>2. Pool!Resume(c, t, k)
        BY <3>6, <3>8, <4>1 DEF Pool!Resume, PoolClient
      <4> QED  BY <3>2, <4>2 DEF Pool!Next
    <3> QED  BY <3>3, <3>7, <3>8 DEF ControlInv, TypeOK, HaveOneActive
  <2>8. ASSUME NEW t \in Thread, GivesUp(c, t) PROVE Pool!Next
    <3>1. Holds(c) = t /\ Holds(c)' = NoThread /\ t # NoThread
      BY <2>8, ThreadFacts DEF GivesUp
    <3>2. PICK s \in {"FREE", "SUSPENDED"} : state' = [state EXCEPT ![t] = s]
      BY <2>8 DEF GivesUp
    <3>3. PoolCore[c] = <<t, guest[c]>> /\ PoolCore' = [PoolCore EXCEPT ![c] = <<>>]
      BY <2>1, <3>1 DEF PoolCore
    <3>4. PoolClient' = PoolClient
      <4>1. state[t] = "ACTIVE"
        BY <3>1 DEF SchedInv, HoldInv
      <4> QED  BY <2>2, <2>5, <3>1, <4>1, ThreadFacts DEF PoolClient
    <3>5. Pool!Stop(c, s)
      BY <3>2, <3>3, <3>4 DEF Pool!Stop, PoolCore, PoolClient
    <3> QED  BY <3>2, <3>5 DEF Pool!Next, Pool!Suspend, Pool!Finish
  <2> QED  BY <1>1, <2>6, <2>7, <2>8, StateStep
<1>2. CASE UNCHANGED vars
  BY <1>2 DEF vars, PoolClient, PoolCore, Holds
<1> QED  BY <1>1, <1>2 DEF Next

\* Cores, the lock, interrupts and the steps of every call together do no more than
\* the abstract pool of threads allows, for any number of cores and threads.
THEOREM ThreadsImplementPool == Spec => ImplementsPool
<1>1. ControlInv /\ ControlInv' /\ SchedInv /\ SchedInv' /\ DataInv /\ DataInv' /\ [Next]_vars
        => [Pool!Next]_<<state, [t \in Thread |-> live[t].a7],
              [c \in CPU |-> IF Holds(c) = NoThread THEN <<>> ELSE <<Holds(c), guest[c]>>]>>
  BY NextPool DEF PoolClient, PoolCore
<1> QED
  BY InitPool, <1>1, ControlInvariant, SchedInvariant, DataInvariant, PTL
  DEF Spec, ImplementsPool, Pool!Spec, Pool!pool

--------------------------------------------------------------------------------
(* A non-secure world that resumes only what it was given (StrictNw).         *)

Asks     == {"RPC", "RPC_IRQ", "RETURN_FROM_RPC"}
ResumePc == {"resume", "resume_check", "resume_take", "resume_run"}

(* The right to resume thread t is in the hands of core c: on its way out to  *)
(* the non-secure world or on its way back.                                   *)
Names(c, t) ==
    \/ pc[c] = "rpc_load" /\ n[c] = t
    \/ r[c].a0 \in Asks /\ r[c].a3 = t

TokenOK(c) ==
    /\ r[c].a0 = "RETURN_FROM_RPC" =>
         /\ pc[c] \in ResumePc \cup {"recv"}
         /\ r[c].a3 \in Thread
         /\ r[c].a7 = live[r[c].a3].a7
    /\ pc[c] \in ResumePc => r[c].a0 = "RETURN_FROM_RPC"
    /\ pc[c] = "resume_run" => r[c].a3 = n[c]
    /\ r[c].a0 # "ERESUME"
    /\ \A t \in Thread : Names(c, t) /\ pc[c] # "resume_run" => state[t] = "SUSPENDED"

OneToken == \A c, d \in CPU, t \in Thread : Names(c, t) /\ Names(d, t) => c = d

TokenInv == (\A c \in CPU : TokenOK(c)) /\ OneToken

LEMMA AsksFacts ==
  /\ NoArgs.a0 \notin Asks \cup {"ERESUME"}
  /\ \A v : [NoArgs EXCEPT !.a1 = v].a0 \notin Asks \cup {"ERESUME"}
  /\ \A t : /\ [NoArgs EXCEPT !.a0 = "RPC", !.a3 = t].a0 = "RPC"
            /\ [NoArgs EXCEPT !.a0 = "RPC", !.a3 = t].a3 = t
            /\ [NoArgs EXCEPT !.a0 = "RPC_IRQ", !.a3 = t].a0 = "RPC_IRQ"
            /\ [NoArgs EXCEPT !.a0 = "RPC_IRQ", !.a3 = t].a3 = t
  /\ [NoArgs EXCEPT !.a0 = "HANDLE_FIQ"].a0 \notin Asks \cup {"ERESUME"}
  /\ \A x \in Args : /\ [x EXCEPT !.a0 = "OK"].a0 = "OK"
                     /\ \A v : /\ [x EXCEPT !.a1 = v].a0 = x.a0
                              /\ [x EXCEPT !.a1 = v].a3 = x.a3
                              /\ [x EXCEPT !.a1 = v].a7 = x.a7
  /\ \A c \in CPU : Refused(c, "EBUSY").a0 = "EBUSY"
  BY DEF NoArgs, Args, Asks, Refused

(* How a step of core c gets it the right to resume, and what it then knows.  *)
LEMMA TokenStep ==
  ASSUME StrictNw, ControlInv, ControlInv', SchedInv, DataInv, NEW c \in CPU, TokenOK(c),
         NwStep(c) \/ HandlerStep(c) \/ ThreadStep(c) \/ ExceptionStep(c)
  PROVE  /\ TokenOK(c)'
         /\ \A t \in Thread : Names(c, t)' =>
              Names(c, t) \/ Delivered(t) \/ (Holds(c) = t /\ t # NoThread)
<1> USE AsksFacts, ThreadFacts
    DEF TokenOK, Names, ResumePc, Holds, ControlInv, TypeOK, At, NextPc, threadVars
<1> DEFINE Goal == /\ TokenOK(c)'
                   /\ \A t \in Thread : Names(c, t)' =>
                        Names(c, t) \/ Delivered(t) \/ (Holds(c) = t /\ t # NoThread)
<1>1. CASE NwStep(c)
  <2>1. ASSUME NEW args, args.a0 \notin Asks \cup {"ERESUME"}, EnterSecure(c, args) PROVE Goal
    BY <2>1 DEF EnterSecure, Asks
  <2>2. ASSUME NEW f \in Fn, NEW v \in Val, NEW k \in Clnt, NwCall(c, f, v, k) PROVE Goal
    <3>1. f \notin Asks \cup {"ERESUME"}
      BY ConstantsAssumption DEF Asks
    <3> QED  BY <2>1, <2>2, <3>1 DEF NwCall
  <2>3. ASSUME NEW t \in ThreadId, NEW v \in Val, NEW k \in Clnt, NwReturn(c, t, v, k)
        PROVE  Goal
    <3>1. /\ t \in Thread /\ Delivered(t) /\ k = live[t].a7
          /\ pc'[c] = "recv" /\ UNCHANGED <<state, live>>
          /\ r'[c] = [a0 |-> "RETURN_FROM_RPC", a1 |-> v, a3 |-> t, a7 |-> k]
      BY <2>3 DEF NwReturn, EnterSecure
    <3> QED  BY <3>1 DEF Delivered, Asks
  <2>4. CASE FiqNsec(c)
    BY <2>1, <2>4 DEF FiqNsec
  <2> QED  BY <1>1, <2>2, <2>3, <2>4 DEF NwStep
<1>2. CASE HandlerStep(c)
  <2>1. CASE RecvFiq(c) \/ RecvFast(c)
    <3>1. CASE RecvFiq(c)
      BY <3>1 DEF RecvFiq
    <3>2. CASE RecvFast(c)
      <4>1. r'[c].a0 = "OK" /\ pc'[c] = "smc" /\ state' = state
        BY <3>2 DEF RecvFast
      <4> QED  BY <4>1 DEF Asks
    <3> QED  BY <2>1, <3>1, <3>2
  <2>2. CASE RecvStd(c)
    <3>1. curr_thread[c] = NoThread
      BY <2>2 DEF RecvStd, CoreInv, CoreControl, EffPc, RunPc, ThreadPc
    <3> QED  BY <2>2, <3>1 DEF RecvStd
  <2>3. CASE LockGlobal(c)
    BY <2>3 DEF LockGlobal, LockedPc
  <2>4. CASE AllocCheck(c) \/ ResumeCheck(c)
    BY <2>4 DEF AllocCheck, ResumeCheck, CheckActive, Refuse, Asks
  <2>5. CASE AllocFull(c)
    BY <2>5 DEF AllocFull, Refuse, Asks
  <2>6. CASE ResumeFail(c)
    <3>1. /\ pc[c] = "resume_take" /\ r[c].a3 \in Thread /\ r[c].a7 = live[r[c].a3].a7
          /\ state[r[c].a3] = "SUSPENDED" /\ ~MayResume(c, r[c].a3)
      BY <2>6 DEF ResumeFail, Asks
    <3>2. SlotData(r[c].a3)
      BY <3>1 DEF DataInv
    <3> QED  BY <3>1, <3>2 DEF SlotData, MayResume
  <2>7. CASE AllocTake(c)
    <3>1. PICK t \in Thread : state[t] = "FREE" /\ Take(c, t, "alloc_run")
      BY <2>7 DEF AllocTake
    <3>2. pc[c] = "alloc_take" /\ pc'[c] = "alloc_run" /\ r' = r
          /\ state' = [state EXCEPT ![t] = "ACTIVE"]
      BY <2>7, <3>1 DEF AllocTake, Take
    <3> QED  BY <3>1, <3>2
  <2>8. CASE ResumeTake(c)
    <3>1. /\ pc[c] = "resume_take" /\ r[c].a3 \in Thread /\ Take(c, r[c].a3, "resume_run")
          /\ live' = [live EXCEPT ![r[c].a3].a1 = IF @ = Await THEN r[c].a1 ELSE @]
      BY <2>8 DEF ResumeTake, MayResume
    <3>2. pc'[c] = "resume_run" /\ r' = r /\ n'[c] = r[c].a3
      BY <3>1 DEF Take
    <3>3. live'[r[c].a3].a7 = live[r[c].a3].a7
      BY <3>1 DEF Expected
    <3> QED  BY <3>1, <3>2, <3>3
  <2>9. CASE AllocRun(c)
    BY <2>9 DEF AllocRun, LoadContext, Asks
  <2>10. CASE ResumeRun(c)
    <3>1. ReturnedContext(c, n[c]).pc \in ThreadPc
      BY <2>10, ResumeContext DEF ResumeRun
    <3> QED  BY <2>10, <3>1 DEF ResumeRun, LoadContext, Asks, ThreadPc
  <2>11. CASE SuspendCs(c)
    <3>1. CASE Suspend(c) /\ RunsActive(c)
      BY <2>11, <3>1 DEF SuspendCs, Suspend, SuspendAs, Asks, RunsActive
    <3>2. CASE Halt(c)
      BY <2>11, <3>2 DEF SuspendCs, Halt
    <3> QED  BY <2>11, <3>1, <3>2 DEF SuspendCs
  <2>12. CASE FreeCs(c)
    <3>1. pc[c] = "free_cs"
      BY <2>12 DEF FreeCs
    <3>2. CASE Free(c) /\ RunsActive(c)
      BY <3>1, <3>2 DEF Free, RunsActive
    <3>3. CASE Halt(c)
      BY <3>1, <3>3 DEF Halt
    <3> QED  BY <2>12, <3>2, <3>3 DEF FreeCs
  <2>13. CASE RpcLoad(c)
    BY <2>13 DEF RpcLoad, Asks
  <2>14. CASE SmcExit(c)
    BY <2>14 DEF SmcExit, Asks
  <2>15. CASE FiqReturn(c)
    BY <2>15 DEF FiqReturn, CoreInv, CoreControl, ThreadPc
  <2> QED
    BY <1>2, <2>1, <2>2, <2>3, <2>4, <2>5, <2>6, <2>7, <2>8, <2>9, <2>10, <2>11, <2>12,
       <2>13, <2>14, <2>15
    DEF HandlerStep
<1>3. CASE ThreadStep(c)
  <2>1. ASSUME NEW v \in Val, Compute(c, v) PROVE Goal
    <3>1. /\ pc[c] = "thread" /\ pc' = pc /\ UNCHANGED <<state, n>>
          /\ r'[c] = [r[c] EXCEPT !.a1 = v]
      BY <2>1 DEF Compute
    <3> QED  BY <3>1
  <2>2. CASE ThreadRpc(c)
    BY <2>2 DEF ThreadRpc, SaveState, Asks
  <2>3. CASE RpcReturn(c)
    BY <2>3 DEF RpcReturn
  <2>4. CASE ThreadReturn(c)
    BY <2>4 DEF ThreadReturn, Asks
  <2> QED  BY <1>3, <2>1, <2>2, <2>3, <2>4 DEF ThreadStep
<1>4. CASE ExceptionStep(c)
  <2>1. CASE IrqSave(c)
    BY <2>1 DEF IrqSave, SaveState, Asks
  <2>2. CASE IrqEntry(c) \/ FiqEntry(c)
    <3>1. pc[c] \in ThreadPc \cup {"irq", "fiqwin"}
      BY <2>2, UnmaskedPc DEF IrqEntry, FiqEntry
    <3>2. pc'[c] \in {"irq", "fiq"} /\ UNCHANGED <<state, n, r, live>>
      BY <2>2 DEF IrqEntry, FiqEntry
    <3> QED  BY <3>1, <3>2 DEF ThreadPc
  <2>3. CASE FiqWinEnd(c)
    BY <2>3 DEF FiqWinEnd, Asks
  <2> QED  BY <1>4, <2>1, <2>2, <2>3 DEF ExceptionStep
<1> QED  BY <1>1, <1>2, <1>3, <1>4

(* Who takes a suspended thread has been given it.                            *)
LEMMA TakenNamed ==
  ASSUME ControlInv, NEW c \in CPU, TokenOK(c), NEW t \in Thread, state[t] = "SUSPENDED",
         Takes(c, t),
         NwStep(c) \/ HandlerStep(c) \/ ThreadStep(c) \/ ExceptionStep(c)
  PROVE  Names(c, t)
<1> USE ThreadFacts DEF ControlInv, TypeOK
<1>1. pc[c] \in TakePc /\ state'[t] = "ACTIVE"
  BY DEF Takes
<1>2. state' # state
  BY <1>1
<1>3. AllocTake(c) \/ ResumeTake(c)
  BY <1>1, <1>2 DEF TakePc, NwStep, HandlerStep, ThreadStep, ExceptionStep, NwCall, NwReturn,
     FiqNsec, EnterSecure, At, RecvFiq, RecvFast, RecvStd, LockGlobal, LockedPc, AllocCheck,
     ResumeCheck, CheckActive, AllocFull, ResumeFail, Refuse, threadVars, AllocRun,
     ResumeRun, RpcLoad, SuspendCs, FreeCs, FiqReturn, SmcExit, Compute, ThreadRpc,
     RpcReturn, ThreadReturn, IrqEntry, IrqSave, FiqEntry, FiqWinEnd, CoreInv, CoreControl,
     MaskOf, ThreadPc, Both
<1>4. CASE AllocTake(c)
  BY <1>1, <1>4 DEF AllocTake, Take
<1>5. CASE ResumeTake(c)
  <2>1. r[c].a3 = t
    BY <1>1, <1>5 DEF ResumeTake, MayResume, Take
  <2>2. r[c].a0 = "RETURN_FROM_RPC"
    BY <1>5 DEF ResumeTake, At, TokenOK, ResumePc
  <2> QED  BY <2>1, <2>2 DEF Names, Asks
<1> QED  BY <1>3, <1>4, <1>5

LEMMA InitToken == Init => TokenInv
  BY AsksFacts DEF Init, TokenInv, TokenOK, OneToken, Names, ResumePc, Asks

LEMMA NextToken ==
  ASSUME StrictNw, ControlInv, ControlInv', SchedInv, SchedInv', DataInv, TokenInv, [Next]_vars
  PROVE  TokenInv'
<1>1. ASSUME NEW c \in CPU,
             NwStep(c) \/ HandlerStep(c) \/ ThreadStep(c) \/ ExceptionStep(c)
      PROVE  TokenInv'
  <2>1. /\ TokenOK(c)'
        /\ \A t \in Thread : Names(c, t)' =>
             Names(c, t) \/ Delivered(t) \/ (Holds(c) = t /\ t # NoThread)
    BY <1>1, TokenStep DEF TokenInv
  <2>2. ASSUME NEW d \in CPU \ {c} PROVE UNCHANGED <<pc[d], r[d], n[d]>>
    BY <1>1, Elsewhere DEF ControlInv, CoreVars
  (* What a core names is suspended, or in its own hands.                      *)
  <2>3. ASSUME NEW d \in CPU, NEW t \in Thread, Names(d, t)
        PROVE  \/ state[t] = "SUSPENDED"
               \/ pc[d] = "resume_run" /\ Holds(d) = t /\ state[t] = "ACTIVE"
    BY <2>3, ThreadFacts DEF TokenInv, TokenOK, Names, ResumePc, Holds, SchedInv, HoldInv
  <2>4. ASSUME NEW d \in CPU \ {c}, NEW t \in Thread, Names(c, t)', Names(d, t)'
        PROVE  FALSE
    <3>1. Names(d, t)
      BY <2>2, <2>4 DEF Names
    <3>2. CASE Names(c, t)
      BY <3>1, <3>2 DEF TokenInv, OneToken
    <3>3. CASE Delivered(t)
      BY <3>1, <3>3 DEF Delivered, Names, Asks
    <3>4. CASE Holds(c) = t /\ t # NoThread
      BY <2>3, <3>1, <3>4 DEF SchedInv, HoldInv
    <3> QED  BY <2>1, <2>4, <3>2, <3>3, <3>4
  <2>5. OneToken'
    <3> SUFFICES ASSUME NEW d \in CPU, NEW e \in CPU, NEW t \in Thread,
                        Names(d, t)', Names(e, t)'
                 PROVE  d = e
      BY DEF OneToken
    <3>1. CASE d # c /\ e # c
      BY <2>2, <3>1 DEF Names, TokenInv, OneToken
    <3> QED  BY <2>4, <3>1
  <2>6. ASSUME NEW d \in CPU \ {c} PROVE TokenOK(d)'
    <3>1. TokenOK(d) /\ UNCHANGED <<pc[d], r[d], n[d]>>
      BY <2>2 DEF TokenInv
    <3>2. ASSUME NEW t \in Thread, Names(d, t), state[t] = "SUSPENDED"
          PROVE  state'[t] = "SUSPENDED"
      <4>1. ~Names(c, t)
        BY <3>2 DEF TokenInv, OneToken
      <4>2. ASSUME NEW u \in Thread, Takes(c, u) PROVE u # t
        BY <1>1, <4>1, <4>2, TakenNamed, <3>2 DEF TokenInv
      <4>3. ASSUME NEW u \in Thread, GivesUp(c, u) PROVE u # t
        BY <3>2, <4>3, ThreadFacts DEF GivesUp, SchedInv, HoldInv
      <4> QED
        BY <1>1, <3>2, <4>2, <4>3, StateStep
        DEF Calm, Takes, GivesUp, ControlInv, TypeOK
    <3>3. ASSUME NEW t \in Thread, Names(d, t) PROVE live'[t].a7 = live[t].a7
      <4>1. state[t] # "FREE"
        BY <2>3, <3>3
      <4> QED  BY <1>1, <4>1, ClientStep
    <3>4. \A t \in Thread : Names(d, t)' <=> Names(d, t)
      BY <3>1 DEF Names
    <3>5. r[d].a0 = "RETURN_FROM_RPC" => live'[r[d].a3].a7 = live[r[d].a3].a7
      BY <3>1, <3>3 DEF TokenOK, Names, Asks
    <3> QED  BY <3>1, <3>2, <3>4, <3>5 DEF TokenOK
  <2> QED  BY <2>1, <2>5, <2>6 DEF TokenInv
<1>2. CASE UNCHANGED vars
  BY <1>2 DEF vars, TokenInv, TokenOK, OneToken, Names
<1> QED  BY <1>1, <1>2 DEF Next

\* The right to resume a suspended thread is in one place at a time, on its way out to
\* the non-secure world, there, or on its way back; two properties follow from it.
THEOREM TokenInvariant ==
  ASSUME StrictNw
  PROVE  Spec => []TokenInv
<1>1. /\ ControlInv /\ ControlInv' /\ SchedInv /\ SchedInv' /\ DataInv
      /\ TokenInv /\ [Next]_vars
      => TokenInv'
  BY NextToken
<1> QED
  BY InitToken, ControlInvariant, SchedInvariant, DataInvariant, <1>1, PTL DEF Spec

\* While thread_rpc() still reads the stack of the thread it has suspended and unlocked
\* (thread_asm.S:248), no other core runs the thread.
THEOREM RpcTailIsPrivate ==
  ASSUME StrictNw
  PROVE  Spec => []RpcTailPrivate
<1>1. ControlInv /\ TokenInv => RpcTailPrivate
  BY ThreadFacts DEF ControlInv, TypeOK, CoreInv, CoreControl, NPc, TokenInv, TokenOK,
     Names, RpcTailPrivate
<1> QED  BY ControlInvariant, TokenInvariant, <1>1, PTL

\* What the non-secure world was told is suspended can be resumed: ERESUME is never
\* the answer (thread.c:160).
THEOREM ResumesSucceed ==
  ASSUME StrictNw
  PROVE  Spec => []ResumeNeverFails
<1>1. TokenInv => ResumeNeverFails
  BY DEF TokenInv, TokenOK, ResumeNeverFails
<1> QED  BY TokenInvariant, <1>1, PTL
================================================================================
