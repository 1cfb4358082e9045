---------------------------- MODULE CoreProofs ----------------------------
(***************************************************************************)
(* Proofs about Monitor, for any register contents and any register files  *)
(* the two worlds may leave, about Boot, for stacks of any size, about     *)
(* Console, for FIFOs of any depth and messages of any length, and about   *)
(* their composition.                                                      *)
(***************************************************************************)
EXTENDS MCCore, TLAPS

Same(f, g, S) == \A r \in S : f[r] = g[r]

(* Exactly the world that runs, or is being returned to, is in SCR.        *)
ScrInv ==
  /\ pc = "nsec" => scr = {"NS", "FIQ"}
  /\ pc = "smc_exit" => scr = {} \/ scr = {"NS", "FIQ"}
  /\ pc \notin {"nsec", "smc_exit"} => scr = {}

LeavingSec  == pc = "smc_exit" /\ scr # {}     \* to the non-secure world
LeavingNsec == pc = "fiq_exit" \/ (pc = "smc_exit" /\ scr = {})

(* How the non-secure world was left decides the way through the code.     *)
ViaInv ==
  /\ pc \in ToSec \cup InSec \cup {"recv", "fiqwin"} \/ LeavingNsec => via # "boot"
  /\ pc \in {"fiq_ret_to_sec", "fiq_restore_sec", "fiq_exit"} => via = "fiq"
  /\ pc \in {"smc_ret_to_sec", "smc_restore_sec"} => via = "smc"
  /\ pc = "smc_exit" /\ scr = {} => via = "smc"
  /\ pc = "call" => via # "fiq"

(* The registers the non-secure world left with: first in the core and the *)
(* frame, then in its context, in the end back in the core.                *)
NsecInv ==
  /\ pc \in ToSec => Same(frame, nleft, FrameReg) /\ Same(reg, nleft, Bank \cup High)
  /\ /\ via # "boot"
     /\ pc \in InSec \cup {"recv", "fiqwin", "call"} \cup ToNsec \/ LeavingNsec
     => Same(nctx, nleft, NsecCtx)
  /\ pc \in InSec \/ LeavingNsec =>
       Same(frame, nleft, Low) /\ Same(reg, nleft, {"r4", "r5"})
  /\ LeavingSec /\ via # "boot" =>
       Same(reg, nleft, Bank \cup High) /\ frame["ret"] = nleft["ret"]
  /\ pc = "nsec" /\ via # "boot" => Same(reg, nleft, Reg \ Low)

(* Likewise for the secure world, whose r0-r3 are the results of a call.   *)
SecInv ==
  /\ pc = "smc_ret_to_nsec" => Same(frame, sleft, FrameReg) /\ Same(reg, sleft, Bank)
  /\ pc \in {"restore_nsec", "nsec"} \cup ToSec \cup InSec \/ LeavingSec =>
       Same(sctx, sleft, SecCtx)
  /\ pc = "restore_nsec" \/ LeavingSec => Same(frame, sleft, Low)
  /\ pc = "nsec" => Same(reg, sleft, Low)
  /\ LeavingNsec => Same(reg, sleft, Bank) /\ frame["ret"] = sleft["ret"]
  /\ pc \in {"recv", "fiqwin"} \/ (pc = "call" /\ via # "boot") => Same(reg, sleft, SecCtx)

(* The arguments of an SMC; the registers of an FIQ on their way through   *)
(* the secure world, one register further on.                              *)
ArgInv ==
  /\ pc \in {"recv", "call"} /\ via = "smc" => Same(reg, nleft, Low \cup {"r4", "r5"})
  /\ pc \in {"recv", "fiqwin"} /\ via = "fiq" => Same(Shifted(reg), nleft, Low)
  /\ pc = "recv" /\ via = "fiq" => reg["r0"] = HandleFiq
  /\ pc \in ToNsec \cup {"nsec"} \/ LeavingSec => (via = "fiq" => Same(sleft, nleft, Low))

MonInv == TypeOK /\ ScrInv /\ ViaInv /\ NsecInv /\ SecInv /\ ArgInv

--------------------------------------------------------------------------------
(* The initial state satisfies the invariant.                              *)
LEMMA InitInv == Init => MonInv
  <1> SUFFICES ASSUME Init PROVE MonInv
    OBVIOUS
  <1>1. TypeOK
    BY MonitorAssumption DEF Init, TypeOK, Place, World
  <1>2. ScrInv /\ ViaInv /\ NsecInv /\ SecInv /\ ArgInv
    BY DEF Init, ScrInv, ViaInv, NsecInv, SecInv, ArgInv, LeavingSec, LeavingNsec, ToSec,
       InSec, ToNsec
  <1>3. QED
    BY <1>1, <1>2 DEF MonInv

(* Every register and every context is a file of values after each step.   *)
LEMMA TypeStep == TypeOK /\ [Next]_vars => TypeOK'
  <1> SUFFICES ASSUME TypeOK, [Next]_vars PROVE TypeOK'
    OBVIOUS
  <1> USE MonitorAssumption DEF TypeOK, context, history, World, ToSec, InSec, ToNsec, Exit,
          Place,
        Low, High, Bank, Reg, FrameReg, SecCtx, NsecCtx
  <1>0. ASSUME NEW f \in [Reg -> Val], SmcEntry(f)
        PROVE  /\ pc' \in Place /\ scr' \subseteq {"NS", "FIQ"}
               /\ reg' \in [Reg -> Val] /\ frame' \in [FrameReg -> Val]
               /\ UNCHANGED <<nctx, sctx, fiq>>
    BY <1>0 DEF SmcEntry, Push, Clobber
  <1>1. CASE SecSmc
    <2>1. PICK f \in SecContents : SmcEntry(f) /\ sleft' = f
      BY <1>1 DEF SecSmc
    <2>2. f \in [Reg -> Val]
      OBVIOUS
    <2>3. QED
      BY <1>0, <1>1, <2>1, <2>2 DEF SecSmc
  <1>2. CASE SaveSec
    BY <1>2 DEF SaveSec, Saved, CCall, Clobber
  <1>3. CASE RestoreNsec
    BY <1>3 DEF RestoreNsec, Restored, CCall, Clobber
  <1>4. CASE SaveNsec
    BY <1>4 DEF SaveNsec, Saved, CCall, Clobber
  <1>5. CASE RestoreSec
    BY <1>5 DEF RestoreSec, Restored, CCall, Clobber
  <1>6. CASE SmcExit
    BY <1>6 DEF SmcExit
  <1>7. CASE FiqExit
    BY <1>7 DEF FiqExit
  <1>8. CASE RecvSmcCall
    BY <1>8 DEF RecvSmcCall
  <1>9. CASE FiqReturn
    <2>1. Shifted(reg) \in [Reg -> Val]
      BY DEF Shifted
    <2>2. QED
      BY <1>0, <1>9, <2>1 DEF FiqReturn
  <1>10. CASE NsecSmc
    <2>1. PICK f \in NsecContents : SmcEntry(f) /\ nleft' = f
      BY <1>10 DEF NsecSmc
    <2>2. f \in [Reg -> Val]
      OBVIOUS
    <2>3. QED
      BY <1>0, <1>10, <2>1, <2>2 DEF NsecSmc
  <1>11. CASE NsecFiq
    BY <1>11 DEF NsecFiq, Push, Clobber
  <1>12. CASE ServeFiq
    BY <1>12 DEF ServeFiq
  <1>13. CASE RaiseFiq
    BY <1>13 DEF RaiseFiq
  <1>14. CASE UNCHANGED vars
    BY <1>14 DEF vars
  <1>15. QED
    BY <1>1, <1>2, <1>3, <1>4, <1>5, <1>6, <1>7, <1>8, <1>9, <1>10, <1>11, <1>12, <1>13,
       <1>14 DEF Next, SecureStep

(* The parts that follow the registers on their way.                       *)
LEMMA WayStep ==
  MonInv /\ [Next]_vars => (ScrInv /\ ViaInv /\ NsecInv /\ SecInv /\ ArgInv)'
  <1> SUFFICES ASSUME MonInv, [Next]_vars
               PROVE  (ScrInv /\ ViaInv /\ NsecInv /\ SecInv /\ ArgInv)'
    OBVIOUS
  <1> USE MonitorAssumption DEF MonInv, ScrInv, ViaInv, NsecInv, SecInv, ArgInv, LeavingSec,
          LeavingNsec, Same,
        Shifted, TypeOK, context, history,
        World, ToSec, InSec, ToNsec, Exit, Place,
        Low, High, Bank, Reg, FrameReg, SecCtx, NsecCtx
  <1>1. CASE SecSmc
    <2>1. PICK f \in SecContents : SmcEntry(f) /\ sleft' = f
      BY <1>1 DEF SecSmc
    <2>2. pc = "call" /\ scr = {} /\ UNCHANGED <<via, nleft>>
      BY <1>1 DEF SecSmc
    <2>3. QED
      BY <2>1, <2>2 DEF SmcEntry, Push, Clobber
  <1>2. CASE SaveSec
    BY <1>2 DEF SaveSec, Saved, CCall, Clobber
  <1>3. CASE RestoreNsec
    BY <1>3 DEF RestoreNsec, Restored, CCall, Clobber
  <1>4. CASE SaveNsec
    BY <1>4 DEF SaveNsec, Saved, CCall, Clobber
  <1>5. CASE RestoreSec
    BY <1>5 DEF RestoreSec, Restored, CCall, Clobber
  <1>6. CASE SmcExit
    BY <1>6 DEF SmcExit
  <1>7. CASE FiqExit
    BY <1>7 DEF FiqExit
  <1>8. CASE RecvSmcCall
    BY <1>8 DEF RecvSmcCall
  <1>9. CASE FiqReturn
    BY <1>9 DEF FiqReturn, SmcEntry, Push, Clobber
  <1>10. CASE NsecSmc
    BY <1>10 DEF NsecSmc, SmcEntry, Push, Clobber
  <1>11. CASE NsecFiq
    BY <1>11 DEF NsecFiq, Push, Clobber
  <1>12. CASE ServeFiq
    BY <1>12 DEF ServeFiq
  <1>13. CASE RaiseFiq
    BY <1>13 DEF RaiseFiq
  <1>14. CASE UNCHANGED vars
    BY <1>14 DEF vars
  <1>15. QED
    BY <1>1, <1>2, <1>3, <1>4, <1>5, <1>6, <1>7, <1>8, <1>9, <1>10, <1>11, <1>12, <1>13,
       <1>14 DEF Next, SecureStep

(* The inductive invariant.                                                *)
THEOREM MonitorInvariant == Spec => []MonInv
  <1>1. MonInv /\ [Next]_vars => MonInv'
    BY TypeStep, WayStep DEF MonInv
  <1>2. QED
    BY InitInv, <1>1, PTL DEF Spec

(* Registers, contexts and the monitor's frame keep their shape. *)
THEOREM MonitorTypes == Spec => []TypeOK
  <1>1. MonInv => TypeOK
    BY DEF MonInv
  <1>2. QED
    BY MonitorInvariant, <1>1, PTL

(* An FIQ leaves the non-secure world's registers as they were, whatever
   the register contents and whatever the secure world had been doing. *)
THEOREM FiqIsTransparent == Spec => []FiqTransparent
  <1>1. MonInv => FiqTransparent
    <2> SUFFICES ASSUME MonInv, pc = "nsec", via = "fiq" PROVE reg = nleft
      BY DEF FiqTransparent
    <2>1. \A r \in Reg \ Low : reg[r] = nleft[r]
      BY DEF MonInv, NsecInv, Same
    <2>2. \A r \in Low : reg[r] = nleft[r]
      BY DEF MonInv, SecInv, ArgInv, Same
    <2>3. reg \in [Reg -> Val] /\ nleft \in [Reg -> Val]
      BY DEF MonInv, TypeOK
    <2>4. QED
      BY <2>1, <2>2, <2>3
  <1>2. QED
    BY MonitorInvariant, <1>1, PTL

(* An SMC returns the secure world's r0-r3 and the caller's other registers. *)
THEOREM CallKeepsRegisters == Spec => []CallPreserves
  <1>1. MonInv => CallPreserves
    BY DEF MonInv, NsecInv, SecInv, Same, Low, Reg, CallPreserves
  <1>2. QED
    BY MonitorInvariant, <1>1, PTL

(* The secure world receives r0-r7 of an SMC. *)
THEOREM ArgumentsReachSecure == Spec => []ArgumentsArrive
  <1>1. MonInv => ArgumentsArrive
    BY DEF MonInv, ArgInv, Same, ArgumentsArrive
  <1>2. QED
    BY MonitorInvariant, <1>1, PTL

(* The secure world finds its banked registers and its place again. *)
THEOREM SecureKeepsItsOwn == Spec => []SecureUndisturbed
  <1>1. MonInv => SecureUndisturbed
    BY DEF MonInv, SecInv, Same, SecureUndisturbed
  <1>2. QED
    BY MonitorInvariant, <1>1, PTL

(* SCR routes the FIQ of each world to the right vector. *)
THEOREM ScrIsTheWorlds == Spec => []ScrOfWorld
  <1>1. MonInv => ScrOfWorld
    BY DEF MonInv, ScrInv, World, ScrOfWorld
  <1>2. QED
    BY MonitorInvariant, <1>1, PTL

(***************************************************************************)
(* The boot.  The argument: at each of its places a definite set of        *)
(* globals, devices and stacks is ready, given by how far main_init() has  *)
(* come; what a step uses is among them.                                   *)
(***************************************************************************)
(* Where the core is from some place on, backwards: what is ready later,   *)
(* has been made ready by an earlier call.                                 *)
Running == {"nsec", "recv", "fiqwin", "thread"}
GicOn == {"gic_enable", "inited", "smc"} \cup Running
NsecSet == {"gic_init"} \cup GicOn
MonitorOn == {"nsec_entry"} \cup NsecSet
HandlersSet == {"sm_init"} \cup MonitorOn
Masked == {"init_handlers"} \cup HandlersSet
ThreadsSet == {"mask"} \cup Masked
StacksSet == {"abt_stack", "thread_stacks"} \cup ThreadsSet
CanariesSet == {"tmp_stack"} \cup StacksSet
Cleared == {"init_canaries"} \cup CanariesSet
UartMapped == {"map_ddr", "memset"} \cup Cleared
MmuOn == {"map_uart"} \cup UartMapped
Printing == {"banner", "mmu_init"} \cup MmuOn
MmuOff == {"reset", "resmem_init", "uart_init", "kprintf_init", "banner", "mmu_init"}

(* What is ready where.                                                    *)
ReadyInv ==
  /\ bootpc \in Printing => mem["kprintf_data"] = "set"
  /\ bootpc \in MmuOff => ~mmu
  /\ bootpc \in MmuOn => mem["mmu"] = "set" /\ mem["mmu_l1_table"] = "set"
  /\ bootpc \in UartMapped => "uart" \in mapped
  /\ bootpc \in Cleared \ ThreadsSet => mem["threads"] = "zero"
  /\ bootpc \in StacksSet => mem["core_local"] = "set" /\ {"irq", "fiq"} \subseteq sps
  /\ bootpc \in ThreadsSet => mem["threads"] = "set"
  /\ bootpc \in HandlersSet => mem["handlers"] = "set"
  /\ bootpc \in MonitorOn => "mon" \in sps
  /\ bootpc \in NsecSet => mem["nsec_ctx"] = "set"
  /\ bootpc \in GicOn => mem["gic"] = "set" /\ "gic_regs" \in mapped

(* Which exceptions can be taken, and by which vectors.                    *)
TakenInv ==
  /\ vbar = "none" <=> bootpc = "reset"
  /\ vbar = "thread" => bootpc \in HandlersSet \cup {"halt"}
  /\ bootpc \in HandlersSet => vbar = "thread"
  /\ bootpc \in Masked \ {"fiqwin", "thread"} => mask = B!Both
  /\ bootpc = "fiqwin" => mask = {"I"}

(* What a wrong canary, and a core halted by one, mean.                    *)
StackInv ==
  /\ smashed # {} => deep > StackSize
  /\ bootpc = "halt" => deep > StackSize

BootInv == B!TypeOK /\ bad = {} /\ ReadyInv /\ TakenInv /\ StackInv

(* The places of the boot, one by one.                                     *)
LEMMA BootingIs ==
  B!Booting = {"reset", "resmem_init", "uart_init", "kprintf_init", "banner",
             "mmu_init", "map_uart", "map_ddr", "memset", "init_canaries",
             "tmp_stack", "abt_stack", "thread_stacks", "mask", "init_handlers",
             "sm_init", "nsec_entry", "gic_init", "gic_enable", "inited", "smc"}
  BY DEF B!Booting, B!Calls, B!ToSet

(* The calls are distinct, so the one after the i-th is the (i + 1)-th.    *)
LEMMA CallIs == ASSUME NEW i \in 1 .. 20 PROVE B!NextCall(B!Calls[i]) = B!Calls[i + 1]
<1>1. \A k \in 1 .. 21 : B!Calls[k] = B!Calls[i] => k = i
  BY DEF B!Calls
<1>2. DOMAIN B!Calls = 1 .. 21 /\ i \in DOMAIN B!Calls
  BY DEF B!Calls
<1> HIDE DEF B!Calls
<1>3. (CHOOSE k \in DOMAIN B!Calls : B!Calls[k] = B!Calls[i]) = i
  BY <1>1, <1>2
<1> QED BY <1>3 DEF B!NextCall

(* Which call of main_init() comes after which.                            *)
LEMMA NextCalls ==
  /\ B!NextCall("reset") = "resmem_init"
  /\ B!NextCall("resmem_init") = "uart_init"
  /\ B!NextCall("uart_init") = "kprintf_init"
  /\ B!NextCall("kprintf_init") = "banner"
  /\ B!NextCall("banner") = "mmu_init"
  /\ B!NextCall("mmu_init") = "map_uart"
  /\ B!NextCall("map_uart") = "map_ddr"
  /\ B!NextCall("map_ddr") = "memset"
  /\ B!NextCall("memset") = "init_canaries"
  /\ B!NextCall("init_canaries") = "tmp_stack"
  /\ B!NextCall("tmp_stack") = "abt_stack"
  /\ B!NextCall("abt_stack") = "thread_stacks"
  /\ B!NextCall("thread_stacks") = "mask"
  /\ B!NextCall("mask") = "init_handlers"
  /\ B!NextCall("init_handlers") = "sm_init"
  /\ B!NextCall("sm_init") = "nsec_entry"
  /\ B!NextCall("nsec_entry") = "gic_init"
  /\ B!NextCall("gic_init") = "gic_enable"
  /\ B!NextCall("gic_enable") = "inited"
  /\ B!NextCall("inited") = "smc"
<1>1. /\ B!Calls[1] = "reset" /\ B!Calls[2] = "resmem_init" /\ B!Calls[3] = "uart_init"
      /\ B!Calls[4] = "kprintf_init" /\ B!Calls[5] = "banner" /\ B!Calls[6] = "mmu_init"
      /\ B!Calls[7] = "map_uart" /\ B!Calls[8] = "map_ddr" /\ B!Calls[9] = "memset"
      /\ B!Calls[10] = "init_canaries" /\ B!Calls[11] = "tmp_stack" /\ B!Calls[12] = "abt_stack"
      /\ B!Calls[13] = "thread_stacks" /\ B!Calls[14] = "mask" /\ B!Calls[15] = "init_handlers"
      /\ B!Calls[16] = "sm_init" /\ B!Calls[17] = "nsec_entry" /\ B!Calls[18] = "gic_init"
      /\ B!Calls[19] = "gic_enable" /\ B!Calls[20] = "inited" /\ B!Calls[21] = "smc"
  BY DEF B!Calls
<1>2. \A i \in 1 .. 20 : B!NextCall(B!Calls[i]) = B!Calls[i + 1]
  BY CallIs
<1> QED BY <1>1, <1>2

(* Out of reset nothing is prepared, and nothing has been used.            *)
LEMMA BootInit == B!Init => BootInv
<1> SUFFICES ASSUME B!Init PROVE BootInv
  OBVIOUS
<1>1. bootpc = "reset" /\ mem = [g \in B!Global |-> "junk"] /\ mmu = FALSE /\ mapped = {}
      /\ vbar = "none" /\ sps = {}
      /\ mask \in SUBSET B!Both /\ pend \in SUBSET B!Both /\ smashed = {} /\ deep = 0 /\ bad = {}
  BY DEF B!Init
<1>2. B!TypeOK
  <2>1. mmu \in BOOLEAN
    BY <1>1
  <2>2. bootpc \in B!Place
    BY <1>1, BootingIs DEF B!Place
  <2> QED BY <1>1, <2>1, <2>2, CoreAssumption DEF B!TypeOK
<1>3. ReadyInv /\ TakenInv /\ StackInv
  <2>1. ~mmu
    BY <1>1
  <2> QED BY <1>1, <2>1 DEF ReadyInv, TakenInv, StackInv, Printing, MmuOff, MmuOn, UartMapped,
             Cleared, CanariesSet,
              StacksSet, ThreadsSet, Masked, HandlersSet, MonitorOn, NsecSet, GicOn, Running
<1> QED BY <1>1, <1>2, <1>3 DEF BootInv

(* Every call of main_init() finds prepared what it uses, and prepares     *)
(* what the invariant says of the place it leads to.                       *)
LEMMA BootStepInv == ASSUME BootInv, B!BootStep PROVE BootInv'
<1> USE CoreAssumption, BootingIs, NextCalls DEF BootInv, B!TypeOK, ReadyInv, TakenInv,
        StackInv, Printing, MmuOff, MmuOn, UartMapped, Cleared, CanariesSet,
              StacksSet, ThreadsSet, Masked, HandlersSet, MonitorOn, NsecSet, GicOn, Running,
              B!Place, B!machine, B!Step, B!Sets, B!Uses, B!Prints, B!Maps, B!Nothing, B!Global,
              B!PreBss, B!Bss, B!Device, B!Both
<1>1. CASE B!Reset
  BY <1>1 DEF B!Reset
<1>2. CASE B!ResmemInit
  BY <1>2 DEF B!ResmemInit
<1>3. CASE B!UartInit
  BY <1>3 DEF B!UartInit
<1>4. CASE B!KprintfInit
  BY <1>4 DEF B!KprintfInit
<1>5. CASE B!Banner
  BY <1>5 DEF B!Banner
<1>6. CASE B!MmuInit
  BY <1>6 DEF B!MmuInit
<1>7. CASE B!MapUart
  BY <1>7 DEF B!MapUart
<1>8. CASE B!MapDdr
  BY <1>8 DEF B!MapDdr
<1>9. CASE B!ZeroBss
  BY <1>9 DEF B!ZeroBss
<1>10. CASE B!InitCanaries
  BY <1>10 DEF B!InitCanaries
<1>11. CASE B!TmpStack
  BY <1>11 DEF B!TmpStack
<1>12. CASE B!AbtStack
  BY <1>12 DEF B!AbtStack
<1>13. CASE B!ThreadStacks
  BY <1>13 DEF B!ThreadStacks
<1>14. CASE B!MaskExceptions
  BY <1>14 DEF B!MaskExceptions
<1>15. CASE B!InitHandlers
  BY <1>15 DEF B!InitHandlers
<1>16. CASE B!SmInit
  BY <1>16 DEF B!SmInit
<1>17. CASE B!SetNsecEntry
  BY <1>17 DEF B!SetNsecEntry
<1>18. CASE B!GicInit
  BY <1>18 DEF B!GicInit
<1>19. CASE B!GicEnable
  BY <1>19 DEF B!GicEnable
<1>20. CASE B!Inited
  BY <1>20 DEF B!Inited
<1>21. CASE B!Smc
  BY <1>21 DEF B!Smc
<1> QED BY <1>1, <1>2, <1>3, <1>4, <1>5, <1>6, <1>7, <1>8, <1>9, <1>10, <1>11, <1>12, <1>13,
           <1>14, <1>15, <1>16, <1>17, <1>18, <1>19, <1>20, <1>21 DEF B!BootStep

(* The canaries lie outside of a stack that has not overflowed.            *)
LEMMA Untouched == ASSUME NEW words \in Nat, words <= StackSize PROVE B!Overwritten(words) = {}
<1>1. B!StackTop = StackSize + 2 /\ B!ArrayWords = StackSize + 4
  BY CoreAssumption DEF B!StackTop, B!ArrayWords, B!CanaryWords
<1>2. DOMAIN B!Canary = {"start", "end"} /\ B!Canary["start"] = 0
      /\ B!Canary["end"] = StackSize + 3
  BY <1>1, CoreAssumption DEF B!Canary
<1>3. B!Written(words) = StackSize + 2 - words .. StackSize + 1
  BY <1>1, CoreAssumption DEF B!Written
<1>4. 0 \notin B!Written(words) /\ StackSize + 3 \notin B!Written(words)
  BY <1>3, CoreAssumption
<1> QED BY <1>2, <1>4 DEF B!Overwritten

(* What the secure world does once it is entered, and the exceptions: both *)
(* are masked from before the handlers are installed until a thread runs,  *)
(* so that no handler meets main_init() on its stack.                      *)
LEMMA LateInv ==
  ASSUME BootInv, B!Enter \/ B!Call \/ B!CallFiq \/ B!FiqWinEnd \/ B!ThreadReturn \/ B!Fiq
         \/ B!Irq \/ B!NsecIrq \/ B!Stopped \/ UNCHANGED B!vars
  PROVE  BootInv'
<1> USE CoreAssumption, BootingIs DEF BootInv, B!TypeOK, ReadyInv, TakenInv, StackInv,
        Printing, MmuOff, MmuOn, UartMapped, Cleared, CanariesSet,
              StacksSet, ThreadsSet, Masked, HandlersSet, MonitorOn, NsecSet, GicOn, Running,
              B!Place, B!machine, B!Uses, B!Prints, B!Nothing, B!Global, B!PreBss, B!Bss,
              B!Device, B!Both
<1>1. CASE B!Enter
  BY <1>1 DEF B!Enter, B!CheckCanaries, B!Taken, B!Clash, B!vars
<1>2. CASE B!Call
  BY <1>2 DEF B!Call, B!CheckCanaries, B!Taken, B!Clash, B!vars
<1>3. CASE B!CallFiq
  BY <1>3 DEF B!CallFiq, B!CheckCanaries, B!Taken, B!Clash, B!vars
<1>4. CASE B!FiqWinEnd
  BY <1>4 DEF B!FiqWinEnd, B!CheckCanaries, B!Taken, B!Clash, B!vars
<1>5. CASE B!ThreadReturn
  BY <1>5 DEF B!ThreadReturn, B!CheckCanaries, B!Taken, B!Clash, B!vars
<1>6. CASE B!Fiq
  <2>1. /\ bootpc \in {"fiqwin", "thread"} /\ "F" \in pend
        /\ vbar = "thread" /\ vbar' = vbar /\ sps' = sps /\ mapped' = mapped /\ mem' = mem
        /\ mask' = mask /\ smashed' = smashed /\ deep' = deep
    BY <1>6 DEF B!Fiq, B!Taken
  <2>2. mmu' = mmu
    BY <1>6 DEF B!Fiq
  <2>3. CASE smashed # {} /\ bootpc' = "halt" /\ pend' = pend /\ bad' = bad
    BY <2>1, <2>2, <2>3
  <2>4. CASE bootpc' = bootpc /\ pend' = pend \ {"F"} /\ B!Fiq
             /\ bad' = bad \cup B!Clash \cup ({"fiq"} \ sps)
                      \cup {g \in {"handlers", "gic", "kprintf_data"} : mem[g] # "set"}
                      \cup ({"uart", "gic_regs"} \ mapped)
    <3>1. B!Clash = {}
      BY <2>1 DEF B!Clash
    <3>2. {"fiq"} \ sps = {}
      BY <2>1
    <3>3. {"uart", "gic_regs"} \ mapped = {}
      BY <2>1
    <3>4. {g \in {"handlers", "gic", "kprintf_data"} : mem[g] # "set"} = {}
      BY <2>1
    <3>5. bad' = {}
      BY <2>4, <3>1, <3>2, <3>3, <3>4
    <3> QED BY <2>1, <2>2, <2>4, <3>5
  <2> QED BY <1>6, <2>3, <2>4 DEF B!Fiq, B!CheckCanaries
<1>7. CASE B!Irq
  BY <1>7 DEF B!Irq, B!CheckCanaries, B!Taken, B!Clash, B!vars
<1>8. CASE B!NsecIrq
  BY <1>8 DEF B!NsecIrq, B!CheckCanaries, B!Taken, B!Clash, B!vars
<1>9. CASE B!Stopped
  BY <1>9 DEF B!Stopped, B!CheckCanaries, B!Taken, B!Clash, B!vars
<1>10. CASE UNCHANGED B!vars
  BY <1>10 DEF B!vars
<1> QED BY <1>1, <1>2, <1>3, <1>4, <1>5, <1>6, <1>7, <1>8, <1>9, <1>10

(* Interrupts are raised, the boot vectors spin, a thread's stack grows.   *)
LEMMA EnvInv ==
  ASSUME BootInv,
         \/ \E e \in B!Both : B!Raise(e) \/ B!Spin(e)
         \/ \E words \in 1 .. MaxDeep : B!Push(words)
  PROVE  BootInv'
<1> USE CoreAssumption, BootingIs DEF BootInv, B!TypeOK, ReadyInv, TakenInv, StackInv,
        Printing, MmuOff, MmuOn, UartMapped, Cleared, CanariesSet,
              StacksSet, ThreadsSet, Masked, HandlersSet, MonitorOn, NsecSet, GicOn, Running,
              B!Place, B!machine, B!Uses, B!Prints, B!Nothing, B!Global, B!PreBss, B!Bss,
              B!Device, B!Both
<1>1. ASSUME NEW e \in B!Both, B!Raise(e) PROVE BootInv'
  BY <1>1 DEF B!Raise
<1>2. ASSUME NEW e \in B!Both, B!Spin(e) PROVE BootInv'
  BY <1>2 DEF B!Spin, B!Taken
<1>3. ASSUME NEW words \in 1 .. MaxDeep, B!Push(words) PROVE BootInv'
  <2>1. smashed' # {} => deep' > StackSize
    BY <1>3, Untouched DEF B!Push
  <2>2. smashed' \subseteq DOMAIN B!Canary
    BY <1>3 DEF B!Push, B!Overwritten
  <2> QED BY <1>3, <2>1, <2>2 DEF B!Push
<1> QED BY <1>1, <1>2, <1>3

(* So every step keeps the invariant.                                      *)
LEMMA BootNext == BootInv /\ [B!Next]_(B!vars) => BootInv'
  BY BootStepInv, LateInv, EnvInv DEF B!Next

(* It says what a boot has to provide.                                     *)
LEMMA BootMeans == BootInv => B!BootSound
  BY DEF BootInv, B!BootSound, B!GlobalsReady, B!DevicesMapped, B!TmpStackFree,
     B!CanaryMeansOverflow, StackInv

(* main_init() and reset: whatever the memory held and whatever was        *)
(* pending, nothing is used before it is ready, no device before it is     *)
(* mapped, the handlers' stack is free when they may run, and a canary is  *)
(* wrong only after an overflow; for any size of the stacks.               *)
THEOREM BootIsSound == B!Spec => []B!BootSound
  BY BootInit, BootNext, BootMeans, PTL DEF B!Spec

(***************************************************************************)
(* The console.  The argument for NoCharLost: whoever is about to write    *)
(* has seen space.  Only another writer can take it away, and on one core  *)
(* that is the FIQ handler, whose last act before it returns is a flush.   *)
(***************************************************************************)
(* A context in uart_putc() of a character has one left to print, and all  *)
(* messages of the handler have a newline.                                 *)
Emitting == C!Putc \cup C!Writing \cup {"flush"}
MessageInv ==
  /\ \A x \in C!Context : place[x] \in {"char", "char_dr"} => left[x] > 0
  /\ place[FiqContext] \in Emitting => nl[FiqContext]

(* The life of an interrupt: pending until main_fiq() acknowledges it,     *)
(* active until it ends it.                                                *)
Before == place[FiqContext] = "iar" \/ (place[FiqContext] \in Emitting /\ next = "iar")
During == place[FiqContext] \in {"rx", "eoir"} \/ (place[FiqContext] \in Emitting /\ next = "rx")
IrqInv ==
  /\ place[FiqContext] \in Emitting => next \in {"iar", "rx", "exit"}
  /\ Before => rx >= RxTrigger
  /\ IF During THEN acked /\ handled ELSE ~handled

ConsoleInv == C!TypeOK /\ MessageInv /\ IrqInv

(* The FIFO is empty when the handler returns.                             *)
SpaceInv ==
  /\ C!NoCharLost
  /\ place[FiqContext] = "exit" => C!TXFE

LEMMA ConsoleInit == ASSUME C!ConsoleConstants, C!Init PROVE ConsoleInv /\ SpaceInv
<1>1. C!TypeOK
  <2>1. /\ place \in [C!Context -> {"idle"}]
        /\ left \in [C!Context -> {0}] /\ nl \in [C!Context -> {FALSE}]
    BY Zenon DEF C!Init
  <2>2. tx \in 0 .. TxDepth /\ rx \in 0 .. RxDepth /\ 0 \in 0 .. MaxLen
    BY DEF C!ConsoleConstants, C!Init
  <2> QED BY <2>1, <2>2 DEF C!Init, C!TypeOK, C!FiqPlace
<1>2. \A x \in C!Context : place[x] = "idle"
  BY DEF C!Init
<1>3. FiqContext \in C!Context
  BY DEF C!Context
<1>4. MessageInv /\ C!NoCharLost
  BY <1>2, <1>3 DEF MessageInv, Emitting, C!Putc, C!Writing, C!NoCharLost
<1>5. IrqInv /\ SpaceInv
  BY <1>2, <1>3, <1>4 DEF C!Init, IrqInv, Before, During, Emitting, C!Putc, C!Writing, SpaceInv
<1> QED BY <1>1, <1>4, <1>5 DEF ConsoleInv

LEMMA ConsoleTypeStep ==
  ASSUME C!ConsoleConstants, C!TypeOK, MessageInv, [C!Next]_(C!vars)
  PROVE  C!TypeOK'
  <1> USE DEF C!ConsoleConstants, C!TypeOK, C!Context, C!Goto
  <1>1. CASE C!Transmit \/ C!Receive
    BY <1>1 DEF C!Transmit, C!Receive
  <1>2. ASSUME NEW x \in CPU, C!Kprintf(x) PROVE C!TypeOK'
    BY <1>2 DEF C!Kprintf, C!Message, C!After, C!Putc
  <1>3. ASSUME NEW x \in C!Context, C!Output(x) PROVE C!TypeOK'
    <2>1. CASE C!PutcWait(x)
      BY <2>1 DEF C!PutcWait, C!Write, C!Putc, C!Writing
    <2>2. CASE C!PutcChar(x)
      <3>1. tx' \in 0 .. TxDepth
        BY <2>2 DEF C!PutcChar, C!Dr, C!TXFF
      <3>2. left[x] - 1 \in 0 .. MaxLen
        BY <2>2 DEF C!PutcChar, MessageInv
      <3>3. left' \in [C!Context -> 0 .. MaxLen]
        BY <2>2, <3>2 DEF C!PutcChar
      <3>4. C!After(left[x] - 1, nl[x]) \in {"char", "newline", "done"}
        BY <3>2 DEF C!After
      <3>5. place' \in [C!Context ->
                          {"idle", "flush"} \cup C!Putc \cup C!Writing \cup C!FiqPlace]
        BY <2>2, <3>4 DEF C!PutcChar, C!Back, C!Putc
      <3> QED
        BY <2>2, <3>1, <3>3, <3>5 DEF C!PutcChar
    <2>3. CASE C!PutcNewline(x)
      BY <2>3 DEF C!PutcNewline, C!Dr, C!TXFF, C!Putc
    <2>4. CASE C!PutcReturn(x)
      BY <2>4 DEF C!PutcReturn, C!Dr, C!TXFF
    <2>5. CASE C!Flush(x)
      BY <2>5 DEF C!Flush, C!Back
    <2> QED BY <1>3, <2>1, <2>2, <2>3, <2>4, <2>5 DEF C!Output
  <1>4. CASE C!FiqEntry
    BY <1>4 DEF C!FiqEntry, C!FiqPrint, C!Message, C!FiqPlace, C!Putc
  <1>5. CASE C!ReadIar
    BY <1>5 DEF C!ReadIar, C!FiqPlace, C!Pending
  <1>6. CASE C!ReadRx
    <2>1. CASE C!RXFE
      BY <1>6, <2>1 DEF C!ReadRx, C!FiqPlace
    <2>2. CASE ~C!RXFE
      <3>1. rx' \in 0 .. RxDepth
        BY <1>6, <2>2 DEF C!ReadRx, C!RXFE
      <3>2. C!FiqPrint("rx") /\ UNCHANGED <<tx, handled, acked>>
        BY <1>6, <2>2 DEF C!ReadRx
      <3> QED BY <3>1, <3>2 DEF C!FiqPrint, C!Message, C!FiqPlace, C!Putc
    <2> QED BY <2>1, <2>2
  <1>7. CASE C!WriteEoir
    <2>1. handled' \in BOOLEAN
      BY <1>7, Zenon DEF C!WriteEoir
    <2> QED BY <1>7, <2>1 DEF C!WriteEoir, C!FiqPrint, C!Message, C!FiqPlace, C!Putc
  <1>7a. CASE C!FiqExit
    BY <1>7a DEF C!FiqExit
  <1>8. CASE UNCHANGED C!vars
    BY <1>8 DEF C!vars
  <1> QED BY <1>1, <1>2, <1>3, <1>4, <1>5, <1>6, <1>7, <1>7a, <1>8 DEF C!Next, C!FiqStep

LEMMA MessageStep ==
  ASSUME C!ConsoleConstants, C!TypeOK, MessageInv, [C!Next]_(C!vars)
  PROVE  MessageInv'
  <1> USE DEF C!ConsoleConstants, C!TypeOK, C!Context, C!Goto, MessageInv, Emitting
  <1>1. CASE C!Transmit \/ C!Receive \/ UNCHANGED C!vars
    BY <1>1 DEF C!Transmit, C!Receive, C!vars
  <1>2. ASSUME NEW x \in CPU, C!Kprintf(x) PROVE MessageInv'
    BY <1>2 DEF C!Kprintf, C!Message, C!After
  <1>3. ASSUME NEW x \in C!Context, C!Output(x) PROVE MessageInv'
    <2>1. CASE C!PutcWait(x)
      BY <2>1 DEF C!PutcWait, C!Write, C!Putc, C!Writing
    <2>2. CASE C!PutcChar(x)
      <3>1. left[x] - 1 \in 0 .. MaxLen /\ left'[x] = left[x] - 1
        BY <2>2 DEF C!PutcChar
      <3>2. CASE left[x] - 1 > 0
        BY <2>2, <3>1, <3>2 DEF C!PutcChar, C!After, C!Putc, C!Writing
      <3>3. CASE left[x] - 1 = 0 /\ nl[x]
        BY <2>2, <3>1, <3>3 DEF C!PutcChar, C!After, C!Putc, C!Writing
      <3>4. CASE left[x] - 1 = 0 /\ ~nl[x]
        <4>1. x # FiqContext
          BY <2>2, <3>4 DEF C!PutcChar, C!Writing
        <4> QED BY <2>2, <3>1, <3>4, <4>1 DEF C!PutcChar, C!After, C!Back
      <3> QED BY <3>1, <3>2, <3>3, <3>4
    <2>3. CASE C!PutcNewline(x) \/ C!PutcReturn(x)
      BY <2>3 DEF C!PutcNewline, C!PutcReturn, C!Writing
    <2>4. CASE C!Flush(x)
      BY <2>4 DEF C!Flush, C!Back, C!FiqPlace, C!Putc, C!Writing
    <2> QED BY <1>3, <2>1, <2>2, <2>3, <2>4 DEF C!Output
  <1>4. CASE C!FiqEntry \/ C!WriteEoir
    BY <1>4 DEF C!FiqEntry, C!WriteEoir, C!FiqPrint, C!Message
  <1>5. CASE C!ReadRx
    BY <1>5 DEF C!ReadRx, C!FiqPrint, C!Message, C!Putc, C!Writing
  <1>6. CASE C!ReadIar \/ C!FiqExit
    BY <1>6 DEF C!ReadIar, C!FiqExit, C!Putc, C!Writing
  <1> QED BY <1>1, <1>2, <1>3, <1>4, <1>5, <1>6 DEF C!Next, C!FiqStep

LEMMA IrqStep == ASSUME C!ConsoleConstants, ConsoleInv, [C!Next]_(C!vars) PROVE IrqInv'
  <1> USE DEF C!ConsoleConstants, ConsoleInv, C!TypeOK, C!Context, C!Goto, IrqInv, Before,
          During, Emitting,
         C!Putc, C!Writing, C!FiqPlace
  <1>1. CASE C!Transmit \/ C!Receive \/ UNCHANGED C!vars
    BY <1>1 DEF C!Transmit, C!Receive, C!vars
  <1>2. ASSUME NEW x \in CPU, C!Kprintf(x) PROVE IrqInv'
    BY <1>2 DEF C!Kprintf
  <1>3. ASSUME NEW x \in C!Context, C!Output(x) PROVE IrqInv'
    <2>0. UNCHANGED <<rx, handled, acked, next>>
      BY <1>3 DEF C!Output, C!PutcWait, C!PutcChar, C!PutcNewline, C!PutcReturn, C!Flush
    <2>1. \/ place'[FiqContext] = place[FiqContext]
          \/ place[FiqContext] \in Emitting /\ place'[FiqContext] \in Emitting
          \/ place[FiqContext] = "flush" /\ place'[FiqContext] = next
      <3>1. CASE x # FiqContext
        BY <1>3, <3>1 DEF C!Output, C!PutcWait, C!PutcChar, C!PutcNewline, C!PutcReturn, C!Flush
      <3>2. CASE x = FiqContext /\ C!PutcChar(x)
        <4>1. C!After(left[x] - 1, nl[x]) \in {"char", "newline"}
          BY <3>2 DEF C!PutcChar, MessageInv, C!After
        <4> QED BY <3>2, <4>1 DEF C!PutcChar
      <3>3. CASE x = FiqContext /\ ~C!PutcChar(x)
        BY <1>3, <3>3 DEF C!Output, C!PutcWait, C!PutcNewline, C!PutcReturn, C!Flush, C!Back,
           C!Write
      <3> QED BY <3>1, <3>2, <3>3
    <2> QED BY <2>0, <2>1
  <1>4. CASE C!FiqEntry
    BY <1>4 DEF C!FiqEntry, C!FiqRuns, C!FiqPrint, C!Pending
  <1>5. CASE C!ReadIar
    BY <1>5 DEF C!ReadIar, C!Pending
  <1>6. CASE C!ReadRx
    <2>1. CASE C!RXFE
      BY <1>6, <2>1 DEF C!ReadRx
    <2>2. CASE ~C!RXFE
      BY <1>6, <2>2 DEF C!ReadRx, C!FiqPrint
    <2> QED BY <2>1, <2>2
  <1>7. CASE C!WriteEoir
    <2>1. ~handled' /\ next' = "exit" /\ place'[FiqContext] = "char"
      BY <1>7 DEF C!WriteEoir, C!FiqPrint
    <2> QED BY <2>1
  <1>8. CASE C!FiqExit
    <2>1. handled' = handled /\ place'[FiqContext] = "idle"
      BY <1>8 DEF C!FiqExit
    <2> QED BY <1>8, <2>1 DEF C!FiqExit
  <1> QED BY <1>1, <1>2, <1>3, <1>4, <1>5, <1>6, <1>7, <1>8 DEF C!Next, C!FiqStep

LEMMA ConsoleInvariant == C!Spec => []ConsoleInv
<1>1. C!Init => ConsoleInv
  BY ConsoleInit, ConsoleAssumption
<1>2. ConsoleInv /\ [C!Next]_(C!vars) => ConsoleInv'
  BY ConsoleAssumption, ConsoleTypeStep, MessageStep, IrqStep DEF ConsoleInv
<1> QED BY <1>1, <1>2, PTL DEF C!Spec

(* The variables are well typed.                                           *)
THEOREM ConsoleTypes == C!Spec => []C!TypeOK
<1>1. ConsoleInv => C!TypeOK
  BY DEF ConsoleInv
<1> QED BY <1>1, ConsoleInvariant, PTL

(* main_fiq() acknowledges and ends the UART's interrupt and no other,     *)
(* although it never compares what gic_read_iar() gives it.                *)
THEOREM AckedAndEndedHolds == C!Spec => []AckedAndEnded
<1>1. ConsoleInv => AckedAndEnded
  BY DEF ConsoleInv, IrqInv, Before, During, AckedAndEnded, C!AckedAndEnded, C!FiqRuns,
     Emitting, C!Putc, C!Writing
<1> QED BY <1>1, ConsoleInvariant, PTL

LEMMA SpaceStep ==
  ASSUME C!ConsoleConstants, CPU = {FiqCpu}, ConsoleInv, SpaceInv, [C!Next]_(C!vars)
  PROVE  SpaceInv'
  <1> USE DEF C!ConsoleConstants, ConsoleInv, C!TypeOK, C!Context, C!Goto, SpaceInv,
          C!NoCharLost, C!Running,
         C!FiqRuns, C!TXFE, C!TXFF, C!Writing
  <1>1. CASE C!Transmit \/ C!Receive \/ UNCHANGED C!vars
    BY <1>1 DEF C!Transmit, C!Receive, C!vars
  <1>2. ASSUME NEW x \in CPU, C!Kprintf(x) PROVE SpaceInv'
    BY <1>2 DEF C!Kprintf, C!After
  <1>3. ASSUME NEW x \in C!Context, C!Output(x) PROVE SpaceInv'
    <2>1. CASE C!PutcWait(x)
      <3>1. tx' = tx /\ place[x] # "idle" /\ place'[x] # "exit" /\ place'[x] # "idle"
        BY <2>1 DEF C!PutcWait, C!Putc, C!Write
      <3>2. \A y \in C!Context : y # x => place'[y] = place[y]
        BY <2>1 DEF C!PutcWait
      <3> QED BY <2>1, <3>1, <3>2 DEF C!PutcWait
    <2>2. CASE C!PutcChar(x)
      <3>1. C!After(left[x] - 1, nl[x]) \in {"char", "newline", "done"}
        BY <2>2 DEF C!PutcChar, MessageInv, C!After
      <3>2. x = FiqContext => C!After(left[x] - 1, nl[x]) \in {"char", "newline"}
        BY <2>2 DEF C!PutcChar, MessageInv, C!After, Emitting
      <3> QED BY <2>2, <3>1, <3>2 DEF C!PutcChar, C!Back
    <2>3. CASE C!PutcNewline(x) \/ C!PutcReturn(x)
      BY <2>3 DEF C!PutcNewline, C!PutcReturn
    <2>4. CASE C!Flush(x)
      BY <2>4 DEF C!Flush, C!Back, C!FiqPlace
    <2> QED BY <1>3, <2>1, <2>2, <2>3, <2>4 DEF C!Output
  <1>4. CASE C!FiqEntry \/ C!ReadIar \/ C!ReadRx \/ C!WriteEoir
    BY <1>4 DEF C!FiqEntry, C!ReadIar, C!ReadRx, C!WriteEoir, C!FiqPrint
  <1>5. CASE C!FiqExit
    BY <1>5 DEF C!FiqExit
  <1> QED BY <1>1, <1>2, <1>3, <1>4, <1>5 DEF C!Next, C!FiqStep

(* In the shipped configuration, with one core, no character is lost.      *)
THEOREM NoCharLostHolds == ASSUME CPU = {FiqCpu} PROVE C!Spec => []NoCharLost
<1>1. C!Init => SpaceInv
  BY ConsoleInit, ConsoleAssumption
<1>2. ConsoleInv /\ SpaceInv /\ [C!Next]_(C!vars) => SpaceInv'
  BY SpaceStep, ConsoleAssumption
<1>3. SpaceInv => NoCharLost
  BY DEF SpaceInv, NoCharLost
<1> QED BY <1>1, <1>2, <1>3, ConsoleInvariant, PTL DEF C!Spec

(***************************************************************************)
(* The composition.  Its parts go their own ways, each by its              *)
(* specification.                                                          *)
(***************************************************************************)
LEMMA PartsOfCore == CoreSpec => B!Spec /\ C!Spec /\ Init /\ [][Next]_vars
<1>1. CoreInit => B!Init /\ C!Init /\ Init
  BY DEF CoreInit
<1>2. [CoreNext]_coreVars => [B!Next]_(B!vars) /\ [C!Next]_(C!vars) /\ [Next]_vars
  <2>1. CASE UNCHANGED vars
    <3>1. CASE UNCHANGED bootVars \/ UNCHANGED consoleVars
      BY <2>1, <3>1 DEF CoreNext, coreVars, bootVars, consoleVars, B!vars, C!vars, vars
    <3> QED BY <2>1, <3>1 DEF CoreNext, coreVars
  <2>2. CASE Next /\ UNCHANGED <<part, bootVars, consoleVars>>
    BY <2>2 DEF bootVars, consoleVars, B!vars, C!vars
  <2> QED BY <2>1, <2>2 DEF CoreNext, coreVars
<1> QED BY <1>1, <1>2, PTL DEF CoreSpec, B!Spec, C!Spec

(* Nothing is used before it is ready, the handlers find their stack free, *)
(* and check_canaries() halts the core only after an overflow: what the    *)
(* run checks for one size of the stacks.                                  *)
THEOREM CoreBootIsSound == CoreSpec => []BootSound
<1>1. B!BootSound => BootSound
  BY DEF BootSound
<1> QED BY <1>1, BootIsSound, PartsOfCore, PTL

(* In the shipped configuration, with one core, no character is lost.      *)
THEOREM CoreLosesNoChar == ASSUME CPU = {FiqCpu} PROVE CoreSpec => []NoCharLost
BY NoCharLostHolds, PartsOfCore, PTL

(* The handler ends what it acknowledged, on any number of cores.          *)
THEOREM CoreEndsWhatItAcks == CoreSpec => []AckedAndEnded
BY AckedAndEndedHolds, PartsOfCore, PTL

(* The monitor's guarantees in the composition with the boot.              *)
THEOREM CoreMonitorInvariant == CoreSpec => []MonInv
<1>1. MonInv /\ [Next]_vars => MonInv'
  BY TypeStep, WayStep DEF MonInv
<1> QED BY <1>1, InitInv, PartsOfCore, PTL
================================================================================
