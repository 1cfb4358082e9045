------------------------------- MODULE Monitor -------------------------------
(***************************************************************************)
(* The secure monitor (sm/sm_asm.S, sm/sm.c) of one core and the part of   *)
(* kern/thread_asm.S it hands over to.  The core's general purpose and     *)
(* banked registers exist once and are used by both worlds: the monitor    *)
(* changes them over, by an SMC of either world or by an FIQ that hits the *)
(* non-secure world.  What a world does with the registers while it runs   *)
(* is any of the register files it may leave behind.  The contexts are per *)
(* core and no other core reads them, so that one core is enough.          *)
(***************************************************************************)
CONSTANTS Val,          \* register contents
          NsecContents, \* register files the non-secure world leaves
          SecContents,  \* register files the secure world leaves at an SMC
          Zero,         \* what the BSS is cleared to
          Junk,         \* what scratch registers are left with
          NsecEntry,    \* where the non-secure world is to start (main_init)
          HandleFiq     \* TEESMC32_CALL_HANDLE_FIQ

(* r5 stands for r5-r7, r9 for r8-r11; a banked mode for its spsr, sp and  *)
(* lr; ret for lr and spsr of monitor mode, what the monitor returns to.   *)
Low  == {"r0", "r1", "r2", "r3"}
High == {"r4", "r5", "r9", "r12"}
Bank == {"usr", "irq", "svc", "abt", "und"}
Reg  == Low \cup High \cup Bank \cup {"ret"}

FrameReg == Low \cup {"ret"}                 \* on the monitor's stack
SecCtx   == Bank \cup {"ret"}                \* struct sm_sec_ctx
NsecCtx  == Bank \cup High \cup {"ret"}      \* struct sm_nsec_ctx

ASSUME MonitorAssumption ==
  /\ {Zero, Junk, NsecEntry, HandleFiq} \subseteq Val
  /\ NsecContents \subseteq [Reg -> Val]
  /\ SecContents \subseteq [Reg -> Val]

VARIABLES
  pc,     \* where the core executes
  scr,    \* the bits NS and FIQ of SCR
  reg,    \* the registers
  frame,  \* what srsdb and push {r0-r3} put on the monitor's stack
  nctx,   \* sm_nsec_ctx[] of this core
  sctx,   \* sm_sec_ctx[] of this core
  fiq,    \* an FIQ is pending at the core
  via,    \* history: how the non-secure world was left last
  nleft,  \* history: its registers at that moment
  sleft   \* history: the secure world's registers when it was left last

vars == <<pc, scr, reg, frame, nctx, sctx, fiq, via, nleft, sleft>>
context == <<nctx, sctx>>
history == <<via, nleft, sleft>>

World   == {"nsec", "recv", "fiqwin", "call"}
ToSec   == {"smc_ret_to_sec", "fiq_ret_to_sec"}
InSec   == {"smc_restore_sec", "fiq_restore_sec"}
ToNsec  == {"smc_ret_to_nsec", "restore_nsec"}
Exit    == {"smc_exit", "fiq_exit"}
Place   == World \cup ToSec \cup InSec \cup ToNsec \cup Exit

(***************************************************************************)
(* Register files                                                          *)
(***************************************************************************)
Clobber(f, S) == [r \in Reg |-> IF r \in S THEN Junk ELSE f[r]]

(* sm_get_nsec_ctx, sm_get_sec_ctx: C functions keep r4-r11 only           *)
CCall(f) == Clobber(f, Low \cup {"r12"})

(* sm_save_modes_regs, and r4-r12 when the context has them                *)
Saved(f, C) == [r \in C |-> IF r = "ret" THEN frame["ret"] ELSE f[r]]

(* sm_restore_modes_regs, and r4-r12 when the context has them             *)
Restored(f, ctx, C) == [r \in Reg |-> IF r \in C \ {"ret"} THEN ctx[r] ELSE f[r]]

(***************************************************************************)
(* Boot: in the secure world, after main_init has set nsec_ctx->mon_lr     *)
(***************************************************************************)
Init ==
  /\ pc = "call"
  /\ scr = {}
  /\ reg = [r \in Reg |-> Zero]
  /\ frame = [r \in FrameReg |-> Zero]
  /\ nctx = [r \in NsecCtx |-> IF r = "ret" THEN NsecEntry ELSE Zero]
  /\ sctx = [r \in SecCtx |-> Zero]
  /\ fiq = FALSE
  /\ via = "boot"
  /\ nleft = [r \in Reg |-> Zero]
  /\ sleft = [r \in Reg |-> Zero]

(***************************************************************************)
(* sm_smc_entry                                                            *)
(***************************************************************************)
Push(f) == frame' = [r \in FrameReg |-> f[r]]

(* srsdb, push, clrex, tst r1, #SCR_NS; .smc_ret_to_sec clears SCR at once *)
SmcEntry(f) ==
  /\ Push(f)
  /\ reg' = Clobber(f, {"r1"})
  /\ \/ /\ "NS" \in scr
        /\ pc' = "smc_ret_to_sec"
        /\ scr' = scr \ {"NS", "FIQ"}
     \/ /\ "NS" \notin scr
        /\ pc' = "smc_ret_to_nsec"
        /\ UNCHANGED scr
  /\ UNCHANGED <<context, fiq>>

NsecSmc ==
  /\ pc = "nsec"
  /\ \E f \in NsecContents : SmcEntry(f) /\ nleft' = f
  /\ via' = "smc"
  /\ UNCHANGED sleft

SecSmc ==
  /\ pc = "call"
  /\ \E f \in SecContents : SmcEntry(f) /\ sleft' = f
  /\ UNCHANGED <<via, nleft>>

(* Mutant: sm_get_nsec_ctx for sm_get_sec_ctx.                             *)
SaveSec_Swapped ==
  /\ pc = "smc_ret_to_nsec"
  /\ pc' = "restore_nsec"
  /\ nctx' = [r \in NsecCtx |-> IF r \in SecCtx THEN Saved(CCall(reg), SecCtx)[r] ELSE nctx[r]]
  /\ reg' = CCall(reg)
  /\ UNCHANGED <<scr, frame, sctx, fiq, history>>

SaveSec ==
  /\ pc = "smc_ret_to_nsec"
  /\ pc' = "restore_nsec"
  /\ sctx' = Saved(CCall(reg), SecCtx)
  /\ reg' = CCall(reg)
  /\ UNCHANGED <<scr, frame, nctx, fiq, history>>

(* Modes, then ldm r0!, {r4-r12}, then SCR_NS | SCR_FIQ                    *)
RestoreNsec ==
  /\ pc = "restore_nsec"
  /\ pc' = "smc_exit"
  /\ reg' = Restored(CCall(reg), nctx, NsecCtx)
  /\ frame' = [frame EXCEPT !["ret"] = nctx["ret"]]
  /\ scr' = scr \cup {"NS", "FIQ"}
  /\ UNCHANGED <<context, fiq, history>>

(* Mutant: r12 is not kept over the C call.                                *)
SaveNsec_NoPush ==
  /\ pc \in ToSec
  /\ pc' = IF pc = "smc_ret_to_sec" THEN "smc_restore_sec" ELSE "fiq_restore_sec"
  /\ nctx' = Saved(CCall(reg), NsecCtx)
  /\ reg' = CCall(reg)
  /\ UNCHANGED <<scr, frame, sctx, fiq, history>>

(* push {r12, lr} and pop {r12, lr} keep r12 over the C call               *)
SaveNsec ==
  LET f == [CCall(reg) EXCEPT !["r12"] = reg["r12"]]
  IN  /\ pc \in ToSec
      /\ pc' = IF pc = "smc_ret_to_sec" THEN "smc_restore_sec" ELSE "fiq_restore_sec"
      /\ nctx' = Saved(f, NsecCtx)
      /\ reg' = f
      /\ UNCHANGED <<scr, frame, sctx, fiq, history>>

RestoreSec ==
  /\ pc \in InSec
  /\ pc' = IF pc = "smc_restore_sec" THEN "smc_exit" ELSE "fiq_exit"
  /\ reg' = Restored(CCall(reg), sctx, SecCtx)
  /\ frame' = [frame EXCEPT !["ret"] = sctx["ret"]]
  /\ UNCHANGED <<scr, context, fiq, history>>

(* .smc_exit: pop {r0-r3}; rfefd, into the world SCR says                  *)
SmcExit ==
  /\ pc = "smc_exit"
  /\ pc' = IF "NS" \in scr THEN "nsec" ELSE "recv"
  /\ reg' = [r \in Reg |-> IF r \in FrameReg THEN frame[r] ELSE reg[r]]
  /\ UNCHANGED <<scr, frame, context, fiq, history>>

(***************************************************************************)
(* sm_fiq_entry.  SCR.FIQ sends the FIQ to monitor mode; the non-secure    *)
(* world cannot mask it.                                                   *)
(***************************************************************************)
(* Mutant: sm_fiq_entry leaves SCR alone.                                  *)
NsecFiq_KeepsScr ==
  /\ pc = "nsec"
  /\ fiq
  /\ "FIQ" \in scr
  /\ \E f \in NsecContents :
       /\ Push(f)
       /\ reg' = Clobber(f, {"r1"})
       /\ nleft' = f
  /\ pc' = "fiq_ret_to_sec"
  /\ via' = "fiq"
  /\ UNCHANGED <<scr, context, fiq, sleft>>

NsecFiq ==
  /\ pc = "nsec"
  /\ fiq
  /\ "FIQ" \in scr
  /\ \E f \in NsecContents :
       /\ Push(f)
       /\ reg' = Clobber(f, {"r1"})
       /\ nleft' = f
  /\ scr' = scr \ {"NS", "FIQ"}
  /\ pc' = "fiq_ret_to_sec"
  /\ via' = "fiq"
  /\ UNCHANGED <<context, fiq, sleft>>

(* pop {r1-r4}; ldr r0, =TEESMC32_CALL_HANDLE_FIQ; rfefd                   *)
FiqExit ==
  /\ pc = "fiq_exit"
  /\ pc' = "recv"
  /\ reg' = [reg EXCEPT !["r0"] = HandleFiq, !["r1"] = frame["r0"],
               !["r2"] = frame["r1"], !["r3"] = frame["r2"],
               !["r4"] = frame["r3"], !["ret"] = frame["ret"]]
  /\ UNCHANGED <<scr, frame, context, fiq, history>>

(***************************************************************************)
(* thread_recv_smc_call: ldr r9, =TEESMC32_CALL_HANDLE_FIQ; cmp r0, r9     *)
(***************************************************************************)
RecvSmcCall ==
  /\ pc = "recv"
  /\ pc' = IF reg["r0"] = HandleFiq THEN "fiqwin" ELSE "call"
  /\ reg' = [reg EXCEPT !["r9"] = HandleFiq]
  /\ UNCHANGED <<scr, frame, context, fiq, history>>

(* Mutant: the registers are returned where the monitor put them.          *)
Shifted_Not(f) == f

(* mov r0, r1 ... mov r3, r4                                               *)
Shifted(f) == [f EXCEPT !["r0"] = f["r1"], !["r1"] = f["r2"],
                        !["r2"] = f["r3"], !["r3"] = f["r4"]]

(* After the four nops a pending FIQ has been taken; cpsid f, thread_issue_smc *)
FiqReturn ==
  /\ pc = "fiqwin"
  /\ ~fiq
  /\ SmcEntry(Shifted(reg))
  /\ sleft' = Shifted(reg)
  /\ UNCHANGED <<via, nleft>>

(* thread_fiq_handler: in the window, or in a thread; keeps every register *)
ServeFiq ==
  /\ pc \in {"fiqwin", "call"}
  /\ fiq
  /\ "FIQ" \notin scr
  /\ fiq' = FALSE
  /\ UNCHANGED <<pc, scr, reg, frame, context, history>>

RaiseFiq ==
  /\ ~fiq
  /\ fiq' = TRUE
  /\ UNCHANGED <<pc, scr, reg, frame, context, history>>

(***************************************************************************)
(* The monitor and the secure world go on, and leave again.  A pending FIQ *)
(* is taken if the core is in the non-secure world again and again, even   *)
(* when that leaves by SMCs: an FIQ is not put off for ever by the stream  *)
(* it interrupts.  Nothing makes the non-secure world leave by itself.     *)
(***************************************************************************)
SecureStep ==
  \/ SecSmc \/ SaveSec \/ RestoreNsec \/ SaveNsec \/ RestoreSec
  \/ SmcExit \/ FiqExit \/ RecvSmcCall \/ FiqReturn

Next == SecureStep \/ NsecSmc \/ NsecFiq \/ ServeFiq \/ RaiseFiq

Fairness ==
  /\ WF_vars(SecureStep)
  /\ SF_vars(NsecFiq)
  /\ WF_vars(pc = "fiqwin" /\ ServeFiq)

Spec == Init /\ [][Next]_vars /\ Fairness

(***************************************************************************)
(* Properties                                                              *)
(***************************************************************************)
(* Types.  A context that gets more or fewer registers than its structure  *)
(* has runs into the next core's.                                          *)
TypeOK ==
  /\ pc \in Place
  /\ scr \subseteq {"NS", "FIQ"}
  /\ reg \in [Reg -> Val]
  /\ frame \in [FrameReg -> Val]
  /\ nctx \in [NsecCtx -> Val]
  /\ sctx \in [SecCtx -> Val]
  /\ fiq \in BOOLEAN
  /\ via \in {"boot", "smc", "fiq"}
  /\ nleft \in [Reg -> Val]
  /\ sleft \in [Reg -> Val]

(* An FIQ is invisible to the non-secure world it interrupts: after the    *)
(* monitor, the secure FIQ handler and the monitor again, every register   *)
(* is what it was (sm_asm.S:150-185, thread_asm.S:58-77).                  *)
FiqTransparent == pc = "nsec" /\ via = "fiq" => reg = nleft

(* An SMC of the non-secure world returns r0-r3 as the secure world left   *)
(* them and every other register as it was (teesmc.h: r4-7 preserved).     *)
CallPreserves ==
  pc = "nsec" /\ via = "smc" =>
    \A r \in Reg : reg[r] = IF r \in Low THEN sleft[r] ELSE nleft[r]

(* The secure world gets r0-r7 of the non-secure world's SMC.              *)
ArgumentsArrive ==
  pc \in {"recv", "call"} /\ via = "smc" =>
    \A r \in Low \cup {"r4", "r5"} : reg[r] = nleft[r]

(* The secure world finds its banked registers, and continues, where it    *)
(* issued its last SMC, whatever the non-secure world did since.           *)
SecureUndisturbed ==
  pc \in {"recv", "fiqwin", "call"} /\ via # "boot" =>
    \A r \in SecCtx : reg[r] = sleft[r]

(* The non-secure world runs with SCR.NS and SCR.FIQ, the secure world     *)
(* with neither: an FIQ goes to the monitor from the one and to            *)
(* thread_fiq_handler from the other.                                      *)
ScrOfWorld ==
  pc \in World => scr = IF pc = "nsec" THEN {"NS", "FIQ"} ELSE {}

(* A pending FIQ is handled, whichever world it hits.                      *)
FiqServed == fiq ~> ~fiq
================================================================================
