------------------------------- MODULE Threads -------------------------------
(***************************************************************************)
(* The thread scheduler of the trusted OS: arch/arm32/kern/thread.c,       *)
(* thread_asm.S and thread_private.h.                                      *)
(*                                                                         *)
(* Every core alternates between the non-secure world (pc "nsec") and the  *)
(* secure world, which it enters through an SMC or through an FIQ that the *)
(* monitor turns into one.  A standard call starts one of NUM_THREADS      *)
(* trusted threads; the thread returns to the non-secure world when it has *)
(* finished, when it makes a remote procedure call, or when an IRQ hits it,*)
(* and in the last two cases any core may resume it later.                 *)
(*                                                                         *)
(* One step is the code between two points where another core or an        *)
(* interrupt can interfere.  Registers are one word, a1: what a call       *)
(* passes, what a thread computes with and what the non-secure world       *)
(* returns.  a3 carries a thread number, a7 the client; a0 is the function *)
(* or the return code.  thread_global_lock is a Boolean: MutexProofs shows *)
(* that the LDREX/STREX code implements such a lock.                       *)
(***************************************************************************)
EXTENDS Integers

CONSTANTS CPU,          \* cores
          NUM_THREADS,  \* size of threads[]
          Clnt,         \* hypervisor client ids
          Val,          \* contents of a register; 0 among them
          Fn,           \* functions the non-secure world calls
          StrictNw      \* TRUE: the non-secure world resumes only what it was given

ASSUME ConstantsAssumption ==
    /\ NUM_THREADS \in Nat \ {0}
    /\ Clnt \subseteq Nat /\ 0 \in Clnt
    /\ Val \subseteq Nat /\ 0 \in Val
    /\ Fn \subseteq {"CALL", "FASTCALL", "FASTCALL_INVOKE"}
    /\ StrictNw \in BOOLEAN

Thread   == 0 .. NUM_THREADS - 1
ThreadId == 0 .. NUM_THREADS       \* what a resuming call may name; the last is bogus
NoThread == -1
NoClnt   == -1
Await    == -1                     \* the register comes from the non-secure world

VARIABLES
    \* threads[t]
    state, hyp_clnt_id,
    copy,           \* THREAD_FLAGS_COPY_ARGS_ON_RETURN of flags
    regs,           \* saved a1, pc and cpsr (the interrupt masks)
    \* thread_core_local[c]
    curr_thread,
    \* thread_global_lock
    lock,
    \* core c
    pc,             \* where the core is
    r,              \* its argument registers
    n,              \* the local variable n of the functions of thread.c
    mask,           \* the masked exceptions, {"I", "F"} at most
    at,             \* what a suspension saves: lr_irq and spsr_irq, or the RPC's return
    fret,           \* lr_fiq and spsr_fiq
    \* history, used by the properties only
    guest,          \* the client core c is serving, or NoClnt
    live            \* what thread t must find in a1 and pc, and its client in a7

threadVars == <<state, hyp_clnt_id, copy, regs>>
vars == <<state, hyp_clnt_id, copy, regs, curr_thread, lock, pc, r, n, mask, at, fret,
          guest, live>>

NoArgs == [a0 |-> "NONE", a1 |-> 0, a3 |-> 0, a7 |-> 0]
NoCtx  == [pc |-> "zero", cpsr |-> {}, copy |-> FALSE]
NoRet  == [pc |-> "zero", cpsr |-> {}]
Both   == {"I", "F"}

ThreadPc == {"thread", "rpc_return"}        \* code of a trusted thread
NextPc(c, to)  == pc' = [pc EXCEPT ![c] = to]
Halt(c) ==                                  \* __assert() spins for ever
    /\ NextPc(c, "halt")
    /\ UNCHANGED <<threadVars, curr_thread, lock, r, n, mask, at, fret, guest, live>>
At(c, from)    == pc[c] = from
HaveOneActive == \E t \in Thread : state[t] = "ACTIVE"
Holds(c) == IF pc[c] \in {"alloc_run", "resume_run"} THEN n[c] ELSE curr_thread[c]

(* thread_init_stack() for every stack, the zeroed BSS, and main_init() which *)
(* masks both exceptions before the first SMC out of the secure world.        *)
Init ==
    /\ state = [t \in Thread |-> "FREE"]
    /\ hyp_clnt_id = [t \in Thread |-> 0]
    /\ copy = [t \in Thread |-> FALSE]
    /\ regs = [t \in Thread |-> [a1 |-> 0, pc |-> "zero", cpsr |-> {}]]
    /\ curr_thread = [c \in CPU |-> NoThread]
    /\ lock = FALSE
    /\ pc = [c \in CPU |-> "nsec"]
    /\ r = [c \in CPU |-> NoArgs]
    /\ n = [c \in CPU |-> NoThread]
    /\ mask = [c \in CPU |-> Both]
    /\ at = [c \in CPU |-> NoCtx]
    /\ fret = [c \in CPU |-> NoRet]
    /\ guest = [c \in CPU |-> NoClnt]
    /\ live = [t \in Thread |-> [a1 |-> 0, pc |-> "zero", a7 |-> 0]]

--------------------------------------------------------------------------------
(* Entry from the non-secure world, through sm_smc_entry or sm_fiq_entry.     *)

EnterSecure(c, args) ==
    /\ At(c, "nsec")
    /\ NextPc(c, "recv")
    /\ r' = [r EXCEPT ![c] = args]
    /\ guest' = [guest EXCEPT ![c] = args.a7]
    /\ UNCHANGED <<threadVars, curr_thread, lock, n, mask, at, fret, live>>

NwCall(c, f, v, k) ==
    EnterSecure(c, [a0 |-> f, a1 |-> v, a3 |-> 0, a7 |-> k])

(* Thread t is suspended, the non-secure world has been told so, and no core  *)
(* is on its way to resume it.                                                *)
Delivered(t) ==
    /\ state[t] = "SUSPENDED"
    /\ \A c \in CPU : /\ pc[c] = "rpc_load" => n[c] # t
                      /\ r[c].a0 \in {"RPC", "RPC_IRQ", "RETURN_FROM_RPC"} => r[c].a3 # t

NwReturn(c, t, v, k) ==
    /\ StrictNw => t \in Thread /\ Delivered(t) /\ k = live[t].a7
    /\ EnterSecure(c, [a0 |-> "RETURN_FROM_RPC", a1 |-> v, a3 |-> t, a7 |-> k])

FiqNsec(c) == EnterSecure(c, [NoArgs EXCEPT !.a0 = "HANDLE_FIQ"])

--------------------------------------------------------------------------------
(* thread_recv_smc_call and thread_handle_smc_call().                         *)

RecvFiq(c) ==
    /\ At(c, "recv")
    /\ r[c].a0 = "HANDLE_FIQ"
    /\ NextPc(c, "fiqwin")
    /\ mask' = [mask EXCEPT ![c] = @ \ {"F"}]
    /\ UNCHANGED <<threadVars, curr_thread, lock, r, n, at, fret, guest, live>>

FiqWinEnd(c) ==
    /\ At(c, "fiqwin")
    /\ NextPc(c, "smc")
    /\ mask' = [mask EXCEPT ![c] = @ \cup {"F"}]
    /\ r' = [r EXCEPT ![c] = NoArgs]
    /\ UNCHANGED <<threadVars, curr_thread, lock, n, at, fret, guest, live>>

(* main_fastcall() returns as a C function; the result goes out as it is.     *)
RecvFast(c) ==
    /\ At(c, "recv")
    /\ r[c].a0 = "FASTCALL"
    /\ NextPc(c, "smc")
    /\ r' = [r EXCEPT ![c].a0 = "OK"]
    /\ UNCHANGED <<threadVars, curr_thread, lock, n, mask, at, fret, guest, live>>

RecvStd(c) ==
    /\ At(c, "recv")
    /\ r[c].a0 \in {"CALL", "RETURN_FROM_RPC"}
    /\ IF curr_thread[c] # NoThread
       THEN Halt(c)
       ELSE /\ NextPc(c, IF r[c].a0 = "CALL" THEN "alloc" ELSE "resume")
            /\ UNCHANGED <<threadVars, curr_thread, lock, r, n, mask, at, fret, guest, live>>

--------------------------------------------------------------------------------
(* lock_global().                                                             *)

LockedPc == [alloc |-> "alloc_check", resume |-> "resume_check",
             suspend |-> "suspend_cs", free |-> "free_cs"]

LockGlobal_NoWait(c) ==             \* variant: the lock is taken without waiting
    /\ pc[c] \in DOMAIN LockedPc
    /\ lock' = TRUE
    /\ NextPc(c, LockedPc[pc[c]])
    /\ UNCHANGED <<threadVars, curr_thread, r, n, mask, at, fret, guest, live>>

LockGlobal(c) ==
    /\ pc[c] \in DOMAIN LockedPc
    /\ ~lock
    /\ lock' = TRUE
    /\ NextPc(c, LockedPc[pc[c]])
    /\ UNCHANGED <<threadVars, curr_thread, r, n, mask, at, fret, guest, live>>

(* unlock_global() and the error return: the C code zeroes a1 to a3.          *)
Refused(c, a0) == [NoArgs EXCEPT !.a0 = a0, !.a7 = r[c].a7]

Refuse_KeepsLock(c, a0) ==          \* variant: no unlock on the error path
    /\ NextPc(c, "smc")
    /\ r' = [r EXCEPT ![c] = Refused(c, a0)]
    /\ UNCHANGED <<threadVars, curr_thread, lock, n, mask, at, fret, guest, live>>

Refuse(c, a0) ==
    /\ lock' = FALSE
    /\ NextPc(c, "smc")
    /\ r' = [r EXCEPT ![c] = Refused(c, a0)]
    /\ UNCHANGED <<threadVars, curr_thread, n, mask, at, fret, guest, live>>

(* state of thread t becomes ACTIVE, unlock_global().                         *)
Take(c, t, to) ==
    /\ state' = [state EXCEPT ![t] = "ACTIVE"]
    /\ lock' = FALSE
    /\ n' = [n EXCEPT ![c] = t]
    /\ NextPc(c, to)
    /\ UNCHANGED <<hyp_clnt_id, copy, regs, curr_thread, r, mask, at, fret, guest>>

(* have_one_active_thread(), read with the lock held; what follows it uses    *)
(* the answer in a step of its own.                                           *)
CheckActive(c, from, to) ==
    /\ At(c, from)
    /\ IF HaveOneActive
       THEN Refuse(c, "EBUSY")
       ELSE /\ NextPc(c, to)
            /\ UNCHANGED <<threadVars, curr_thread, lock, r, n, mask, at, fret, guest, live>>

--------------------------------------------------------------------------------
(* thread_alloc_and_run().                                                    *)

AllocCheck(c) == CheckActive(c, "alloc_check", "alloc_take")

AllocFull(c) ==
    /\ At(c, "alloc_take")
    /\ \A t \in Thread : state[t] # "FREE"
    /\ Refuse(c, "EBUSY")

AllocTake(c) ==
    /\ At(c, "alloc_take")
    /\ \E t \in Thread :
          /\ state[t] = "FREE"
          /\ \A u \in 0 .. t - 1 : state[u] # "FREE"
          /\ Take(c, t, "alloc_run")
          /\ live' = [live EXCEPT ![t] = [a1 |-> r[c].a1, pc |-> "thread", a7 |-> guest[c]]]

(* thread_resume(): the core takes over the saved context.                    *)
LoadContext(c, ctx) ==
    /\ r' = [r EXCEPT ![c] = [NoArgs EXCEPT !.a1 = ctx.a1]]
    /\ mask' = [mask EXCEPT ![c] = ctx.cpsr]
    /\ NextPc(c, ctx.pc)

AllocRun(c) ==
    /\ At(c, "alloc_run")
    /\ LET t == n[c]
           ctx == [a1 |-> r[c].a1, pc |-> "thread", cpsr |-> {}]
       IN  /\ curr_thread' = [curr_thread EXCEPT ![c] = t]
           /\ regs' = [regs EXCEPT ![t] = ctx]
           /\ hyp_clnt_id' = [hyp_clnt_id EXCEPT ![t] = r[c].a7]
           /\ LoadContext(c, ctx)
    /\ n' = [n EXCEPT ![c] = NoThread]
    /\ UNCHANGED <<state, copy, lock, at, fret, guest, live>>

--------------------------------------------------------------------------------
(* thread_resume_from_rpc().                                                  *)

ResumeCheck_Skipped(c) ==           \* variant: another thread may be active
    /\ At(c, "resume_check")
    /\ NextPc(c, "resume_take")
    /\ UNCHANGED <<threadVars, curr_thread, lock, r, n, mask, at, fret, guest, live>>

ResumeCheck(c) == CheckActive(c, "resume_check", "resume_take")

MayResume_AnyClient(c, t) ==        \* variant: the client is not compared
    t \in Thread /\ state[t] = "SUSPENDED"

MayResume_WrongState(c, t) ==       \* variant: the state compared is the wrong one
    t \in Thread /\ state[t] = "FREE" /\ hyp_clnt_id[t] = r[c].a7

MayResume(c, t) ==
    /\ t \in Thread
    /\ state[t] = "SUSPENDED"
    /\ hyp_clnt_id[t] = r[c].a7

ResumeTake(c) ==
    /\ At(c, "resume_take")
    /\ MayResume(c, r[c].a3)
    /\ Take(c, r[c].a3, "resume_run")
    /\ live' = [live EXCEPT ![r[c].a3].a1 = IF @ = Await THEN r[c].a1 ELSE @]

ResumeFail(c) ==
    /\ At(c, "resume_take")
    /\ ~MayResume(c, r[c].a3)
    /\ Refuse(c, "ERESUME")

(* The registers of the call replace saved ones only if the thread asked.     *)
ReturnedContext(c, t) ==
    IF copy[t] THEN [regs[t] EXCEPT !.a1 = r[c].a1] ELSE regs[t]

ResumeRun(c) ==
    /\ At(c, "resume_run")
    /\ LET t == n[c]
           ctx == ReturnedContext(c, t)
       IN  /\ curr_thread' = [curr_thread EXCEPT ![c] = t]
           /\ regs' = [regs EXCEPT ![t] = ctx]
           /\ copy' = [copy EXCEPT ![t] = FALSE]
           /\ LoadContext(c, ctx)
    /\ n' = [n EXCEPT ![c] = NoThread]
    /\ UNCHANGED <<state, hyp_clnt_id, lock, at, fret, guest, live>>

--------------------------------------------------------------------------------
(* Trusted threads.                                                           *)

Compute(c, v) ==
    /\ At(c, "thread")
    /\ r' = [r EXCEPT ![c].a1 = v]
    /\ live' = [live EXCEPT ![curr_thread[c]].a1 = v]
    /\ UNCHANGED <<threadVars, curr_thread, lock, pc, n, mask, at, fret, guest>>

(* thread_save_state(): exceptions masked, the registers of the current       *)
(* thread saved; thread_get_ctx_regs() asserts that there is one.             *)
SaveState(c, ctx) ==
    /\ IF curr_thread[c] = NoThread
       THEN NextPc(c, "halt") /\ UNCHANGED <<regs, at>>
       ELSE /\ NextPc(c, "suspend")
            /\ regs' = [regs EXCEPT ![curr_thread[c]].a1 = r[c].a1]
            /\ at' = [at EXCEPT ![c] = ctx]
    /\ mask' = [mask EXCEPT ![c] = Both]
    /\ UNCHANGED <<state, hyp_clnt_id, copy, curr_thread, lock, n, fret, guest>>

(* thread_rpc(), called by a thread, or by tee_invoke() in a fast call.       *)
ThreadRpc(c) ==
    /\ At(c, "thread") \/ (At(c, "recv") /\ r[c].a0 = "FASTCALL_INVOKE")
    /\ SaveState(c, [pc |-> "rpc_return", cpsr |-> mask[c], copy |-> TRUE])
    /\ r' = [r EXCEPT ![c] = NoArgs]
    /\ live' = IF curr_thread[c] = NoThread THEN live
               ELSE [live EXCEPT ![curr_thread[c]].a1 = Await,
                                 ![curr_thread[c]].pc = "rpc_return"]

(* thread_state_suspend() and thread_state_free() assert, with the lock held, *)
(* that the thread they stop is active.                                       *)
RunsActive(c) == curr_thread[c] # NoThread /\ state[curr_thread[c]] = "ACTIVE"

SuspendAs(c, s, curr) ==
    /\ LET t == curr_thread[c]
       IN  /\ copy' = [copy EXCEPT ![t] = at[c].copy]
           /\ regs' = [regs EXCEPT ![t].cpsr = at[c].cpsr, ![t].pc = at[c].pc]
           /\ state' = [state EXCEPT ![t] = s]
           /\ n' = [n EXCEPT ![c] = IF at[c].copy THEN t ELSE NoThread]
           /\ r' = [r EXCEPT ![c] = IF at[c].copy THEN NoArgs
                                    ELSE [NoArgs EXCEPT !.a0 = "RPC_IRQ", !.a3 = t]]
           /\ NextPc(c, IF at[c].copy THEN "rpc_load" ELSE "smc")
    /\ curr_thread' = [curr_thread EXCEPT ![c] = curr]
    /\ at' = [at EXCEPT ![c] = NoCtx]
    /\ lock' = FALSE
    /\ UNCHANGED <<hyp_clnt_id, mask, fret, guest, live>>

Suspend_Frees(c) ==                 \* variant: the slot is given away
    SuspendAs(c, "FREE", NoThread)
Suspend_KeepsCurr(c) ==             \* variant: curr_thread is not reset
    SuspendAs(c, "SUSPENDED", curr_thread[c])

Suspend(c) == SuspendAs(c, "SUSPENDED", NoThread)

SuspendCs(c) ==
    /\ At(c, "suspend_cs")
    /\ IF RunsActive(c) THEN Suspend(c) ELSE Halt(c)

(* thread_rpc() reads the request from the suspended thread's stack.          *)
RpcLoad(c) ==
    /\ At(c, "rpc_load")
    /\ NextPc(c, "smc")
    /\ r' = [r EXCEPT ![c] = [NoArgs EXCEPT !.a0 = "RPC", !.a3 = n[c]]]
    /\ n' = [n EXCEPT ![c] = NoThread]
    /\ UNCHANGED <<threadVars, curr_thread, lock, mask, at, fret, guest, live>>

(* .thread_rpc_return: the answer is stored in rv[] and thread_rpc() returns. *)
RpcReturn(c) ==
    /\ At(c, "rpc_return")
    /\ NextPc(c, "thread")
    /\ live' = [live EXCEPT ![curr_thread[c]].pc = "thread"]
    /\ UNCHANGED <<threadVars, curr_thread, lock, r, n, mask, at, fret, guest>>

ThreadReturn_IrqOnly(c) ==          \* variant: cpsid i instead of cpsid if
    /\ At(c, "thread")
    /\ mask' = [mask EXCEPT ![c] = {"I"}]
    /\ r' = [r EXCEPT ![c].a0 = "OK"]
    /\ NextPc(c, "free")
    /\ UNCHANGED <<threadVars, curr_thread, lock, n, at, fret, guest, live>>

(* thread_stdcall_entry, when the handler has returned.                       *)
ThreadReturn(c) ==
    /\ At(c, "thread")
    /\ mask' = [mask EXCEPT ![c] = Both]
    /\ r' = [r EXCEPT ![c].a0 = "OK"]
    /\ NextPc(c, IF curr_thread[c] = NoThread THEN "halt" ELSE "free")
    /\ UNCHANGED <<threadVars, curr_thread, lock, n, at, fret, guest, live>>

Free_KeepsState(c) ==               \* variant: the thread stays ACTIVE
    /\ curr_thread' = [curr_thread EXCEPT ![c] = NoThread]
    /\ lock' = FALSE
    /\ NextPc(c, "smc")
    /\ UNCHANGED <<threadVars, r, n, mask, at, fret, guest, live>>

Free(c) ==
    /\ LET t == curr_thread[c]
       IN  /\ state' = [state EXCEPT ![t] = "FREE"]
           /\ copy' = [copy EXCEPT ![t] = FALSE]
           /\ live' = [live EXCEPT ![t].a1 = 0, ![t].pc = "zero"]
    /\ curr_thread' = [curr_thread EXCEPT ![c] = NoThread]
    /\ lock' = FALSE
    /\ NextPc(c, "smc")
    /\ UNCHANGED <<hyp_clnt_id, regs, r, n, mask, at, fret, guest>>

FreeCs(c) ==
    /\ At(c, "free_cs")
    /\ IF RunsActive(c) THEN Free(c) ELSE Halt(c)

--------------------------------------------------------------------------------
(* Exceptions in the secure world.  They hit wherever they are unmasked.      *)

Secure(c) == pc[c] \notin {"nsec", "halt"}

IrqEntry(c) ==
    /\ Secure(c)
    /\ "I" \notin mask[c]
    /\ at' = [at EXCEPT ![c] = [pc |-> pc[c], cpsr |-> mask[c], copy |-> FALSE]]
    /\ mask' = [mask EXCEPT ![c] = @ \cup {"I"}]
    /\ NextPc(c, "irq")
    /\ UNCHANGED <<threadVars, curr_thread, lock, r, n, fret, guest, live>>

IrqSave_Copies(c) ==                \* variant: COPY_ARGS_ON_RETURN for an IRQ
    /\ At(c, "irq")
    /\ SaveState(c, [at[c] EXCEPT !.copy = TRUE])
    /\ r' = [r EXCEPT ![c] = NoArgs]
    /\ UNCHANGED live

(* thread_irq_handler: FIQ is masked before the shared stack is touched.      *)
IrqSave(c) ==
    /\ At(c, "irq")
    /\ SaveState(c, at[c])
    /\ r' = [r EXCEPT ![c] = NoArgs]
    /\ UNCHANGED live

FiqEntry(c) ==
    /\ Secure(c)
    /\ "F" \notin mask[c]
    /\ fret' = [fret EXCEPT ![c] = [pc |-> pc[c], cpsr |-> mask[c]]]
    /\ mask' = [mask EXCEPT ![c] = Both]
    /\ NextPc(c, "fiq")
    /\ UNCHANGED <<threadVars, curr_thread, lock, r, n, at, guest, live>>

(* thread_fiq_handler: main_fiq() on the temporary stack, then movs pc, lr.   *)
FiqReturn(c) ==
    /\ At(c, "fiq")
    /\ NextPc(c, fret[c].pc)
    /\ mask' = [mask EXCEPT ![c] = fret[c].cpsr]
    /\ fret' = [fret EXCEPT ![c] = NoRet]
    /\ UNCHANGED <<threadVars, curr_thread, lock, r, n, at, guest, live>>

(* thread_issue_smc.                                                          *)
SmcExit(c) ==
    /\ At(c, "smc")
    /\ NextPc(c, "nsec")
    /\ r' = [r EXCEPT ![c] = NoArgs]
    /\ guest' = [guest EXCEPT ![c] = NoClnt]
    /\ UNCHANGED <<threadVars, curr_thread, lock, n, mask, at, fret, live>>

--------------------------------------------------------------------------------

NwStep(c) ==
    \/ \E f \in Fn, v \in Val, k \in Clnt : NwCall(c, f, v, k)
    \/ \E t \in ThreadId, v \in Val, k \in Clnt : NwReturn(c, t, v, k)
    \/ FiqNsec(c)

HandlerStep(c) ==       \* code that runs with both exceptions masked
    \/ RecvFiq(c) \/ RecvFast(c) \/ RecvStd(c)
    \/ LockGlobal(c)
    \/ AllocCheck(c) \/ AllocFull(c) \/ AllocTake(c) \/ AllocRun(c)
    \/ ResumeCheck(c) \/ ResumeTake(c) \/ ResumeFail(c) \/ ResumeRun(c)
    \/ SuspendCs(c) \/ RpcLoad(c) \/ FreeCs(c)
    \/ FiqReturn(c) \/ SmcExit(c)

ThreadStep(c) ==
    \/ \E v \in Val : Compute(c, v)
    \/ ThreadRpc(c) \/ RpcReturn(c) \/ ThreadReturn(c)

ExceptionStep(c) == IrqEntry(c) \/ IrqSave(c) \/ FiqEntry(c) \/ FiqWinEnd(c)

Next == \E c \in CPU : NwStep(c) \/ HandlerStep(c) \/ ThreadStep(c) \/ ExceptionStep(c)

Spec == Init /\ [][Next]_vars

(* The code of a core runs; a handler makes finitely many RPCs (tee_invoke()   *)
(* makes three) and returns; the non-secure world answers the RPCs it is given.*)
(* SF where an exception may disable a step over and over: exceptions are not  *)
(* so frequent that a thread makes no progress between them.                   *)
Fairness == \A c \in CPU :
    /\ WF_vars(HandlerStep(c))
    /\ SF_vars(IrqSave(c)) /\ SF_vars(FiqWinEnd(c))
    /\ \A t \in Thread :
          /\ SF_vars(curr_thread[c] = t /\ RpcReturn(c))
          /\ SF_vars(curr_thread[c] = t /\ ThreadReturn(c))
          /\ SF_vars(\E v \in Val, k \in Clnt : NwReturn(c, t, v, k))

FairSpec == Spec /\ Fairness

--------------------------------------------------------------------------------
(* Properties.                                                                *)

Args == [a0 : {"NONE", "CALL", "FASTCALL", "FASTCALL_INVOKE", "RETURN_FROM_RPC",
               "HANDLE_FIQ", "OK", "EBUSY", "ERESUME", "RPC", "RPC_IRQ"},
         a1 : Val, a3 : ThreadId, a7 : Clnt]

Pc == {"nsec", "recv", "fiqwin", "alloc", "alloc_check", "alloc_take", "alloc_run",
       "resume", "resume_check", "resume_take", "resume_run", "thread", "rpc_return",
       "suspend", "suspend_cs", "rpc_load", "free", "free_cs", "irq", "fiq", "smc", "halt"}

SavedRegs == [a1 : Val, pc : ThreadPc \cup {"zero"}, cpsr : SUBSET Both]
SavedAt   == [pc : ThreadPc \cup {"zero"}, cpsr : SUBSET Both, copy : BOOLEAN]
SavedFret == [pc : ThreadPc \cup {"zero", "irq", "fiqwin"}, cpsr : SUBSET Both]
Expected  == [a1 : Val \cup {Await}, pc : ThreadPc \cup {"zero"}, a7 : Clnt]

\* The types of the scheduler's tables and of a core's registers.
TypeOK ==
    /\ state \in [Thread -> {"FREE", "SUSPENDED", "ACTIVE"}]
    /\ hyp_clnt_id \in [Thread -> Clnt]
    /\ copy \in [Thread -> BOOLEAN]
    /\ regs \in [Thread -> SavedRegs]
    /\ curr_thread \in [CPU -> Thread \cup {NoThread}]
    /\ lock \in BOOLEAN
    /\ pc \in [CPU -> Pc]
    /\ r \in [CPU -> Args]
    /\ n \in [CPU -> Thread \cup {NoThread}]
    /\ mask \in [CPU -> SUBSET Both]
    /\ at \in [CPU -> SavedAt]
    /\ fret \in [CPU -> SavedFret]
    /\ guest \in [CPU -> Clnt \cup {NoClnt}]
    /\ live \in [Thread -> Expected]

\* At most one trusted thread is active in the whole system: tee_entry() and the
\* drivers share their data without any other lock (have_one_active_thread).
OneActive == \A t, u \in Thread : state[t] = "ACTIVE" /\ state[u] = "ACTIVE" => t = u

\* The active thread is on exactly one core, and no core runs a thread that is not
\* active: a slot left ACTIVE by a core gone to the non-secure world would make
\* every later call fail with EBUSY.
ActiveIsRun ==
    /\ \A t \in Thread : state[t] = "ACTIVE" => \E c \in CPU : Holds(c) = t
    /\ \A c \in CPU : Holds(c) # NoThread => state[Holds(c)] = "ACTIVE"
    /\ \A c, d \in CPU : Holds(c) # NoThread /\ Holds(c) = Holds(d) => c = d
    /\ \A c \in CPU : pc[c] \in {"nsec", "recv", "smc"} => Holds(c) = NoThread

\* No assertion of thread.c fails (lines 89, 149, 219, 223, 236, 242 and 322).
NoAssertFails == \A c \in CPU : pc[c] # "halt"

\* FIQ, IRQ and SVC mode share one temporary stack: an FIQ never arrives while the
\* interrupted code has a frame on it (thread_asm.S:279).
OnTmpStack == {"alloc", "alloc_check", "alloc_take", "alloc_run", "resume",
               "resume_check", "resume_take", "resume_run", "suspend", "suspend_cs",
               "rpc_load", "free", "free_cs", "smc"}
TmpStackExclusive == \A c \in CPU : pc[c] = "fiq" => fret[c].pc \notin OnTmpStack

\* Whatever interrupts, suspensions and moves between cores it went through, a thread
\* goes on where it was, with the registers it had, except for the answer of an RPC.
RegsIntact == \A c \in CPU :
    pc[c] \in ThreadPc =>
        /\ live[curr_thread[c]].a1 = r[c].a1
        /\ live[curr_thread[c]].pc = pc[c]

\* A thread runs with IRQ and FIQ unmasked (thread.c:116), also after it was suspended
\* with both masked; otherwise a thread could keep the non-secure world from its IRQs.
ThreadUnmasked == \A c \in CPU : pc[c] \in ThreadPc => mask[c] = {}

\* A thread only ever works for the client that started it, although the non-secure
\* world names the thread to resume (thread.c:157).
ThreadRunsForItsClient == \A c \in CPU :
    pc[c] \in ThreadPc => live[curr_thread[c]].a7 = guest[c]

\* thread_rpc() reads its request from the thread's stack after it has unlocked: no
\* other core may have resumed the thread by then (thread_asm.S:248).
RpcTailPrivate == \A c \in CPU : pc[c] = "rpc_load" => state[n[c]] = "SUSPENDED"

\* A thread the non-secure world holds as suspended can be resumed: it is never
\* refused with ERESUME.
ResumeNeverFails == \A c \in CPU : r[c].a0 # "ERESUME"

\* Every SMC returns to the non-secure world.
SmcReturns == \A c \in CPU : pc[c] = "recv" ~> pc[c] = "nsec"

\* Every call that got a thread finishes, if the non-secure world answers the RPCs.
CallCompletes == \A t \in Thread : state[t] = "ACTIVE" ~> state[t] = "FREE"

Pool == INSTANCE ThreadPool WITH
    None <- <<>>,
    st <- state,
    client <- [t \in Thread |-> live[t].a7],
    core <- [c \in CPU |-> IF Holds(c) = NoThread THEN <<>> ELSE <<Holds(c), guest[c]>>]

\* The scheduler implements the abstract pool of threads.
ImplementsPool == Pool!Spec
================================================================================
