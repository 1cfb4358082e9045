--------------------------------- MODULE Boot ---------------------------------
(***************************************************************************)
(* The boot of one core: reset (kern/entry.S), main_init() (kern/main.c)   *)
(* with thread_init_stack() and thread_init_handlers() (kern/thread.c) and *)
(* sm_init() (sm/sm_asm.S); then, in outline, what the secure world does   *)
(* when the other world or an exception enters it, for that is what the    *)
(* boot has to have prepared.                                              *)
(*                                                                         *)
(* A global is known by what it holds: what the memory held before, zero,  *)
(* or what its initialisation stores there.  A step that depends on        *)
(* globals, devices or stacks notes in bad those that are not ready.       *)
(***************************************************************************)
EXTENDS Integers, Sequences, SequencesExt

CONSTANTS StackSize,    \* words of a thread's stack (STACK_THREAD_SIZE)
          MaxDeep       \* bound: how deep a thread gets, its overflow included

VARIABLES
  pc,        \* the call that main_init() makes next, and where the core is later
  mem,       \* mem[g]: what global g holds
  mmu,       \* SCTLR.M
  mapped,    \* what the translation table maps
  vbar,      \* the exception vectors of the secure world: "boot" or "thread"
  sps,       \* the modes that have a stack; "mon" has MVBAR as well
  mask,      \* the masked exceptions, {"I", "F"} at most
  pend,      \* the pending ones
  smashed,   \* canaries that were overwritten: "start", "end"
  deep,      \* history: the words a thread's stack has held
  bad        \* history: what was used before it was ready

vars == <<pc, mem, mmu, mapped, vbar, sps, mask, pend, smashed, deep, bad>>
machine == <<mmu, mapped, vbar, sps>>

Both == {"I", "F"}

(* The globals: section .bss.prebss.*, and plain .bss behind it            *)
PreBss == {"resmem", "kprintf_data", "mmu", "mmu_l1_table", "canaries"}
Bss == {"threads", "core_local", "handlers", "nsec_ctx", "gic", "inited", "kprintf_data"} \ PreBss
Global == PreBss \cup Bss
Device == {"uart", "gic_regs"}

(* What a step needs: globals that hold more than zero or junk, globals    *)
(* that may be zero, devices; and kprintf() needs some of each.            *)
Uses(set, any, dev) ==
  bad' = bad \cup {g \in set : mem[g] # "set"} \cup {g \in any : mem[g] = "junk"}
             \cup {d \in dev : mmu /\ d \notin mapped}
Prints(set, any, dev) == Uses(set \cup {"kprintf_data"}, any, dev \cup {"uart"})
Sets(g) == mem' = [mem EXCEPT ![g] = "set"]
Nothing == {}

(***************************************************************************)
(* Stacks: an array of StackSize words and two canaries with a gap each.   *)
(* GET_STACK() starts two words below the end.                             *)
(***************************************************************************)
CanaryWords == 4
ArrayWords == StackSize + CanaryWords
StackTop == ArrayWords - CanaryWords \div 2
Canary == [start |-> 0, end |-> ArrayWords - 1]
Written(words) == StackTop - words .. StackTop - 1
Overwritten(words) == {c \in DOMAIN Canary : Canary[c] \in Written(words)}

(***************************************************************************)
(* The boot, in the order of main_init()                                   *)
(***************************************************************************)
Calls == <<"reset", "resmem_init", "uart_init", "kprintf_init", "banner", "mmu_init", "map_uart",
           "map_ddr", "memset", "init_canaries", "tmp_stack", "abt_stack", "thread_stacks",
           "mask", "init_handlers", "sm_init", "nsec_entry", "gic_init", "gic_enable",
           "inited", "smc">>
Booting == ToSet(Calls)
Place == Booting \cup {"nsec", "recv", "fiqwin", "thread", "spin", "halt"}
NextCall(c) == Calls[(CHOOSE k \in DOMAIN Calls : Calls[k] = c) + 1]
Step(c) == pc = c /\ pc' = (IF c = "smc" THEN "nsec" ELSE NextCall(c))

Init ==
  /\ pc = "reset"
  /\ mem = [g \in Global |-> "junk"]
  /\ mmu = FALSE /\ mapped = {}
  /\ vbar = "none" /\ sps = {}
  /\ mask \in SUBSET Both /\ pend \in SUBSET Both
  /\ smashed = {} /\ deep = 0
  /\ bad = {}

Reset ==
  /\ Step("reset")
  /\ vbar' = "boot" /\ sps' = {"svc"}
  /\ UNCHANGED <<mem, mmu, mapped, mask, pend, smashed, deep, bad>>

ResmemInit ==
  /\ Step("resmem_init")
  /\ Sets("resmem")
  /\ UNCHANGED <<machine, mask, pend, smashed, deep, bad>>

UartInit ==
  /\ Step("uart_init")
  /\ Uses(Nothing, Nothing, {"uart"})
  /\ UNCHANGED <<mem, machine, mask, pend, smashed, deep>>

KprintfInit ==
  /\ Step("kprintf_init")
  /\ Sets("kprintf_data")
  /\ UNCHANGED <<machine, mask, pend, smashed, deep, bad>>

Banner ==
  /\ Step("banner")
  /\ Prints(Nothing, Nothing, Nothing)
  /\ UNCHANGED <<mem, machine, mask, pend, smashed, deep>>

(* The code, the data and what follows them are mapped.                    *)
MmuInit ==
  /\ Step("mmu_init")
  /\ mem' = [mem EXCEPT !["mmu"] = "set", !["mmu_l1_table"] = "set"]
  /\ mmu' = TRUE /\ mapped' = {"kernel"}
  /\ UNCHANGED <<vbar, sps, mask, pend, smashed, deep, bad>>

Maps(what) == mapped' = mapped \cup what /\ UNCHANGED <<mmu, vbar, sps>>

MapUart ==
  /\ Step("map_uart")
  /\ Uses({"mmu", "mmu_l1_table"}, Nothing, Nothing)
  /\ Maps({"uart"})
  /\ Sets("kprintf_data")
  /\ UNCHANGED <<mask, pend, smashed, deep>>

MapDdr ==
  /\ Step("map_ddr")
  /\ Uses({"mmu", "mmu_l1_table"}, Nothing, Nothing)
  /\ Maps({"ddr"})
  /\ UNCHANGED <<mem, mask, pend, smashed, deep>>

(* Mutant: nothing is cleared.                                             *)
ZeroBss_Missing ==
  /\ Step("memset")
  /\ UNCHANGED <<mem, machine, mask, pend, smashed, deep, bad>>

ZeroBss ==
  /\ Step("memset")
  /\ mem' = [g \in Global |-> IF g \in Bss THEN "zero" ELSE mem[g]]
  /\ UNCHANGED <<machine, mask, pend, smashed, deep, bad>>

InitCanaries ==
  /\ Step("init_canaries")
  /\ Sets("canaries")
  /\ Prints(Nothing, Nothing, Nothing)
  /\ UNCHANGED <<machine, mask, pend, smashed, deep>>

TmpStack ==
  /\ Step("tmp_stack")
  /\ Sets("core_local")
  /\ sps' = sps \cup {"irq", "fiq"}
  /\ UNCHANGED <<mmu, mapped, vbar, mask, pend, smashed, deep, bad>>

AbtStack ==
  /\ Step("abt_stack")
  /\ sps' = sps \cup {"abt"}
  /\ UNCHANGED <<mem, mmu, mapped, vbar, mask, pend, smashed, deep, bad>>

(* panic() unless every thread is THREAD_STATE_FREE, which is 0.           *)
ThreadStacks ==
  /\ pc = "thread_stacks"
  /\ pc' \in {NextCall(pc)} \cup (IF mem["threads"] = "zero" THEN {} ELSE {"panic"})
  /\ Uses(Nothing, {"threads"}, Nothing)
  /\ Sets("threads")
  /\ UNCHANGED <<machine, mask, pend, smashed, deep>>

(* Mutant: IRQ is masked, FIQ is not.                                      *)
MaskExceptions_IrqOnly ==
  /\ Step("mask")
  /\ mask' = mask \cup {"I"}
  /\ UNCHANGED <<mem, machine, pend, smashed, deep, bad>>

MaskExceptions ==
  /\ Step("mask")
  /\ mask' = Both
  /\ UNCHANGED <<mem, machine, pend, smashed, deep, bad>>

InitHandlers ==
  /\ Step("init_handlers")
  /\ Sets("handlers")
  /\ vbar' = "thread"
  /\ UNCHANGED <<mmu, mapped, sps, mask, pend, smashed, deep, bad>>

SmInit ==
  /\ Step("sm_init")
  /\ sps' = sps \cup {"mon"}
  /\ UNCHANGED <<mem, mmu, mapped, vbar, mask, pend, smashed, deep, bad>>

SetNsecEntry ==
  /\ Step("nsec_entry")
  /\ Sets("nsec_ctx")
  /\ UNCHANGED <<machine, mask, pend, smashed, deep, bad>>

(* The arguments are mapped first.  What was pending is disabled.          *)
GicInit ==
  /\ Step("gic_init")
  /\ Uses({"mmu", "mmu_l1_table"}, Nothing, Nothing)
  /\ Sets("gic")
  /\ Maps({"gic_regs"})
  /\ pend' = {}
  /\ UNCHANGED <<mask, smashed, deep>>

GicEnable ==
  /\ Step("gic_enable")
  /\ Prints({"gic"}, Nothing, {"gic_regs"})
  /\ UNCHANGED <<mem, machine, mask, pend, smashed, deep>>

Inited ==
  /\ Step("inited")
  /\ Sets("inited")
  /\ Prints(Nothing, Nothing, Nothing)
  /\ UNCHANGED <<machine, mask, pend, smashed, deep>>

(* To the monitor, which goes on in the other world, where nsec_ctx says;  *)
(* b thread_recv_smc_call is where the secure world will be entered.       *)
Smc ==
  /\ Step("smc")
  /\ bad' = bad \cup {g \in {"nsec_ctx"} : mem[g] # "set"} \cup ({"mon"} \ sps)
  /\ UNCHANGED <<mem, machine, mask, pend, smashed, deep>>

BootStep ==
  \/ Reset \/ ResmemInit \/ UartInit \/ KprintfInit \/ Banner \/ MmuInit \/ MapUart \/ MapDdr
  \/ ZeroBss \/ InitCanaries \/ TmpStack \/ AbtStack \/ ThreadStacks \/ MaskExceptions
  \/ InitHandlers \/ SmInit \/ SetNsecEntry \/ GicInit \/ GicEnable \/ Inited \/ Smc

(***************************************************************************)
(* After the boot                                                          *)
(***************************************************************************)
Raise(e) ==
  /\ e \notin pend
  /\ pend' = pend \cup {e}
  /\ UNCHANGED <<pc, mem, machine, mask, smashed, deep, bad>>

(* Into the secure world, where both exceptions are masked; an FIQ takes   *)
(* the other world there by itself.                                        *)
Enter ==
  /\ pc = "nsec"
  /\ pc' = "recv"
  /\ UNCHANGED <<mem, machine, mask, pend, smashed, deep, bad>>

(* check_canaries(): a wrong one halts the core in __assert().             *)
CheckCanaries == smashed = {}

(* A fast call goes back at once, a standard call becomes a thread with    *)
(* nothing masked.                                                         *)
Call ==
  /\ pc = "recv"
  /\ \/ ~CheckCanaries /\ pc' = "halt" /\ UNCHANGED <<mask, bad>>
     \/ CheckCanaries /\ pc' = "nsec" /\ Prints({"handlers"}, Nothing, Nothing) /\ UNCHANGED mask
     \/ CheckCanaries /\ pc' = "thread" /\ mask' = {}
        /\ Prints({"handlers", "core_local", "threads"}, Nothing, Nothing)
  /\ UNCHANGED <<mem, machine, pend, smashed, deep>>

CallFiq ==
  /\ pc = "recv"
  /\ pc' = "fiqwin" /\ mask' = mask \ {"F"}
  /\ UNCHANGED <<mem, machine, pend, smashed, deep, bad>>

FiqWinEnd ==
  /\ pc = "fiqwin"
  /\ pc' = "nsec" /\ mask' = mask \cup {"F"}
  /\ UNCHANGED <<mem, machine, pend, smashed, deep, bad>>

(* The thread's stack holds so many words.                                 *)
Push(words) ==
  /\ pc = "thread" /\ words > deep
  /\ deep' = words
  /\ smashed' = smashed \cup Overwritten(words)
  /\ UNCHANGED <<pc, mem, machine, mask, pend, bad>>

ThreadReturn ==
  /\ pc = "thread"
  /\ pc' = "nsec" /\ mask' = Both
  /\ Uses({"core_local", "threads"}, Nothing, Nothing)
  /\ UNCHANGED <<mem, machine, pend, smashed, deep>>

(* An exception is taken in the secure world.  The boot vectors are        *)
(* branches to themselves.  IRQ and FIQ mode have the temporary stack, on  *)
(* which main_init() runs as well.                                         *)
Taken(e) == pc \in Booting \cup {"fiqwin", "thread"} /\ e \in pend \ mask /\ vbar # "none"
Clash == IF pc \in Booting THEN {"stack"} ELSE {}

Spin(e) ==
  /\ Taken(e) /\ vbar = "boot"
  /\ pc' = "spin"
  /\ UNCHANGED <<mem, machine, mask, pend, smashed, deep, bad>>

Fiq ==
  /\ Taken("F") /\ vbar = "thread"
  /\ \/ ~CheckCanaries /\ pc' = "halt" /\ UNCHANGED <<pend, bad>>
     \/ /\ CheckCanaries
        /\ bad' = bad \cup Clash \cup ({"fiq"} \ sps)
                      \cup {g \in {"handlers", "gic", "kprintf_data"} : mem[g] # "set"}
                      \cup ({"uart", "gic_regs"} \ mapped)
        /\ pend' = pend \ {"F"}
        /\ UNCHANGED pc
  /\ UNCHANGED <<mem, machine, mask, smashed, deep>>

(* An IRQ suspends the thread; without one, thread_get_ctx_regs() asserts. *)
Irq ==
  /\ Taken("I") /\ vbar = "thread"
  /\ mask' = Both
  /\ IF pc = "thread" /\ CheckCanaries THEN pc' = "nsec" ELSE pc' = "halt"
  /\ bad' = bad \cup Clash \cup ({"irq"} \ sps) \cup {g \in {"core_local"} : mem[g] # "set"}
  /\ UNCHANGED <<mem, machine, pend, smashed, deep>>

(* The other world takes its interrupts itself, the devices lower theirs.  *)
NsecIrq ==
  /\ pc = "nsec" /\ "I" \in pend
  /\ pend' = pend \ {"I"}
  /\ UNCHANGED <<pc, mem, machine, mask, smashed, deep, bad>>

Stopped == pc \in {"spin", "halt"} /\ UNCHANGED vars

Next ==
  \/ BootStep
  \/ \E e \in Both : Raise(e) \/ Spin(e)
  \/ Enter \/ Call \/ CallFiq \/ FiqWinEnd \/ ThreadReturn
  \/ \E words \in 1 .. MaxDeep : Push(words)
  \/ Fiq \/ Irq \/ NsecIrq
  \/ Stopped

Spec == Init /\ [][Next]_vars

(* The boot goes on.                                                       *)
FairSpec == Spec /\ WF_vars(BootStep)

(***************************************************************************)
(* Properties                                                              *)
(***************************************************************************)
(* Types; main_init() has no reason to panic.                              *)
TypeOK ==
  /\ pc \in Place
  /\ mem \in [Global -> {"junk", "zero", "set"}]
  /\ mmu \in BOOLEAN
  /\ mapped \subseteq {"kernel", "ddr"} \cup Device
  /\ vbar \in {"none", "boot", "thread"}
  /\ sps \subseteq {"svc", "irq", "fiq", "abt", "mon"}
  /\ mask \subseteq Both /\ pend \subseteq Both
  /\ smashed \subseteq DOMAIN Canary
  /\ deep \in 0 .. MaxDeep

(* main.c:200: what is used before the memset has to survive it, what is   *)
(* used after it has to be initialised after it, also for the handlers and *)
(* the other world's entry; a pointer that is called is never 0.           *)
GlobalsReady == bad \cap (Global \cup {"mon", "fiq", "irq"}) = {}

(* With the MMU on, a device is used only where it is mapped, by messages  *)
(* and handlers too (main.c:188, main.c:232).                              *)
DevicesMapped == bad \cap Device = {}

(* main.c:217: the handlers of IRQ and FIQ use the temporary stack, on     *)
(* which main_init() runs until the first SMC.                             *)
TmpStackFree == "stack" \notin bad

(* A thread that stays within its stack never trips check_canaries().      *)
CanaryMeansOverflow == pc = "halt" => deep > StackSize

(* All of it, in every state of the boot and after it.                     *)
BootSound == TypeOK /\ GlobalsReady /\ DevicesMapped /\ TmpStackFree /\ CanaryMeansOverflow

(* A core that comes out of reset with its exceptions masked gets to the   *)
(* other world, whatever the memory held and whatever was pending.         *)
BootEnds == pc = "reset" /\ mask = Both ~> pc = "nsec"
================================================================================
