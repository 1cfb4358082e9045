---------------------------------- MODULE Gic ----------------------------------
(***************************************************************************)
(* The driver of the interrupt controller (drivers/gic.c) and the part of  *)
(* the controller (external) it relies on.  A register of the distributor  *)
(* has one bit for each of RegSize interrupts, or the targets of each of   *)
(* TargetSize; interrupts above Last are not implemented, their bits are   *)
(* zero and ignore writes.  A state of the controller is a set of          *)
(* interrupts: enabled, in group 1, pending, active, routed to this core.  *)
(* GICC_CTLR and GICD_CTLR are on or off; the priority mask, which the     *)
(* driver never sets, lets everything pass.                                *)
(*                                                                         *)
(* The driver runs with exceptions masked, on the one core there is (see   *)
(* main.c:222): FIQs are taken and the non-secure world runs between its   *)
(* calls.  A step is one register access or several that belong together.  *)
(***************************************************************************)
EXTENDS Naturals, FiniteSets, FiniteSetsExt

CONSTANTS
  RegSize,    \* 32
  TargetSize, \* 4
  TopReg,     \* GIC_MAX_INTS / 32
  Last,       \* the largest interrupt implemented
  SecureIts   \* the interrupts the callers of the driver use

ASSUME GicAssumption ==
  /\ RegSize \in Nat \ {0} /\ TargetSize \in Nat \ {0} /\ TopReg \in Nat \ {0}
  /\ Last \in 0 .. (TopReg + 1) * RegSize - 1
  /\ SecureIts \subseteq 0 .. Last

Interrupt == 0 .. Last
Prio      == 0 .. 1
None      == Last + 1       \* the spurious interrupt
Bits(n)   == {x \in Interrupt : x \div RegSize = n}
Targets(n) == {x \in Interrupt : x \div TargetSize = n}

VARIABLES
  enabled, group1, pending, active,   \* of the distributor
  target, prio,                       \* routed to this core; priorities
  gicc, gicd,                         \* enabled
  max_it,                             \* gic.max_it
  pc, n, old_ctlr, old_reg,           \* of probe_max_it() and gic_init()
  it, word,                           \* of the call in progress: argument, read
  iar,                                \* what main_fiq() has acknowledged
  on,                                 \* history: added, and enabled by the driver
  fresh                               \* history: raised since added

dist  == <<enabled, group1, target, prio>>
local == <<max_it, n, old_ctlr, old_reg>>
vars  == <<enabled, group1, pending, active, target, prio, gicc, gicd,
           max_it, pc, n, old_ctlr, old_reg, it, word, iar, on, fresh>>

(* Whatever ran before may have used the controller.                       *)
Init ==
  /\ enabled \in {{}, Interrupt} /\ group1 = {} /\ pending = {} /\ active = {}
  /\ target \in {{}, Interrupt}
  /\ prio = [x \in Interrupt |-> 0]
  /\ gicc \in BOOLEAN /\ gicd \in BOOLEAN
  /\ max_it = 0
  /\ pc = "start" /\ n = 0 /\ old_ctlr = FALSE /\ old_reg = {}
  /\ it = None /\ word = {} /\ iar = None
  /\ on = {} /\ fresh = {}

(***************************************************************************)
(* The controller, the devices and the non-secure world                    *)
(***************************************************************************)
(* Group 0 is signalled as FIQ, above the priority that is running.        *)
Signalled(x) ==
  /\ gicc /\ gicd
  /\ x \in (pending \cap enabled) \ (group1 \cup active)
  /\ x \in target
  /\ \A y \in active : prio[x] < prio[y]

Raise(x) ==
  /\ x \notin pending
  /\ pending' = pending \cup {x}
  /\ fresh' = fresh \cup {x}
  /\ UNCHANGED <<dist, active, gicc, gicd, local, pc, it, word, iar, on>>

(* The non-secure world can only configure interrupts of group 1.          *)
NsConfigure(x) ==
  /\ pc = "idle" /\ iar = None
  /\ x \in group1 \ SecureIts
  /\ enabled' = enabled \cup {x}
  /\ target' = target \cup {x}
  /\ UNCHANGED <<group1, pending, active, prio, gicc, gicd, local, pc, it, word, iar, on, fresh>>

(***************************************************************************)
(* probe_max_it()                                                          *)
(***************************************************************************)
ProbeBegin ==
  /\ pc = "start"
  /\ old_ctlr' = gicc
  /\ gicc' = FALSE
  /\ n' = TopReg
  /\ pc' = "set"
  /\ UNCHANGED <<dist, pending, active, gicd, max_it, old_reg, it, word, iar, on, fresh>>

ProbeSet ==
  /\ pc = "set"
  /\ old_reg' = enabled \cap Bits(n)
  /\ enabled' = enabled \cup Bits(n)
  /\ pc' = "get"
  /\ UNCHANGED <<group1, target, prio, pending, active, gicc, gicd, max_it, n, old_ctlr, it, word, iar, on, fresh>>

(* Bit 0 and register 0 are not looked at.  What is written back disables  *)
(* what was enabled before.                                                *)
Candidates == {x \in enabled \cap Bits(n) : x % RegSize > 0}

ProbeGet ==
  /\ pc = "get"
  /\ enabled' = enabled \ old_reg
  /\ IF Candidates # {} \/ n = 1
     THEN /\ max_it' = IF Candidates = {} THEN 0 ELSE Max(Candidates)
          /\ pc' = "out" /\ n' = 0
     ELSE max_it' = 0 /\ pc' = "set" /\ n' = n - 1
  /\ UNCHANGED <<group1, target, prio, pending, active, gicc, gicd, old_ctlr, old_reg, it, word, iar, on, fresh>>

ProbeOut ==
  /\ pc = "out"
  /\ gicc' = old_ctlr
  /\ pc' = "init"
  /\ UNCHANGED <<dist, pending, active, gicd, local, it, word, iar, on, fresh>>

(***************************************************************************)
(* gic_init()                                                              *)
(***************************************************************************)
InitRegister ==
  /\ pc = "init" /\ n <= max_it \div RegSize
  /\ enabled' = enabled \ Bits(n)
  /\ pending' = pending \ Bits(n)
  /\ group1' = group1 \cup Bits(n)
  /\ n' = n + 1
  /\ UNCHANGED <<target, prio, active, gicc, gicd, max_it, pc, old_ctlr, old_reg, it, word, iar, on, fresh>>

EnableGic ==
  /\ pc = "init" /\ n > max_it \div RegSize
  /\ gicc' = TRUE /\ gicd' = TRUE
  /\ pc' = "idle"
  /\ UNCHANGED <<dist, pending, active, local, it, word, iar, on, fresh>>

(***************************************************************************)
(* Calls of the driver.  Callers add an interrupt first, and enable it     *)
(* when it is not enabled.                                                 *)
(***************************************************************************)
Call(fn, x) ==
  /\ pc = "idle" /\ iar = None
  /\ fn # "add" => x \notin group1
  /\ fn = "enable" => x \notin on
  /\ pc' = fn /\ it' = x
  /\ UNCHANGED <<dist, pending, active, gicc, gicd, local, word, iar, on, fresh>>

(* The assertions: not too large, assigned to group 0.                     *)
Asserted == it <= max_it /\ it \notin group1
Halt == pc' = "halt" /\ UNCHANGED <<dist, pending, active, gicc, gicd, local, it, word, iar, on, fresh>>
Asserting(ok, Step) == IF ok THEN Step ELSE Halt
Return == pc' = "idle" /\ it' = None /\ word' = {}

AddDisable ==
  /\ pc = "add"
  /\ Asserting(it <= max_it,
       /\ enabled' = enabled \ {it}
       /\ on' = on \ {it}
       /\ pc' = "add_clear"
       /\ UNCHANGED <<group1, target, prio, pending, active, gicc, gicd, local, it, word, iar, fresh>>)

(* Mutant: what was pending for group 1 stays pending.                     *)
AddClear_Missing ==
  /\ pc = "add_clear"
  /\ fresh' = fresh \ {it}
  /\ pc' = "add_group"
  /\ UNCHANGED <<dist, pending, active, gicc, gicd, local, it, word, iar, on>>

AddClear ==
  /\ pc = "add_clear"
  /\ pending' = pending \ {it}
  /\ fresh' = fresh \ {it}
  /\ pc' = "add_group"
  /\ UNCHANGED <<dist, active, gicc, gicd, local, it, word, iar, on>>

(* GICD_IGROUPR is read, changed and written as a whole.                   *)
AddGroupRead ==
  /\ pc = "add_group"
  /\ word' = group1 \cap Bits(it \div RegSize)
  /\ pc' = "add_group_write"
  /\ UNCHANGED <<dist, pending, active, gicc, gicd, local, it, iar, on, fresh>>

AddGroupWrite ==
  /\ pc = "add_group_write"
  /\ group1' = (group1 \ Bits(it \div RegSize)) \cup (word \ {it})
  /\ Return
  /\ UNCHANGED <<enabled, target, prio, pending, active, gicc, gicd, local, iar, on, fresh>>

(* Likewise the word of GICD_ITARGETSR.                                    *)
SetCpuMaskRead ==
  /\ pc = "set_cpu_mask"
  /\ Asserting(Asserted,
       /\ word' = target \cap Targets(it \div TargetSize)
       /\ pc' = "set_cpu_mask_write"
       /\ UNCHANGED <<dist, pending, active, gicc, gicd, local, it, iar, on, fresh>>)

SetCpuMaskWrite ==
  /\ pc = "set_cpu_mask_write"
  /\ \E cpu_mask \in SUBSET {it} :
       target' = (target \ Targets(it \div TargetSize)) \cup (word \ {it}) \cup cpu_mask
  /\ Return
  /\ UNCHANGED <<enabled, group1, prio, pending, active, gicc, gicd, local, iar, on, fresh>>

SetPrio ==
  /\ pc = "set_prio"
  /\ Asserting(Asserted,
       /\ \E p \in Prio : prio' = [prio EXCEPT ![it] = p]
       /\ Return
       /\ UNCHANGED <<enabled, group1, target, pending, active, gicc, gicd, local, iar, on, fresh>>)

Enable ==
  /\ pc = "enable"
  /\ Asserting(Asserted /\ it \notin enabled,
       /\ enabled' = enabled \cup {it}
       /\ on' = on \cup {it}
       /\ Return
       /\ UNCHANGED <<group1, target, prio, pending, active, gicc, gicd, local, iar, fresh>>)

Disable ==
  /\ pc = "disable"
  /\ Asserting(Asserted,
       /\ enabled' = enabled \ {it}
       /\ on' = on \ {it}
       /\ Return
       /\ UNCHANGED <<group1, target, prio, pending, active, gicc, gicd, local, iar, fresh>>)

(***************************************************************************)
(* gic_read_iar() and gic_write_eoir(), as main_fiq() calls them           *)
(***************************************************************************)
ReadIar ==
  /\ pc = "idle" /\ iar = None
  /\ \E x \in Interrupt :
       /\ Signalled(x) /\ \A y \in Interrupt : Signalled(y) => prio[x] <= prio[y]
       /\ iar' = x
       /\ active' = active \cup {x}
       /\ pending' = pending \ {x}
       /\ fresh' = fresh \ {x}
  /\ UNCHANGED <<dist, gicc, gicd, local, pc, it, word, on>>

(* Mutant: what is written does not reach the controller.                  *)
WriteEoir_Lost ==
  /\ iar # None
  /\ iar' = None
  /\ UNCHANGED <<dist, pending, active, gicc, gicd, local, pc, it, word, on, fresh>>

WriteEoir ==
  /\ iar # None
  /\ active' = active \ {iar}
  /\ iar' = None
  /\ UNCHANGED <<dist, pending, gicc, gicd, local, pc, it, word, on, fresh>>

GicInit == ProbeBegin \/ ProbeSet \/ ProbeGet \/ ProbeOut \/ InitRegister \/ EnableGic
DriverStep ==
  \/ AddDisable \/ AddClear \/ AddGroupRead \/ AddGroupWrite
  \/ SetCpuMaskRead \/ SetCpuMaskWrite \/ SetPrio \/ Enable \/ Disable

Next ==
  \/ GicInit \/ DriverStep
  \/ \E x \in SecureIts, fn \in {"add", "set_cpu_mask", "set_prio", "enable", "disable"} : Call(fn, x)
  \/ ReadIar \/ WriteEoir
  \/ \E x \in Interrupt : Raise(x) \/ NsConfigure(x)

Spec == Init /\ [][Next]_vars

(* The driver goes on, and an FIQ is taken when the driver unmasks it.     *)
GicFairness ==
  /\ WF_vars(GicInit) /\ WF_vars(DriverStep)
  /\ SF_vars(ReadIar) /\ WF_vars(WriteEoir)

GicSpec == Spec /\ GicFairness

(***************************************************************************)
(* Properties                                                              *)
(***************************************************************************)
(* Types.                                                                  *)
TypeOK ==
  /\ enabled \subseteq Interrupt /\ group1 \subseteq Interrupt
  /\ pending \subseteq Interrupt /\ active \subseteq Interrupt
  /\ target \subseteq Interrupt /\ prio \in [Interrupt -> Prio]
  /\ gicc \in BOOLEAN /\ gicd \in BOOLEAN /\ old_ctlr \in BOOLEAN
  /\ max_it \in Interrupt
  /\ n \in 0 .. TopReg + 1 /\ old_reg \subseteq Interrupt
  /\ it \in SecureIts \cup {None} /\ word \subseteq Interrupt /\ iar \in Interrupt \cup {None}
  /\ on \subseteq SecureIts /\ fresh \subseteq Interrupt

(* gic.c:72 "Probe which interrupt number is the largest."                 *)
ProbeIsLargest == pc \in {"out", "init", "idle"} => max_it = Last

(* An FIQ is signalled only for an interrupt that was added and enabled,   *)
(* and raised since it was added: not while the probing enables everything *)
(* there is, and not for what was pending when the interrupt belonged to   *)
(* the non-secure world.  Before gic_init() has disabled what the probing  *)
(* left enabled, FIQs are masked (main.c:222).                             *)
NoStrayFiq ==
  /\ pc \in {"set", "get", "out"} => \A x \in Interrupt : ~Signalled(x)
  /\ pc \notin {"start", "init"} => \A x \in Interrupt : Signalled(x) => x \in on \cap fresh

(* gic.c:129, 146, 166, 181 and following: no assertion of the driver      *)
(* fails for callers that keep the order of main_init(), may they add,     *)
(* disable and enable their interrupts again and again.                    *)
NoAssertFails == pc # "halt"

(* All of these.                                                           *)
GicSound == TypeOK /\ ProbeIsLargest /\ NoStrayFiq /\ NoAssertFails

(* If devices fall silent every FIQ signalled is served: each is ended, so *)
(* that none keeps those of its priority from being signalled.             *)
Silence == <>[][pending' \subseteq pending]_vars
AllServed == Silence => []<>(\A x \in Interrupt : ~Signalled(x) /\ x \notin active)
================================================================================
