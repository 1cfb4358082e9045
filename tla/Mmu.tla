---------------------------------- MODULE Mmu ----------------------------------
(***************************************************************************)
(* The level-1 translation table: kern/mmu.c, with the TLB invalidation of *)
(* kern/cache.c.  Addresses count in sections of 1 MiB: the loops run over *)
(* section bases, and "a < end" compares the section of a with the first   *)
(* section that begins at or after end.  Addresses are words: the last     *)
(* section is followed by the first, and an end that wraps around is small.*)
(*                                                                         *)
(* The hardware (external) walks the table whenever it likes and may keep  *)
(* a valid descriptor in the TLB.  It sees a store only some time after    *)
(* the core made it, at the latest when the core's DSB completes.  With    *)
(* the MMU off memory is strongly ordered and stores are seen at once.     *)
(***************************************************************************)
EXTENDS Naturals, FiniteSets

CONSTANTS
  MMU_L1_NUM_ENTRIES,
  CodeStart, CodeEnd,   \* sections CodeStart .. CodeEnd - 1 hold code
  DataStart, DataEnd    \* likewise data; one section may hold both

ASSUME MmuAssumption ==
  /\ MMU_L1_NUM_ENTRIES \in Nat \ {0}
  /\ CodeStart \in Nat /\ CodeEnd \in Nat /\ DataStart \in Nat /\ DataEnd \in Nat
  /\ CodeEnd < MMU_L1_NUM_ENTRIES /\ DataEnd < MMU_L1_NUM_ENTRIES
  /\ CodeStart < CodeEnd /\ DataStart < DataEnd

Section == 0 .. MMU_L1_NUM_ENTRIES - 1
Limit   == 0 .. MMU_L1_NUM_ENTRIES
Code    == CodeStart .. CodeEnd - 1
Data    == DataStart .. DataEnd - 1
Kernel  == Code \cup Data

(* Descriptors.  All are shared, global and not accessible to PL0.         *)
Block(sec, type, ro, xn, ns) == [sec |-> sec, type |-> type, ro |-> ro, xn |-> xn, ns |-> ns]
RomemBlock(sec, ns)  == Block(sec, "wbwa", TRUE, FALSE, ns)
RwmemBlock(sec, ns)  == Block(sec, "wbwa", FALSE, FALSE, ns)
DeviceBlock(sec, ns) == Block(sec, "device", FALSE, TRUE, ns)
Blocks == [sec : Section, type : {"wbwa", "device"}, ro : BOOLEAN, xn : BOOLEAN, ns : BOOLEAN]
Fault  == [sec |-> 0]
Descriptor == Blocks \cup {Fault}

VARIABLES
  table,     \* mmu.l1_table, as a table walk sees it
  buffer,    \* sections with a store the walk does not see yet
  stored,    \* mmu.l1_table, as the core sees it
  tlb,       \* what the TLB holds of each section
  m,         \* SCTLR.M
  pc,                           \* where the code is
  fn, first, limit, ns,         \* the last call: section of addr, end of range
  a, inv_needed,                \* its variables
  old        \* history: stored before the last call that changed it

mem  == <<table, buffer, stored>>
args == <<fn, first, limit, ns>>
vars == <<table, buffer, stored, tlb, m, pc, fn, first, limit, ns, a, inv_needed, old>>

Init ==
  /\ table \in [Section -> {Fault}] /\ stored = table
  /\ buffer = {}
  /\ tlb = [s \in Section |-> Fault]
  /\ m = FALSE
  /\ pc = "code" /\ a = CodeStart
  /\ fn = "none" /\ first = 0 /\ limit = 0 /\ ns = FALSE /\ inv_needed = FALSE
  /\ old = stored

Succ(s) == (s + 1) % MMU_L1_NUM_ENTRIES

(***************************************************************************)
(* The hardware                                                            *)
(***************************************************************************)
Drain(s) ==
  /\ s \in buffer
  /\ table' = [table EXCEPT ![s] = stored[s]]
  /\ buffer' = buffer \ {s}
  /\ UNCHANGED <<stored, tlb, m, pc, a, args, inv_needed, old>>

Walk(s) ==
  /\ m /\ tlb[s] = Fault /\ table[s] # Fault
  /\ tlb' = [tlb EXCEPT ![s] = table[s]]
  /\ UNCHANGED <<mem, m, pc, a, args, inv_needed, old>>

Evict(s) ==
  /\ tlb[s] # Fault
  /\ tlb' = [tlb EXCEPT ![s] = Fault]
  /\ UNCHANGED <<mem, m, pc, a, args, inv_needed, old>>

(***************************************************************************)
(* mmu_init()                                                              *)
(***************************************************************************)
InitBlock(block) ==
  /\ table' = [table EXCEPT ![a] = block]
  /\ stored' = [stored EXCEPT ![a] = block]
  /\ a' = Succ(a)
  /\ UNCHANGED <<buffer, tlb, m, pc, args, inv_needed, old>>

MapCode == pc = "code" /\ a < CodeEnd /\ InitBlock(RomemBlock(a, FALSE))

MapData == pc = "data" /\ a < DataEnd /\ InitBlock(RwmemBlock(a, FALSE))

CodeMapped ==
  /\ pc = "code" /\ a >= CodeEnd
  /\ pc' = "data" /\ a' = DataStart
  /\ UNCHANGED <<mem, tlb, m, args, inv_needed, old>>

(* write_ttbr0(), write_dacr() and write_sctlr() with SCTLR_M              *)
Enable ==
  /\ pc = "data" /\ a >= DataEnd
  /\ m' = TRUE
  /\ pc' = "idle"
  /\ UNCHANGED <<mem, tlb, a, args, inv_needed, old>>

(***************************************************************************)
(* mmu_map_device() and mmu_map_rwmem()                                    *)
(***************************************************************************)
(* Callers know where the kernel is and keep off it (main.c: DDR0_SIZE).   *)
Call(name, f, l, secure) ==
  /\ pc = "idle"
  /\ (f .. l - 1) \cap Kernel = {}
  /\ pc' = name /\ a' = f
  /\ fn' = name /\ first' = f /\ limit' = l /\ ns' = ~secure
  /\ inv_needed' = FALSE
  /\ UNCHANGED <<mem, tlb, m, old>>

CallDevice == \E f \in Section, l \in Limit : Call("device", f, l, TRUE)
CallRwmem  == \E f \in Section, l \in Limit, secure \in BOOLEAN : Call("rwmem", f, l, secure)

StoreBlock(block) ==
  /\ stored' = [stored EXCEPT ![a] = block]
  /\ buffer' = buffer \cup {a}
  /\ inv_needed' = TRUE
  /\ old' = IF inv_needed THEN old ELSE stored
  /\ UNCHANGED table

Keep == UNCHANGED <<mem, inv_needed, old>>

(* Mutant: the loop runs as long as a <= addr + len.                       *)
MapDevice_OneMore ==
  /\ pc = "device" /\ a <= limit
  /\ LET entry == DeviceBlock(first, FALSE)
     IN  IF stored[a] # entry THEN StoreBlock(DeviceBlock(a, FALSE)) ELSE Keep
  /\ a' = Succ(a)
  /\ UNCHANGED <<tlb, m, pc, args>>

(* The descriptor compared with is the one of addr in every round.         *)
MapDevice ==
  /\ pc = "device" /\ a < limit
  /\ LET entry == DeviceBlock(first, FALSE)
     IN  IF stored[a] # entry THEN StoreBlock(DeviceBlock(a, FALSE)) ELSE Keep
  /\ a' = Succ(a)
  /\ UNCHANGED <<tlb, m, pc, args>>

(* Compared with a memory descriptor, stored as a device.                  *)
MapRwmem ==
  /\ pc = "rwmem" /\ a < limit
  /\ LET entry == RwmemBlock(first, ns)
     IN  IF stored[a] # entry THEN StoreBlock(DeviceBlock(a, ns)) ELSE Keep
  /\ a' = Succ(a)
  /\ UNCHANGED <<tlb, m, pc, args>>

(* Mutant: no invalidation, and so no DSB either.                          *)
EndLoop_NoInvalidate ==
  /\ pc \in {"device", "rwmem"} /\ a >= limit
  /\ pc' = "idle"
  /\ UNCHANGED <<mem, tlb, m, a, args, inv_needed, old>>

EndLoop ==
  /\ pc \in {"device", "rwmem"} /\ a >= limit
  /\ pc' = IF inv_needed THEN "tlbiallis" ELSE "idle"
  /\ UNCHANGED <<mem, tlb, m, a, args, inv_needed, old>>

(* Mutant: no DSB after the invalidation.                                  *)
Tlbiallis_NoDsb ==
  /\ pc = "tlbiallis"
  /\ tlb' = [s \in Section |-> Fault]
  /\ pc' = "idle"
  /\ UNCHANGED <<mem, m, a, args, inv_needed, old>>

(* cache_tlb_invalidate()                                                  *)
Tlbiallis ==
  /\ pc = "tlbiallis"
  /\ tlb' = [s \in Section |-> Fault]
  /\ pc' = "dsb"
  /\ UNCHANGED <<mem, m, a, args, inv_needed, old>>

Dsb ==
  /\ pc = "dsb" /\ buffer = {}
  /\ pc' = "idle"
  /\ UNCHANGED <<mem, tlb, m, a, args, inv_needed, old>>

MmuInit == MapCode \/ CodeMapped \/ MapData \/ Enable
MapCall == MapDevice \/ MapRwmem \/ EndLoop \/ Tlbiallis \/ Dsb

Next ==
  \/ MmuInit
  \/ CallDevice \/ CallRwmem \/ MapCall
  \/ \E s \in Section : Drain(s) \/ Walk(s) \/ Evict(s)

Spec == Init /\ [][Next]_vars

(***************************************************************************)
(* Properties                                                              *)
(***************************************************************************)
(* Types.                                                                  *)
TypeOK ==
  /\ table \in [Section -> Descriptor] /\ stored \in [Section -> Descriptor]
  /\ buffer \subseteq Section
  /\ tlb \in [Section -> Descriptor]
  /\ m \in BOOLEAN
  /\ pc \in {"code", "data", "idle", "device", "rwmem", "tlbiallis", "dsb"}
  /\ fn \in {"none", "device", "rwmem"}
  /\ a \in Section /\ first \in Section /\ limit \in Limit
  /\ ns \in BOOLEAN /\ inv_needed \in BOOLEAN
  /\ old \in [Section -> Descriptor]

(* mmu_virt_to_phys() and mmu_phys_to_virt() return their argument: every  *)
(* translation the hardware can use is the identity, although mmu_map_*()  *)
(* makes its descriptor from addr for one purpose, from a for another.     *)
IsIdentity(f) == \A s \in Section : f[s] # Fault => f[s].sec = s
Identity == IsIdentity(table) /\ IsIdentity(tlb)

(* When a mapping call has returned, a table walk finds the whole range    *)
(* mapped for the right world, and as a device if that was asked for, no   *)
(* matter what was mapped before and how late stores become visible; the   *)
(* caller goes on to use it at once (main.c:191, 232).                     *)
Requested == first .. limit - 1
MappedOnReturn ==
  pc = "idle" => \A s \in Requested :
    /\ table[s] # Fault
    /\ table[s].ns = ns
    /\ fn = "device" => table[s] = DeviceBlock(s, FALSE)

(* No mapping call takes away the memory the kernel runs in, before or     *)
(* after: the sections of data stay secure writable memory, the others     *)
(* with code secure read-only memory.  A call for a range that ends in the *)
(* topmost section (limit = MMU_L1_NUM_ENTRIES) never ends and maps        *)
(* everything as devices.                                                  *)
KernelStays ==
  m /\ limit < MMU_L1_NUM_ENTRIES =>
    \A s \in Kernel, view \in {table, stored} :
      view[s] = IF s \in Data THEN RwmemBlock(s, FALSE) ELSE RomemBlock(s, FALSE)

(* A TLB entry may outlive the call that replaced its descriptor:          *)
(* cache_tlb_invalidate() has no DSB before TLBIALLIS, so that a walk just *)
(* after it can fetch the old descriptor again.  It does not survive the   *)
(* next call that changes the table, which waits for its own stores and    *)
(* so leaves, in every section, its own table or the one it found.  In     *)
(* particular sections that were not mapped before, the ones main.c maps,  *)
(* have no stale entry when their call returns.                            *)
TlbBounded == pc = "idle" => \A s \in Section : tlb[s] \in {Fault, table[s], old[s]}

(* The types, the identity, and the age of what the TLB holds.             *)
TlbSound == TypeOK /\ Identity /\ TlbBounded
================================================================================
