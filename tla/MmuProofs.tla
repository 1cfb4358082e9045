------------------------------- MODULE MmuProofs -------------------------------
(***************************************************************************)
(* Proofs about Mmu, for a table of any size and any place of the kernel.  *)
(***************************************************************************)
EXTENDS Mmu, TLAPS

(* What the sections of the kernel are mapped to.                          *)
KernelBlock(s) == IF s \in Data THEN RwmemBlock(s, FALSE) ELSE RomemBlock(s, FALSE)

(* A call that returns: all but those that end in the topmost section.     *)
Sane == limit < MMU_L1_NUM_ENTRIES
Loop == {"device", "rwmem"}

(* What a call leaves in section s.                                        *)
IsMapped(d, s) ==
  /\ d # Fault
  /\ d.ns = ns
  /\ fn = "device" => d = DeviceBlock(s, FALSE)
MappedBy(s) == IsMapped(stored[s], s)

IdentityInv == IsIdentity(table) /\ IsIdentity(stored) /\ IsIdentity(tlb)

(* Only what is in the store buffer differs between walk and core.         *)
BufferInv ==
  /\ \A s \in Section \ buffer : table[s] = stored[s]
  /\ pc \in {"code", "data", "idle"} => buffer = {}
  /\ pc \in Loop /\ ~inv_needed => buffer = {}

(* mmu_init() has mapped the kernel up to a.                               *)
InitInv ==
  /\ m <=> pc \notin {"code", "data"}
  /\ ~m => fn = "none" /\ first = 0 /\ limit = 0 /\ ns = FALSE
  /\ pc = "code" => /\ a \in CodeStart .. CodeEnd
                    /\ \A s \in CodeStart .. a - 1 : stored[s] = RomemBlock(s, FALSE)
  /\ pc = "data" => /\ a \in DataStart .. DataEnd
                    /\ \A s \in Kernel \ (a .. DataEnd - 1) : stored[s] = KernelBlock(s)

(* A call that returns stores inside its range, and has mapped it up to a. *)
CallInv ==
  /\ m => Requested \cap Kernel = {}
  /\ m /\ pc \notin Loop => Sane
  /\ m /\ Sane => buffer \cap Kernel = {} /\ \A s \in Kernel : stored[s] = KernelBlock(s)
  /\ pc \in Loop => fn = pc /\ (fn = "device" => ~ns)
  /\ pc \in Loop /\ Sane =>
       /\ a = first \/ a \in first .. limit
       /\ \A s \in first .. a - 1 : MappedBy(s)
  /\ m /\ pc \notin Loop => \A s \in Requested : MappedBy(s)

(* What the walk may find and the TLB hold, at each place of the code.     *)
(* Between two calls the stores are visible; the first store of a call     *)
(* makes the table it finds the old one; between the last store and the    *)
(* DSB a walk may find either; what is older goes with TLBIALLIS, and the  *)
(* DSB then makes the new table the one a walk finds.                      *)
Quiet == pc = "idle" \/ (pc \in Loop /\ ~inv_needed)
AgeInv ==
  /\ pc = "idle" => buffer = {}
  /\ ~m => tlb = [s \in Section |-> Fault]
  /\ m /\ ~Quiet => \A s \in Section : table[s] \in {old[s], stored[s]}
  /\ Quiet \/ pc = "dsb" => \A s \in Section : tlb[s] \in {Fault, old[s], stored[s]}
  /\ pc \in {"tlbiallis", "dsb"} => inv_needed
  /\ m /\ ~Quiet => \A s \in Section : stored[s] \in {old[s], DeviceBlock(s, ns)}

MmuInv == TypeOK /\ BufferInv /\ InitInv /\ CallInv

LEMMA SuccInSection == ASSUME NEW s \in Section PROVE Succ(s) \in Section
  BY MmuAssumption DEF Section, Succ

LEMMA SuccIsNext ==
  ASSUME NEW s \in Section, s + 1 < MMU_L1_NUM_ENTRIES PROVE Succ(s) = s + 1
  BY MmuAssumption DEF Section, Succ

LEMMA KernelInSection == Kernel \subseteq Section /\ Code \subseteq Section /\ Data \subseteq Section
  BY MmuAssumption DEF Kernel, Code, Data, Section

LEMMA BlockTypes ==
  ASSUME NEW s \in Section, NEW w \in BOOLEAN
  PROVE  /\ RomemBlock(s, w) \in Blocks /\ RwmemBlock(s, w) \in Blocks /\ DeviceBlock(s, w) \in Blocks
         /\ RomemBlock(s, w).sec = s /\ RwmemBlock(s, w).sec = s /\ DeviceBlock(s, w).sec = s
         /\ RomemBlock(s, w).ns = w /\ RwmemBlock(s, w).ns = w /\ DeviceBlock(s, w).ns = w
  BY DEF RomemBlock, RwmemBlock, DeviceBlock, Block, Blocks

(* A valid descriptor is a record with all fields; Fault has but one.      *)
LEMMA BlockIsValid == \A d \in Blocks : d # Fault
<1> SUFFICES ASSUME NEW d \in Blocks, d = Fault PROVE FALSE
  OBVIOUS
<1>1. DOMAIN d = {"sec", "type", "ro", "xn", "ns"}
  BY DEF Blocks
<1>2. DOMAIN Fault = {"sec"}
  BY DEF Fault
<1> QED BY <1>1, <1>2

LEMMA InitIsOk == ASSUME Init PROVE MmuInv /\ IdentityInv
<1>1. TypeOK
  <2>1. table \in [Section -> Descriptor] /\ stored \in [Section -> Descriptor]
    BY Zenon DEF Init, Descriptor
  <2>2. tlb \in [Section -> Descriptor]
    BY Zenon DEF Init, Descriptor
  <2>3. CodeStart \in Section /\ 0 \in Section /\ 0 \in Limit
    BY MmuAssumption DEF Section, Limit
  <2> QED BY <2>1, <2>2, <2>3 DEF Init, TypeOK
<1>2. \A s \in Section : table[s] = Fault /\ stored[s] = Fault /\ tlb[s] = Fault
  BY DEF Init
<1>3. IdentityInv
  BY <1>2 DEF IdentityInv, IsIdentity
<1>4. BufferInv
  BY DEF Init, BufferInv, Loop
<1>5. InitInv
  <2>1. CodeStart \in CodeStart .. CodeEnd /\ CodeStart .. CodeStart - 1 = {}
    BY MmuAssumption
  <2> QED BY <2>1 DEF Init, InitInv
<1>6. CallInv
  BY DEF Init, CallInv, Loop
<1> QED BY <1>1, <1>3, <1>4, <1>5, <1>6 DEF MmuInv

(* A round of the loops: nothing is stored, or a device descriptor for a;  *)
(* either way a is mapped then.  That nothing need be stored follows from  *)
(* the identity, because the comparison is with a descriptor for addr.     *)
Stores ==
  /\ stored' = [stored EXCEPT ![a] = DeviceBlock(a, ns)]
  /\ buffer' = buffer \cup {a}
  /\ inv_needed' = TRUE
  /\ old' = IF inv_needed THEN old ELSE stored

LEMMA LoopStep ==
  ASSUME TypeOK, IsIdentity(stored), pc \in Loop => fn = pc /\ (fn = "device" => ~ns),
         MapDevice \/ MapRwmem
  PROVE  /\ pc \in Loop /\ a < limit /\ a' = Succ(a)
         /\ UNCHANGED <<tlb, m, pc, fn, first, limit, ns, table>>
         /\ (Keep /\ IsMapped(stored[a], a)) \/ Stores
<1>0. a \in Section /\ first \in Section /\ ns \in BOOLEAN /\ stored[a] \in Descriptor
  BY DEF TypeOK
<1>1. CASE MapDevice
  <2>0. ns = FALSE /\ fn = "device"
    BY <1>1, <1>0 DEF MapDevice, Loop
  <2>1. CASE stored[a] = DeviceBlock(first, FALSE)
    <3>1. /\ DeviceBlock(first, FALSE) # Fault
          /\ DeviceBlock(first, FALSE).sec = first /\ DeviceBlock(first, FALSE).ns = FALSE
      BY <1>0, BlockTypes, BlockIsValid
    <3>2. first = a
      BY <1>0, <2>1, <3>1 DEF IsIdentity
    <3>3. IsMapped(stored[a], a)
      BY <2>0, <2>1, <3>1, <3>2 DEF IsMapped
    <3> QED BY <1>1, <2>1, <3>3 DEF MapDevice, Loop, args, Keep, mem
  <2>2. CASE stored[a] # DeviceBlock(first, FALSE)
    BY <1>1, <2>0, <2>2 DEF MapDevice, Loop, args, StoreBlock, Stores
  <2> QED BY <2>1, <2>2
<1>2. CASE MapRwmem
  <2>0. fn = "rwmem"
    BY <1>2, <1>0 DEF MapRwmem, Loop
  <2>1. CASE stored[a] = RwmemBlock(first, ns)
    <3>1. RwmemBlock(first, ns) # Fault /\ RwmemBlock(first, ns).ns = ns
      BY <1>0, BlockTypes, BlockIsValid
    <3>2. IsMapped(stored[a], a)
      BY <2>0, <2>1, <3>1 DEF IsMapped
    <3> QED BY <1>2, <2>1, <3>2 DEF MapRwmem, Loop, args, Keep, mem
  <2>2. CASE stored[a] # RwmemBlock(first, ns)
    BY <1>2, <2>2 DEF MapRwmem, Loop, args, StoreBlock, Stores
  <2> QED BY <2>1, <2>2
<1> QED BY <1>1, <1>2

LEMMA TypeStep ==
  ASSUME TypeOK, IdentityInv, BufferInv, InitInv, CallInv, [Next]_vars
  PROVE  TypeOK' /\ IdentityInv'
<1>0. a \in Section /\ Succ(a) \in Section /\ DataStart \in Section
  BY SuccInSection, MmuAssumption DEF TypeOK, Section
<1>1. CASE \E s \in Section : Drain(s) \/ Walk(s) \/ Evict(s)
  <2> PICK s \in Section : Drain(s) \/ Walk(s) \/ Evict(s)
    BY <1>1
  <2>1. CASE Drain(s)
    BY <2>1 DEF Drain, TypeOK, IdentityInv, IsIdentity, args
  <2>2. CASE Walk(s)
    BY <2>2 DEF Walk, TypeOK, IdentityInv, IsIdentity, args, mem
  <2>3. CASE Evict(s)
    BY <2>3 DEF Evict, TypeOK, IdentityInv, IsIdentity, args, mem, Descriptor
  <2> QED BY <2>1, <2>2, <2>3
<1>2. ASSUME NEW block \in Blocks, block.sec = a, InitBlock(block)
      PROVE  TypeOK' /\ IdentityInv'
  BY <1>0, <1>2 DEF InitBlock, TypeOK, IdentityInv, IsIdentity, args, Descriptor
<1>3. CASE MapCode \/ MapData
  BY <1>0, <1>2, <1>3, BlockTypes DEF MapCode, MapData
<1>4. CASE CodeMapped \/ Enable
  BY <1>0, <1>4 DEF CodeMapped, Enable, TypeOK, IdentityInv, IsIdentity, args, mem
<1>5. ASSUME NEW name \in Loop, NEW f \in Section, NEW l \in Limit, NEW w \in BOOLEAN,
             Call(name, f, l, w)
      PROVE  TypeOK' /\ IdentityInv'
  BY <1>5 DEF Call, TypeOK, IdentityInv, IsIdentity, mem, Loop
<1>6. CASE MapDevice \/ MapRwmem
  <2>1. pc \in Loop => fn = pc /\ (fn = "device" => ~ns)
    BY DEF CallInv
  <2>2. /\ a' = Succ(a)
        /\ UNCHANGED <<tlb, m, pc, fn, first, limit, ns, table>>
        /\ Keep \/ Stores
    BY <1>6, <2>1, LoopStep DEF IdentityInv
  <2>3. CASE Keep
    BY <1>0, <2>2, <2>3 DEF Keep, mem, TypeOK, IdentityInv, IsIdentity
  <2>4. CASE Stores
    <3>1. DeviceBlock(a, ns) \in Blocks /\ DeviceBlock(a, ns).sec = a
      BY <1>0, BlockTypes DEF TypeOK
    <3> QED BY <1>0, <2>2, <2>4, <3>1 DEF Stores, TypeOK, IdentityInv, IsIdentity, Descriptor
  <2> QED BY <2>2, <2>3, <2>4
<1>7. CASE EndLoop \/ Dsb
  BY <1>7 DEF EndLoop, Dsb, TypeOK, IdentityInv, IsIdentity, args, mem
<1>8. CASE Tlbiallis
  BY <1>8 DEF Tlbiallis, TypeOK, IdentityInv, IsIdentity, args, mem, Descriptor
<1>9. CASE UNCHANGED vars
  BY <1>9 DEF vars, TypeOK, IdentityInv, IsIdentity
<1> QED BY <1>1, <1>3, <1>4, <1>5, <1>6, <1>7, <1>8, <1>9
        DEF Next, MmuInit, MapCall, CallDevice, CallRwmem, Loop

LEMMA BufferStep ==
  ASSUME TypeOK, IdentityInv, BufferInv, InitInv, CallInv, [Next]_vars
  PROVE  BufferInv'
<1>1. CASE \E s \in Section : Drain(s) \/ Walk(s) \/ Evict(s)
  <2> PICK s \in Section : Drain(s) \/ Walk(s) \/ Evict(s)
    BY <1>1
  <2>1. CASE Drain(s)
    BY <2>1 DEF Drain, TypeOK, BufferInv
  <2>2. CASE Walk(s) \/ Evict(s)
    BY <2>2 DEF Walk, Evict, BufferInv, mem
  <2> QED BY <2>1, <2>2
<1>2. CASE MapCode \/ MapData
  BY <1>2 DEF MapCode, MapData, InitBlock, BufferInv, TypeOK, Loop
<1>3. CASE CodeMapped \/ Enable
  BY <1>3 DEF CodeMapped, Enable, BufferInv, mem, Loop
<1>4. CASE CallDevice \/ CallRwmem
  BY <1>4 DEF CallDevice, CallRwmem, Call, BufferInv, mem, Loop
<1>5. CASE MapDevice \/ MapRwmem
  <2>1. pc \in Loop => fn = pc /\ (fn = "device" => ~ns)
    BY DEF CallInv
  <2>2. /\ pc \in Loop /\ UNCHANGED <<pc, table>>
        /\ Keep \/ Stores
    BY <1>5, <2>1, LoopStep DEF IdentityInv
  <2>3. CASE Keep
    BY <2>2, <2>3 DEF Keep, mem, BufferInv
  <2>4. CASE Stores
    BY <2>2, <2>4 DEF Stores, BufferInv, TypeOK, Loop
  <2> QED BY <2>2, <2>3, <2>4
<1>6. CASE EndLoop
  BY <1>6 DEF EndLoop, BufferInv, mem, Loop
<1>7. CASE Tlbiallis \/ Dsb
  BY <1>7 DEF Tlbiallis, Dsb, BufferInv, mem, Loop
<1>8. CASE UNCHANGED vars
  BY <1>8 DEF vars, BufferInv
<1> QED BY <1>1, <1>2, <1>3, <1>4, <1>5, <1>6, <1>7, <1>8 DEF Next, MmuInit, MapCall

LEMMA InitStep ==
  ASSUME TypeOK, IdentityInv, BufferInv, InitInv, CallInv, [Next]_vars
  PROVE  InitInv'
<1> USE DEF Loop
<1>1. CASE \E s \in Section : Drain(s) \/ Walk(s) \/ Evict(s)
  <2>1. UNCHANGED <<stored, m, pc, a, fn, first, limit, ns>>
    BY <1>1 DEF Drain, Walk, Evict, mem, args
  <2> QED BY <2>1 DEF InitInv
<1>2. CASE MapCode
  <2>1. a + 1 \in CodeStart .. CodeEnd /\ Succ(a) = a + 1
    BY <1>2, SuccIsNext, MmuAssumption DEF MapCode, InitInv, TypeOK, Section
  <2>2. stored' = [stored EXCEPT ![a] = RomemBlock(a, FALSE)] /\ a' = a + 1
    BY <1>2, <2>1 DEF MapCode, InitBlock
  <2>3. \A s \in CodeStart .. a : s \in Section /\ (s = a \/ s \in CodeStart .. a - 1)
    BY MmuAssumption DEF TypeOK, Section
  <2>4. \A s \in CodeStart .. a : stored'[s] = RomemBlock(s, FALSE)
    BY <1>2, <2>2, <2>3 DEF MapCode, InitInv, TypeOK
  <2>5. a' - 1 = a
    BY <2>2 DEF TypeOK, Section
  <2> QED BY <1>2, <2>1, <2>2, <2>4, <2>5 DEF MapCode, InitBlock, InitInv, args
<1>3. CASE CodeMapped
  <2>1. a = CodeEnd
    BY <1>3, MmuAssumption DEF CodeMapped, InitInv
  <2>2. \A s \in Kernel \ (DataStart .. DataEnd - 1) : stored[s] = KernelBlock(s)
    BY <1>3, <2>1 DEF CodeMapped, InitInv, Kernel, Code, Data, KernelBlock
  <2>3. DataStart \in DataStart .. DataEnd
    BY MmuAssumption
  <2> QED BY <1>3, <2>2, <2>3 DEF CodeMapped, InitInv, args, mem
<1>4. CASE MapData
  <2>1. a + 1 \in DataStart .. DataEnd /\ Succ(a) = a + 1 /\ a \in Data
    BY <1>4, SuccIsNext, MmuAssumption DEF MapData, InitInv, TypeOK, Section, Data
  <2>2. stored' = [stored EXCEPT ![a] = KernelBlock(a)] /\ a' = a + 1
    BY <1>4, <2>1 DEF MapData, InitBlock, KernelBlock
  <2>3. \A s \in Kernel \ (a + 1 .. DataEnd - 1) :
          s \in Section /\ (s = a \/ s \in Kernel \ (a .. DataEnd - 1))
    BY <2>1, KernelInSection, MmuAssumption DEF TypeOK, Section
  <2>4. \A s \in Kernel \ (a + 1 .. DataEnd - 1) : stored'[s] = KernelBlock(s)
    BY <1>4, <2>2, <2>3 DEF MapData, InitInv, TypeOK
  <2> QED BY <1>4, <2>1, <2>2, <2>4 DEF MapData, InitBlock, InitInv, args, KernelBlock
<1>5. CASE Enable
  BY <1>5 DEF Enable, InitInv
<1>6. CASE CallDevice \/ CallRwmem
  BY <1>6 DEF CallDevice, CallRwmem, Call, InitInv, Loop
<1>7. CASE MapDevice \/ MapRwmem
  BY <1>7 DEF MapDevice, MapRwmem, InitInv
<1>8. CASE EndLoop \/ Tlbiallis \/ Dsb
  BY <1>8 DEF EndLoop, Tlbiallis, Dsb, InitInv
<1>9. CASE UNCHANGED vars
  BY <1>9 DEF vars, InitInv
<1> QED BY <1>1, <1>2, <1>3, <1>4, <1>5, <1>6, <1>7, <1>8, <1>9 DEF Next, MmuInit, MapCall

LEMMA CallStep ==
  ASSUME TypeOK, IdentityInv, BufferInv, InitInv, CallInv, [Next]_vars
  PROVE  CallInv'
<1> USE DEF Loop
<1>1. CASE \E s \in Section : Drain(s) \/ Walk(s) \/ Evict(s)
  <2>1. UNCHANGED <<stored, m, pc, a, fn, first, limit, ns>> /\ buffer' \subseteq buffer
    BY <1>1 DEF Drain, Walk, Evict, mem, args
  <2> QED BY <2>1 DEF CallInv, Requested, Sane, MappedBy, IsMapped
<1>2. CASE MapCode \/ CodeMapped \/ MapData
  <2>1. pc' \in {"code", "data"} /\ ~m'
    <3>1. pc \in {"code", "data"} /\ pc' \in {"code", "data"} /\ m' = m
      BY <1>2 DEF MapCode, CodeMapped, MapData, InitBlock
    <3> QED BY <3>1 DEF InitInv
  <2> QED BY <2>1 DEF CallInv
<1>3. CASE Enable
  <2>1. a = DataEnd
    BY <1>3, MmuAssumption DEF Enable, InitInv
  <2>2. \A s \in Kernel : stored[s] = KernelBlock(s)
    BY <1>3, <2>1, MmuAssumption DEF Enable, InitInv
  <2>3. first' = 0 /\ limit' = 0 /\ buffer' = {} /\ pc' = "idle" /\ stored' = stored
    BY <1>3 DEF Enable, InitInv, BufferInv, args, mem
  <2>4. Requested' = {} /\ Sane'
    BY <2>3, MmuAssumption DEF Requested, Sane
  <2> QED BY <2>2, <2>3, <2>4 DEF CallInv
<1>4. ASSUME NEW name \in Loop, NEW f \in Section, NEW l \in Limit, NEW w \in BOOLEAN,
             Call(name, f, l, w), name = "device" => w
      PROVE  CallInv'
  <2>1. /\ m /\ m' /\ Sane /\ buffer' = {} /\ stored' = stored
        /\ pc' = name /\ fn' = name /\ a' = f /\ first' = f /\ limit' = l /\ ns' = ~w
    BY <1>4 DEF Call, InitInv, CallInv, BufferInv, mem
  <2>2. Requested' \cap Kernel = {}
    BY <1>4, <2>1 DEF Call, Requested
  <2>3. \A s \in Kernel : stored[s] = KernelBlock(s)
    BY <2>1 DEF CallInv
  <2>4. first' .. a' - 1 = {}
    BY <2>1 DEF Section
  <2> QED BY <1>4, <2>1, <2>2, <2>3, <2>4 DEF CallInv
<1>5. CASE MapDevice \/ MapRwmem
  <2>1. /\ pc \in Loop /\ a < limit /\ a' = Succ(a)
        /\ UNCHANGED <<tlb, m, pc, fn, first, limit, ns, table>>
        /\ (Keep /\ IsMapped(stored[a], a)) \/ Stores
    BY <1>5, LoopStep DEF IdentityInv, CallInv
  <2>2. m /\ m' /\ Requested' = Requested
    BY <2>1 DEF InitInv, Requested
  <2>3. CASE ~Sane
    BY <2>1, <2>2, <2>3 DEF CallInv, Sane
  <2>4. CASE Sane
    <3>1. a' = a + 1 /\ a' - 1 = a /\ a \in Requested /\ a' \in first .. limit
      <4>1. a < limit /\ limit < MMU_L1_NUM_ENTRIES /\ (a = first \/ a \in first .. limit)
        BY <2>1, <2>4 DEF CallInv, Sane
      <4>2. a' = a + 1
        BY <2>1, <4>1, SuccIsNext, MmuAssumption DEF TypeOK, Section, Limit
      <4> QED BY <4>1, <4>2, MmuAssumption DEF TypeOK, Section, Limit, Requested
    <3>2. a \notin Kernel /\ a \in Section
      BY <2>2, <3>1 DEF CallInv, TypeOK
    <3>3. \A s \in Section \ {a} : stored'[s] = stored[s]
      BY <2>1 DEF Keep, mem, Stores, TypeOK
    <3>4. buffer' \cap Kernel = {} /\ \A s \in Kernel : stored'[s] = KernelBlock(s)
      <4>1. buffer' \subseteq buffer \cup {a}
        BY <2>1 DEF Keep, mem, Stores
      <4> QED BY <2>2, <2>4, <3>2, <3>3, <4>1, KernelInSection DEF CallInv
    <3>5. IsMapped(stored'[a], a)
      <4>1. CASE Keep /\ IsMapped(stored[a], a)
        BY <4>1 DEF Keep, mem
      <4>2. CASE Stores
        <5>1. stored'[a] = DeviceBlock(a, ns)
          BY <3>2, <4>2 DEF Stores, TypeOK
        <5>2. DeviceBlock(a, ns) # Fault /\ DeviceBlock(a, ns).ns = ns
          BY <3>2, BlockTypes, BlockIsValid DEF TypeOK
        <5>3. fn = "device" => ns = FALSE
          BY <2>1 DEF CallInv, TypeOK
        <5> QED BY <5>1, <5>2, <5>3 DEF IsMapped
      <4> QED BY <2>1, <4>1, <4>2
    <3>6. \A s \in first .. a : IsMapped(stored'[s], s)
      <4> TAKE s \in first .. a
      <4>1. CASE s = a
        BY <3>5, <4>1
      <4>2. CASE s # a
        <5>1. s \in Section \ {a} /\ s \in first .. a - 1
          BY <3>2, <4>2, MmuAssumption DEF TypeOK, Section
        <5> QED BY <2>1, <2>4, <3>3, <5>1 DEF CallInv, MappedBy
      <4> QED BY <4>1, <4>2
    <3>7. \A s \in first' .. a' - 1 : MappedBy(s)'
      BY <2>1, <3>1, <3>6 DEF MappedBy, IsMapped
    <3> QED BY <2>1, <2>2, <2>4, <3>1, <3>4, <3>7 DEF CallInv, Sane
  <2> QED BY <2>3, <2>4
<1>6. CASE EndLoop
  <2>1. UNCHANGED <<table, buffer, stored, tlb, m, a, fn, first, limit, ns>>
    BY <1>6 DEF EndLoop, mem, args
  <2>2. Sane /\ m /\ pc' \notin Loop
    <3>1. limit < MMU_L1_NUM_ENTRIES
      BY <1>6, MmuAssumption DEF EndLoop, TypeOK, Section, Limit
    <3> QED BY <1>6, <3>1 DEF EndLoop, Sane, InitInv
  <2>3. \A s \in Requested : s \in first .. a - 1
    BY <1>6, <2>2 DEF EndLoop, CallInv, Requested, TypeOK, Section, Limit
  <2>4. \A s \in Requested : MappedBy(s)
    BY <1>6, <2>2, <2>3 DEF EndLoop, CallInv
  <2> QED BY <2>1, <2>2, <2>4 DEF CallInv, Requested, MappedBy, IsMapped, Sane
<1>7. CASE Tlbiallis \/ Dsb
  <2>1. /\ UNCHANGED <<buffer, stored, m, a, fn, first, limit, ns>>
        /\ pc \notin Loop /\ pc' \notin Loop
    BY <1>7 DEF Tlbiallis, Dsb, mem, args
  <2> QED BY <2>1 DEF CallInv, Requested, MappedBy, IsMapped, Sane
<1>8. CASE UNCHANGED vars
  BY <1>8 DEF vars, CallInv, Requested, MappedBy, IsMapped, Sane
<1> QED BY <1>1, <1>2, <1>3, <1>4, <1>5, <1>6, <1>7, <1>8
        DEF Next, MmuInit, MapCall, CallDevice, CallRwmem

(* The age of what the TLB holds.                                          *)
LEMMA AgeStep ==
  ASSUME TypeOK, IdentityInv, BufferInv, InitInv, CallInv, AgeInv, [Next]_vars
  PROVE  AgeInv'
<1> USE DEF Loop, Quiet
<1>0. /\ a \in Section /\ stored \in [Section -> Descriptor] /\ table \in [Section -> Descriptor]
      /\ tlb \in [Section -> Descriptor] /\ old \in [Section -> Descriptor]
  BY DEF TypeOK
<1>a. Quiet => table = stored
  <2> SUFFICES ASSUME Quiet PROVE table = stored
    OBVIOUS
  <2>1. \A s \in Section : table[s] = stored[s]
    BY DEF BufferInv
  <2> QED BY <1>0, <2>1
<1>1. CASE \E s \in Section : Drain(s) \/ Walk(s) \/ Evict(s)
  <2> PICK s \in Section : Drain(s) \/ Walk(s) \/ Evict(s)
    BY <1>1
  <2>0. UNCHANGED <<stored, m, pc, a, fn, first, limit, ns, inv_needed, old>>
    BY DEF Drain, Walk, Evict, mem, args
  <2>1. CASE Drain(s)
    <3>1. ~Quiet /\ UNCHANGED tlb
      BY <2>1 DEF Drain, BufferInv
    <3>2. \A t \in Section : table'[t] \in {table[t], stored[t]}
      BY <1>0, <2>1 DEF Drain
    <3>3. pc # "idle"
      BY <3>1
    <3> QED BY <2>0, <3>1, <3>2, <3>3 DEF AgeInv
  <2>2. CASE Walk(s)
    <3>1. m /\ UNCHANGED <<table, buffer>>
      BY <2>2 DEF Walk, mem
    <3>2. \A t \in Section : tlb'[t] \in {tlb[t], table[t]}
      BY <1>0, <2>2 DEF Walk
    <3>3. Quiet \/ pc = "dsb" => \A t \in Section : table[t] \in {old[t], stored[t]}
      BY <1>a, <3>1 DEF AgeInv
    <3>4. Quiet \/ pc = "dsb" => \A t \in Section : tlb'[t] \in {Fault, old[t], stored[t]}
      BY <3>2, <3>3 DEF AgeInv
    <3> QED BY <2>0, <3>1, <3>4 DEF AgeInv
  <2>3. CASE Evict(s)
    <3>1. UNCHANGED <<table, buffer>>
      BY <2>3 DEF Evict, mem
    <3>2. \A t \in Section : tlb'[t] \in {tlb[t], Fault}
      BY <1>0, <2>3 DEF Evict
    <3>3. m
      BY <2>3 DEF Evict, AgeInv
    <3> QED BY <2>0, <3>1, <3>2, <3>3 DEF AgeInv
  <2> QED BY <2>1, <2>2, <2>3
<1>2. CASE MapCode \/ CodeMapped \/ MapData
  <2>1. ~m /\ ~m' /\ UNCHANGED <<tlb, old>> /\ pc' \in {"code", "data"}
    <3>1. pc \in {"code", "data"} /\ pc' \in {"code", "data"} /\ UNCHANGED <<tlb, m, old>>
      BY <1>2 DEF MapCode, CodeMapped, MapData, InitBlock
    <3> QED BY <3>1 DEF InitInv
  <2> QED BY <2>1 DEF AgeInv
<1>3. CASE Enable
  <2>1. ~m /\ pc' = "idle" /\ buffer' = {} /\ m' /\ UNCHANGED <<tlb, old>>
    BY <1>3 DEF Enable, InitInv, BufferInv, mem
  <2>2. \A s \in Section : tlb'[s] = Fault
    BY <2>1 DEF AgeInv
  <2> QED BY <2>1, <2>2 DEF AgeInv
<1>4. CASE CallDevice \/ CallRwmem
  <2>1. pc = "idle" /\ pc' \in Loop /\ ~inv_needed' /\ UNCHANGED <<table, buffer, stored, tlb, m, old>>
    BY <1>4 DEF CallDevice, CallRwmem, Call, mem
  <2> QED BY <2>1 DEF AgeInv
<1>5. CASE MapDevice \/ MapRwmem
  <2>1. pc \in Loop => fn = pc /\ (fn = "device" => ~ns)
    BY DEF CallInv
  <2>2. /\ pc \in Loop /\ m /\ UNCHANGED <<tlb, m, pc, ns, table>>
        /\ Keep \/ Stores
    BY <1>5, <2>1, LoopStep DEF IdentityInv, InitInv
  <2>3. CASE Keep
    BY <2>2, <2>3 DEF Keep, mem, AgeInv
  <2>4. CASE Stores
    <3>1. stored'[a] = DeviceBlock(a, ns) /\ \A s \in Section \ {a} : stored'[s] = stored[s]
      BY <1>0, <2>4 DEF Stores
    <3>2. inv_needed' /\ ~Quiet'
      BY <2>2, <2>4 DEF Stores
    <3>3. CASE ~inv_needed
      <4>1. old' = stored /\ table = stored
        BY <1>a, <2>2, <2>4, <3>3 DEF Stores
      <4> QED BY <1>0, <2>2, <3>1, <3>2, <4>1 DEF AgeInv
    <3>4. CASE inv_needed
      <4>1. old' = old
        BY <2>4, <3>4 DEF Stores
      <4>2. \A s \in Section : table[s] \in {old[s], stored[s]} /\ stored[s] \in {old[s], DeviceBlock(s, ns)}
        BY <2>2, <3>4 DEF AgeInv
      <4>3. \A s \in Section : table'[s] \in {old'[s], stored'[s]}
        BY <2>2, <3>1, <4>1, <4>2
      <4>4. \A s \in Section : stored'[s] \in {old'[s], DeviceBlock(s, ns')}
        BY <2>2, <3>1, <4>1, <4>2
      <4> QED BY <2>2, <3>2, <4>3, <4>4 DEF AgeInv
    <3> QED BY <3>3, <3>4
  <2> QED BY <2>2, <2>3, <2>4
<1>6. CASE EndLoop
  <2>1. /\ pc \in Loop /\ pc' = IF inv_needed THEN "tlbiallis" ELSE "idle"
        /\ UNCHANGED <<table, buffer, stored, tlb, m, ns, inv_needed, old>>
    BY <1>6 DEF EndLoop, mem, args
  <2>2. CASE inv_needed
    BY <2>1, <2>2 DEF AgeInv
  <2>3. CASE ~inv_needed
    BY <2>1, <2>3 DEF AgeInv, BufferInv
  <2> QED BY <2>2, <2>3
<1>7. CASE Tlbiallis
  <2>1. /\ pc = "tlbiallis" /\ pc' = "dsb"
        /\ UNCHANGED <<table, buffer, stored, m, ns, inv_needed, old>>
        /\ \A s \in Section : tlb'[s] = Fault
    BY <1>7 DEF Tlbiallis, mem, args
  <2>2. m
    BY <2>1 DEF InitInv
  <2> QED BY <2>1, <2>2 DEF AgeInv
<1>8. CASE Dsb
  <2>1. /\ pc = "dsb" /\ pc' = "idle" /\ buffer' = {}
        /\ UNCHANGED <<table, buffer, stored, tlb, m, ns, inv_needed, old>>
    BY <1>8 DEF Dsb, mem, args
  <2> QED BY <2>1 DEF AgeInv, InitInv
<1>9. CASE UNCHANGED vars
  BY <1>9 DEF vars, AgeInv
<1> QED BY <1>1, <1>2, <1>3, <1>4, <1>5, <1>6, <1>7, <1>8, <1>9 DEF Next, MmuInit, MapCall

LEMMA InvHolds == Spec => [](MmuInv /\ IdentityInv)
<1>1. MmuInv /\ IdentityInv /\ [Next]_vars => MmuInv' /\ IdentityInv'
  BY TypeStep, BufferStep, InitStep, CallStep DEF MmuInv
<1> QED BY <1>1, InitIsOk, PTL DEF Spec

(* The table, the TLB and the loop variables are well typed.               *)
THEOREM TypeCorrect == Spec => []TypeOK
<1>1. MmuInv => TypeOK
  BY DEF MmuInv
<1> QED BY <1>1, InvHolds, PTL

(* Virtual is physical, wherever mmu_map_*() takes its descriptors from.   *)
THEOREM IdentityHolds == Spec => []Identity
<1>1. IdentityInv => Identity
  BY DEF IdentityInv, Identity
<1> QED BY <1>1, InvHolds, PTL

(* What the TLB holds is well typed and the identity, and when no call is  *)
(* under way it is what the table says or said before the last call that   *)
(* changed it, although TLBIALLIS does not wait for the stores.            *)
THEOREM TlbSoundHolds == Spec => []TlbSound
<1>1. Init => AgeInv
  BY DEF Init, AgeInv, Quiet, Loop
<1>2. MmuInv /\ IdentityInv /\ AgeInv /\ [Next]_vars => AgeInv'
  BY AgeStep DEF MmuInv
<1>3. MmuInv /\ IdentityInv /\ AgeInv => TlbSound
  <2> SUFFICES ASSUME MmuInv, AgeInv, pc = "idle", NEW s \in Section
               PROVE  tlb[s] \in {Fault, table[s], old[s]}
    BY DEF MmuInv, IdentityInv, TlbSound, Identity, TlbBounded
  <2>1. table[s] = stored[s]
    BY DEF MmuInv, BufferInv
  <2> QED BY <2>1 DEF AgeInv, Quiet
<1> QED BY <1>1, <1>2, <1>3, InvHolds, PTL DEF Spec

(* A mapping call that returns has mapped its range, visibly to the walk.  *)
THEOREM MappedHolds == Spec => []MappedOnReturn
<1>1. MmuInv => MappedOnReturn
  <2> SUFFICES ASSUME MmuInv, pc = "idle", NEW s \in Requested
               PROVE  table[s] # Fault /\ table[s].ns = ns /\ (fn = "device" => table[s] = DeviceBlock(s, FALSE))
    BY DEF MappedOnReturn
  <2>1. m /\ MappedBy(s) /\ Sane
    BY DEF MmuInv, InitInv, CallInv, Loop
  <2>2. s \in Section
    BY <2>1, MmuAssumption DEF MmuInv, Requested, Sane, TypeOK, Section, Limit
  <2>3. table[s] = stored[s]
    BY <2>2 DEF MmuInv, BufferInv
  <2> QED BY <2>1, <2>3 DEF MappedBy, IsMapped
<1> QED BY <1>1, InvHolds, PTL

(* No call that returns touches the sections the kernel runs in.           *)
THEOREM KernelStaysHolds == Spec => []KernelStays
<1>1. MmuInv => KernelStays
  <2> SUFFICES ASSUME MmuInv, m, limit < MMU_L1_NUM_ENTRIES, NEW s \in Kernel
               PROVE  stored[s] = KernelBlock(s) /\ table[s] = KernelBlock(s)
    BY DEF KernelStays, KernelBlock
  <2>1. stored[s] = KernelBlock(s) /\ s \notin buffer
    BY DEF MmuInv, CallInv, Sane
  <2> QED BY <2>1, KernelInSection DEF MmuInv, BufferInv
<1> QED BY <1>1, InvHolds, PTL
================================================================================
