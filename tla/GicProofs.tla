------------------------------- MODULE GicProofs -------------------------------
(***************************************************************************)
(* Proofs about Gic, for registers of any size and any number of           *)
(* interrupts.                                                             *)
(***************************************************************************)
EXTENDS Gic, NaturalsInduction, WellFoundedInduction, TLAPS

(***************************************************************************)
(* What the probe can see: bit 0 of a register and register 0 are not      *)
(* looked at (gic.c:77 and 87), so max_it is the largest of Visible, and   *)
(* only if that is Last does gic_init() silence all there is.              *)
(***************************************************************************)
Reg(x) == x \div RegSize
Visible == {x \in Interrupt : Reg(x) > 0 /\ x % RegSize > 0}
Largest == IF Visible = {} THEN 0 ELSE Max(Visible)
LastVisible == Last \in Visible

Asserts == {"set_cpu_mask", "set_prio", "enable", "disable"}
Calls == Asserts \cup {"add", "add_clear", "add_group", "add_group_write", "set_cpu_mask_write"}
AddTail == {"add_group", "add_group_write"}

(* The probing keeps GICC_CTLR off, and has found nothing above register   *)
(* n.  A call has an argument.                                             *)
ProbeInv ==
  /\ pc \in {"set", "get", "out"} => ~gicc
  /\ pc \in {"set", "get"} => n \in 1 .. TopReg /\ \A x \in Visible : Reg(x) <= n
  /\ pc = "get" => Bits(n) \subseteq enabled
  /\ pc \notin {"start", "set", "get"} => max_it = Largest
  /\ pc \in Calls => it \in SecureIts

GicInv == TypeOK /\ ProbeInv

(* gic_init() has taken the interrupts below register n from whoever had   *)
(* them.                                                                   *)
Probing == {"start", "set", "get", "out", "init"}
InitInv ==
  /\ pc \in Probing => on = {}
  /\ pc = "out" => n = 0
  /\ pc = "init" => \A x \in Interrupt : Reg(x) < n => x \in group1 \ enabled

(* From then on what is enabled was enabled by the driver, or belongs to   *)
(* the non-secure world; what is pending in group 0 is fresh.              *)
RunInv ==
  pc \notin Probing =>
    /\ enabled \subseteq on \cup (group1 \ SecureIts)
    /\ pending \subseteq group1 \cup fresh

(* Within gic_it_add() the interrupt is off until it is in group 0, and    *)
(* the word about to be written back is what was read but for it; the      *)
(* other calls are for interrupts in group 0.                              *)
CallInv ==
  /\ pc \in {"add_clear"} \cup AddTail => it \notin enabled
  /\ pc \in AddTail /\ it \in pending => it \in fresh
  /\ pc = "add_group_write" => word = group1 \cap Bits(Reg(it))
  /\ pc = "enable" => it \notin on
  /\ pc \in Asserts => it \notin group1

SetupInv == InitInv /\ RunInv /\ CallInv /\ NoAssertFails

--------------------------------------------------------------------------------
(* Arithmetic of registers                                                  *)
(* Division with remainder.                                                *)
LEMMA Quotient ==
  ASSUME NEW x \in Nat
  PROVE  /\ Reg(x) \in Nat /\ x % RegSize \in Nat /\ x % RegSize < RegSize
         /\ x = RegSize * Reg(x) + (x % RegSize)
<1>1. RegSize \in Nat \ {0}
  BY GicAssumption
<1>2. x \div RegSize \in Nat
  BY <1>1, SMT
<1>3. x % RegSize \in 0 .. RegSize - 1
  BY <1>1, SMT
<1>4. x = RegSize * (x \div RegSize) + (x % RegSize)
  BY <1>1, SMT
<1> QED BY <1>1, <1>2, <1>3, <1>4 DEF Reg

(* A larger number is not in a smaller register.                           *)
LEMMA QuotientGrows ==
  ASSUME NEW x \in Nat, NEW y \in Nat, x <= y
  PROVE  Reg(x) <= Reg(y)
<1>1. SUFFICES ASSUME Reg(y) < Reg(x) PROVE FALSE
  BY Quotient
<1> DEFINE q == Reg(x) r == Reg(y)
<1>2. RegSize \in Nat \ {0} /\ q \in Nat /\ r \in Nat /\ r + 1 <= q
  BY <1>1, Quotient, GicAssumption
<1>3. x >= RegSize * q /\ y < RegSize * r + RegSize
  <2> DEFINE k == x % RegSize
             l == y % RegSize
  <2>1. k \in Nat /\ l \in Nat /\ l < RegSize /\ x = RegSize * q + k /\ y = RegSize * r + l
    BY Quotient
  <2>2. RegSize * q \in Nat /\ RegSize * r \in Nat
    BY <1>2
  <2> HIDE DEF k, l
  <2> QED BY <1>2, <2>1, <2>2
<1> HIDE DEF q, r
<1>4. RegSize * (r + 1) <= RegSize * q
  BY <1>2, SMT
<1>5. RegSize * (r + 1) = RegSize * r + RegSize
  BY <1>2, SMT
<1> QED BY <1>2, <1>3, <1>4, <1>5, SMT

(* Every interrupt has its bit in a register there is.                     *)
LEMMA RegisterOfIt ==
  ASSUME NEW x \in Interrupt
  PROVE  x \in Nat /\ x <= Last /\ Reg(x) \in 0 .. Reg(Last) /\ Reg(Last) \in 0 .. TopReg
<1>1. x \in Nat /\ Last \in Nat /\ x <= Last /\ TopReg \in Nat
  BY GicAssumption DEF Interrupt
<1>2. Reg(x) <= Reg(Last) /\ Reg(x) \in Nat /\ Reg(Last) \in Nat
  BY <1>1, QuotientGrows, Quotient
<1>3. Last < (TopReg + 1) * RegSize /\ Last >= RegSize * Reg(Last) /\ RegSize \in Nat \ {0}
  <2>1. Last < (TopReg + 1) * RegSize /\ RegSize \in Nat \ {0}
    BY <1>1, GicAssumption
  <2>2. Last = RegSize * Reg(Last) + (Last % RegSize) /\ Last % RegSize \in Nat
    BY <1>1, Quotient
  <2>3. RegSize * Reg(Last) \in Nat
    BY <1>2, <2>1
  <2> QED BY <1>1, <2>1, <2>2, <2>3
<1>4. Reg(Last) < TopReg + 1
  <2> DEFINE q == Reg(Last)
  <2>1. SUFFICES ASSUME q >= TopReg + 1 PROVE FALSE
    BY <1>1, <1>2
  <2> HIDE DEF q
  <2>2. q \in Nat
    BY <1>2 DEF q
  <2>3. RegSize * q >= RegSize * (TopReg + 1)
    BY <1>1, <1>3, <2>1, <2>2, SMT
  <2>4. RegSize * (TopReg + 1) = (TopReg + 1) * RegSize
    BY <1>1, <1>3, SMT
  <2>5. Last >= RegSize * q
    BY <1>3 DEF q
  <2> QED BY <1>1, <1>3, <2>2, <2>3, <2>4, <2>5, SMT
<1> QED BY <1>1, <1>2, <1>4

(* A set of interrupts that is not empty has a largest one: there is a     *)
(* least distance to Last.                                                 *)
LEMMA MaxIsMax ==
  ASSUME NEW S, S \subseteq Interrupt, S # {}
  PROVE  Max(S) \in S /\ \A y \in S : Max(S) >= y
<1> DEFINE R == OpToRel(<, Nat)
           T == {Last - x : x \in S}
<1>1. Last \in Nat /\ \A x \in S : x \in Nat /\ x <= Last
  BY GicAssumption DEF Interrupt
<1>2. T \subseteq Nat /\ T # {}
  BY <1>1
<1>3. \A t, u \in Nat : <<u, t>> \in R <=> u < t
  BY DEF OpToRel
<1>4. IsWellFoundedOn(R, Nat)
  BY NatLessThanWellFounded
<1> HIDE DEF R
<1>5. \E t \in T : \A u \in T : <<u, t>> \notin R
  <2> HIDE DEF T
  <2> QED BY <1>2, <1>4, WFMin
<1>6. PICK t \in T : \A u \in T : ~(u < t)
  BY <1>2, <1>3, <1>5
<1>7. PICK x \in S : t = Last - x
  OBVIOUS
<1>8. ASSUME NEW y \in S PROVE x >= y
  <2>1. Last - y \in T
    OBVIOUS
  <2>2. ~(Last - y < Last - x)
    BY <1>6, <1>7, <2>1
  <2> QED BY <1>1, <2>2
<1> QED BY <1>8 DEF Max

(* What is not below any other is the largest one.                         *)
LEMMA MaxIs ==
  ASSUME NEW S, S \subseteq Interrupt, NEW x \in S, \A y \in S : y <= x
  PROVE  Max(S) = x
<1>1. Max(S) \in S /\ Max(S) >= x
  BY MaxIsMax
<1>2. \A y \in S : y \in Nat
  BY GicAssumption DEF Interrupt
<1> QED BY <1>1, <1>2

(* When Last can be seen it is what the probe should find.                 *)
LEMMA LargestIsLast == ASSUME LastVisible PROVE Largest = Last
<1>1. Visible \subseteq Interrupt /\ Last \in Visible /\ \A y \in Visible : y <= Last
  BY GicAssumption DEF Visible, LastVisible, Interrupt
<1>2. Max(Visible) = Last
  BY <1>1, MaxIs, Zenon
<1> QED BY <1>1, <1>2 DEF Largest

(* What the probe should find is the number of an interrupt.               *)
LEMMA LargestIsInterrupt == Largest \in Interrupt
<1>1. 0 \in Interrupt /\ Visible \subseteq Interrupt
  BY GicAssumption DEF Interrupt, Visible
<1> QED BY <1>1, MaxIsMax DEF Largest

(* What the probe finds in register n when it has found nothing above.     *)
LEMMA Found ==
  ASSUME GicInv, pc = "get", Candidates # {} \/ n = 1
  PROVE  (IF Candidates = {} THEN 0 ELSE Max(Candidates)) = Largest
<1>1. n \in 1 .. TopReg /\ n \in Nat /\ \A x \in Visible : Reg(x) <= n
  BY GicAssumption DEF GicInv, ProbeInv
<1>2. Candidates = {x \in Visible : Reg(x) = n}
  BY <1>1 DEF Candidates, GicInv, ProbeInv, Bits, Visible, Reg, TypeOK
<1>3. \A x \in Visible : Reg(x) \in Nat /\ Reg(x) > 0 /\ x \in Nat
  BY RegisterOfIt DEF Visible
<1>4. CASE Candidates = {}
  <2>1. Visible = {}
    BY <1>1, <1>2, <1>3, <1>4
  <2> QED BY <1>4, <2>1 DEF Largest
<1>5. CASE Candidates # {}
  <2>1. Candidates \subseteq Visible /\ Visible \subseteq Interrupt
    BY <1>2 DEF Visible
  <2>2. Max(Candidates) \in Candidates /\ \A y \in Candidates : Max(Candidates) >= y
    BY <1>5, <2>1, MaxIsMax
  <2> DEFINE m == Max(Candidates)
  <2>3. m \in Visible /\ Reg(m) = n /\ m \in Nat
    BY <1>2, <1>3, <2>2
  <2> HIDE DEF m
  <2>4. ASSUME NEW y \in Visible PROVE y <= m
    <3>1. CASE Reg(y) = n
      BY <1>2, <1>3, <2>2, <3>1 DEF m
    <3>2. CASE Reg(y) < n
      <4>1. ~(m <= y)
        BY <1>1, <1>3, <2>3, <3>2, QuotientGrows
      <4> QED BY <1>3, <2>3, <4>1
    <3> QED BY <1>1, <1>3, <3>1, <3>2
  <2>5. Max(Visible) = m
    BY <2>1, <2>3, <2>4, MaxIs, Zenon
  <2> QED BY <1>5, <2>1, <2>2, <2>5 DEF Largest, m
<1> QED BY <1>4, <1>5

(* Types at first.                                                         *)
LEMMA TypeInit == ASSUME Init PROVE TypeOK
<1>1. 0 \in Interrupt /\ None \notin SecureIts /\ TopReg \in Nat
  BY GicAssumption DEF Interrupt, None
<1>2. gicc \in BOOLEAN /\ gicd \in BOOLEAN /\ old_ctlr \in BOOLEAN
  BY Zenon DEF Init
<1>3. target \subseteq Interrupt /\ prio \in [Interrupt -> Prio]
  BY DEF Init, Prio
<1> QED BY <1>1, <1>2, <1>3 DEF Init, TypeOK

(* Every step keeps the types.                                             *)
LEMMA TypeStep == ASSUME GicInv, [Next]_vars PROVE TypeOK'
<1> USE DEF GicInv, TypeOK, dist, local
<1>0. /\ \A k : Bits(k) \subseteq Interrupt
      /\ TopReg \in Nat
      /\ 0 \in Interrupt
      /\ SecureIts \subseteq Interrupt
  BY GicAssumption DEF Bits, Interrupt
<1>1. CASE ProbeBegin
  <2>1. old_ctlr' \in BOOLEAN /\ gicc' \in BOOLEAN
    BY <1>1, Zenon DEF ProbeBegin
  <2> QED BY <1>0, <1>1, <2>1 DEF ProbeBegin
<1>2. CASE ProbeSet
  BY <1>0, <1>2 DEF ProbeSet
<1>3. CASE ProbeGet
  <2>1. max_it' \in Interrupt
    <3>1. CASE Candidates # {} \/ n = 1
      <4>1. max_it' = Largest
        BY <1>3, <3>1, Found DEF ProbeGet
      <4> QED BY <4>1, LargestIsInterrupt
    <3>2. CASE ~(Candidates # {} \/ n = 1)
      BY <1>0, <1>3, <3>2 DEF ProbeGet
    <3> QED BY <3>1, <3>2
  <2>2. n' \in 0 .. TopReg + 1
    BY <1>0, <1>3 DEF ProbeGet, ProbeInv
  <2> QED BY <1>3, <2>1, <2>2 DEF ProbeGet
<1>4. CASE ProbeOut
  BY <1>4 DEF ProbeOut
<1>5. CASE InitRegister
  <2>1. n <= TopReg
    <3>1. n <= Reg(max_it) /\ n \in Nat
      BY <1>5 DEF InitRegister, Reg
    <3>2. Reg(max_it) \in 0 .. Reg(Last) /\ Reg(Last) \in 0 .. TopReg
      BY RegisterOfIt
    <3> QED BY <1>0, <3>1, <3>2
  <2> QED BY <1>0, <1>5, <2>1 DEF InitRegister
<1>6. CASE EnableGic
  BY <1>6 DEF EnableGic
<1>7. CASE DriverStep
  <2>0. it \in SecureIts /\ it \in Interrupt
    BY <1>0, <1>7 DEF ProbeInv, Calls, Asserts, DriverStep, AddDisable, AddClear, AddGroupRead, AddGroupWrite,
       SetCpuMaskRead, SetCpuMaskWrite, SetPrio, Enable, Disable
  <2>1. CASE Halt
    BY <2>1 DEF Halt
  <2>2. CASE AddDisable \/ AddClear \/ AddGroupRead \/ AddGroupWrite
    BY <2>0, <2>1, <2>2 DEF AddDisable, AddClear, AddGroupRead, AddGroupWrite, Asserting, Return
  <2>3. CASE SetCpuMaskRead
    BY <2>1, <2>3 DEF SetCpuMaskRead, Asserting
  <2>3a. CASE SetCpuMaskWrite
    BY <2>0, <2>3a DEF SetCpuMaskWrite, Return
  <2>4. CASE SetPrio
    BY <2>0, <2>1, <2>4 DEF SetPrio, Asserting, Return
  <2>5. CASE Enable \/ Disable
    BY <2>0, <2>1, <2>5 DEF Enable, Disable, Asserting, Return
  <2> QED BY <1>7, <2>2, <2>3, <2>3a, <2>4, <2>5 DEF DriverStep
<1>8. ASSUME NEW x \in SecureIts, NEW fn, Call(fn, x) PROVE TypeOK'
  BY <1>8 DEF Call
<1>9. CASE ReadIar
  BY <1>9 DEF ReadIar
<1>10. CASE WriteEoir
  BY <1>10 DEF WriteEoir
<1>11. ASSUME NEW x \in Interrupt, Raise(x) \/ NsConfigure(x) PROVE TypeOK'
  BY <1>11 DEF Raise, NsConfigure
<1>12. CASE UNCHANGED vars
  BY <1>12 DEF vars
<1> QED BY <1>1, <1>2, <1>3, <1>4, <1>5, <1>6, <1>7, <1>8, <1>9, <1>10, <1>11, <1>12 DEF Next,
           GicInit

(* The other invariants at first.                                          *)
LEMMA ProbeInit == ASSUME Init PROVE ProbeInv /\ SetupInv
  BY DEF Init, SetupInv, NoAssertFails, None, ProbeInv, InitInv, RunInv, CallInv, Calls,
     Probing, Asserts, AddTail

(* Every step keeps what is said of the probing, and of the argument.      *)
LEMMA ProbeStep == ASSUME GicInv, [Next]_vars PROVE ProbeInv'
<1> USE DEF GicInv, ProbeInv, Calls, Asserts, dist, local
<1>1. CASE ProbeBegin
  <2>1. n' = TopReg /\ pc' = "set" /\ ~gicc' /\ TopReg \in 1 .. TopReg
    BY <1>1, GicAssumption DEF ProbeBegin
  <2>2. \A x \in Visible : Reg(x) <= TopReg
    <3>1. TopReg \in Nat
      BY GicAssumption
    <3> QED BY <3>1, RegisterOfIt DEF Visible
  <2> QED BY <2>1, <2>2
<1>2. CASE ProbeSet
  BY <1>2 DEF ProbeSet
<1>3. CASE ProbeGet
  <2>1. CASE Candidates # {} \/ n = 1
    <3>1. max_it' = Largest
      BY <1>3, <2>1, Found DEF ProbeGet
    <3>2. pc' = "out" /\ ~gicc'
      BY <1>3, <2>1 DEF ProbeGet
    <3> QED BY <3>1, <3>2
  <2>2. CASE ~(Candidates # {} \/ n = 1)
    <3>1. pc' = "set" /\ ~gicc' /\ n' = n - 1 /\ n \in 2 .. TopReg
      BY <1>3, <2>2 DEF ProbeGet, TypeOK
    <3>2. \A x \in Visible : Reg(x) <= n /\ Reg(x) # n /\ Reg(x) \in Nat
      BY <1>3, <2>2, RegisterOfIt DEF ProbeGet, Candidates, Visible, Bits, Reg
    <3>3. n \in Nat
      BY GicAssumption DEF TypeOK
    <3>4. \A x \in Visible : Reg(x) <= n - 1
      BY <3>2, <3>3
    <3>5. n - 1 \in 1 .. TopReg
      BY <3>1, <3>3, GicAssumption
    <3> QED BY <3>1, <3>4, <3>5
  <2> QED BY <2>1, <2>2
<1>4. CASE ProbeOut
  BY <1>4 DEF ProbeOut
<1>5. CASE InitRegister \/ EnableGic
  BY <1>5 DEF InitRegister, EnableGic
<1>7. CASE DriverStep
  <2>0. /\ pc \notin {"start", "set", "get", "out"} /\ pc' \notin {"start", "set", "get", "out"}
        /\ max_it' = max_it
        /\ pc' \in Calls => pc \in Calls /\ it' = it
    BY <1>7 DEF DriverStep, AddDisable, AddClear, AddGroupRead, AddGroupWrite, SetCpuMaskRead,
       SetCpuMaskWrite, SetPrio, Enable,
       Disable, Asserting, Return, Halt
  <2> QED BY <2>0
<1>8. ASSUME NEW x \in SecureIts, NEW fn \in Asserts \cup {"add"}, Call(fn, x)
      PROVE  ProbeInv'
  BY <1>8 DEF Call
<1>9. CASE ReadIar
  BY <1>9 DEF ReadIar
<1>10. CASE WriteEoir
  BY <1>10 DEF WriteEoir
<1>11. ASSUME NEW x \in Interrupt, Raise(x) \/ NsConfigure(x) PROVE ProbeInv'
  BY <1>11 DEF Raise, NsConfigure
<1>12. CASE UNCHANGED vars
  BY <1>12 DEF vars
<1> QED BY <1>1, <1>2, <1>3, <1>4, <1>5, <1>7, <1>8, <1>9, <1>10, <1>11, <1>12 DEF Next, GicInit, Asserts

(* Every step keeps the rest, when Last can be seen.                       *)
LEMMA SetupStep ==
  ASSUME LastVisible, GicInv, SetupInv, [Next]_vars PROVE SetupInv'
<1> USE DEF GicInv, SetupInv, InitInv, RunInv, CallInv, NoAssertFails, Probing, Asserts, Calls,
        AddTail, dist, local
<1>0. pc \notin {"start", "set", "get"} => max_it = Last
  BY LargestIsLast DEF ProbeInv
<1>1. CASE ProbeBegin \/ ProbeSet \/ ProbeGet
  BY <1>1 DEF ProbeBegin, ProbeSet, ProbeGet
<1>4. CASE ProbeOut
  <2>1. \A x \in Interrupt : ~(Reg(x) < 0)
    BY RegisterOfIt
  <2> QED BY <1>4, <2>1 DEF ProbeOut
<1>5. CASE InitRegister
  <2>1. n \in Nat /\ TopReg \in Nat
    BY GicAssumption DEF TypeOK
  <2>2. \A x \in Interrupt : Reg(x) \in Nat
    BY RegisterOfIt
  <2>3. \A x \in Interrupt : Reg(x) < n + 1 => Reg(x) < n \/ x \in Bits(n)
    BY <2>1, <2>2 DEF Bits, Reg
  <2> QED BY <1>5, <2>3 DEF InitRegister
<1>6. CASE EnableGic
  <2>1. \A x \in Interrupt : Reg(x) < n
    <3>1. n \in Nat /\ Reg(Last) < n
      BY <1>0, <1>6, GicAssumption DEF EnableGic, TypeOK, Reg
    <3> QED BY <3>1, RegisterOfIt
  <2>2. enabled' = {} /\ pending' \subseteq group1'
    BY <1>6, <2>1 DEF EnableGic, TypeOK
  <2> QED BY <1>6, <2>2 DEF EnableGic
<1>7. CASE DriverStep
  <2>0. /\ pc \in Calls /\ it \in SecureIts /\ it <= max_it
        /\ pc \in Asserts => Asserted
    <3>1. pc \in Calls
      BY <1>7 DEF DriverStep, AddDisable, AddClear, AddGroupRead, AddGroupWrite, SetCpuMaskRead,
       SetCpuMaskWrite, SetPrio, Enable,
         Disable
    <3>2. max_it = Last /\ it \in SecureIts
      BY <1>0, <3>1 DEF ProbeInv
    <3>3. it <= Last
      BY <3>2, GicAssumption
    <3> QED BY <3>1, <3>2, <3>3 DEF Asserted
  <2>1. CASE AddDisable
    BY <2>0, <2>1 DEF AddDisable, Asserting, Halt
  <2>2. CASE AddClear
    BY <2>2 DEF AddClear
  <2>3. CASE AddGroupRead
    BY <2>3 DEF AddGroupRead, Reg
  <2>3a. CASE AddGroupWrite
    <3>1. group1' = group1 \ {it}
      <4>1. word = group1 \cap Bits(it \div RegSize)
        BY <2>3a DEF AddGroupWrite, Reg
      <4>2. it \in Bits(it \div RegSize)
        BY <2>0, GicAssumption DEF Bits, Interrupt
      <4>3. group1' = (group1 \ Bits(it \div RegSize)) \cup (word \ {it})
        BY <2>3a DEF AddGroupWrite
      <4> QED BY <4>1, <4>2, <4>3
    <3> QED BY <2>0, <2>3a, <3>1 DEF AddGroupWrite, Return
  <2>4. CASE SetCpuMaskRead \/ SetPrio
    BY <2>0, <2>4 DEF SetCpuMaskRead, SetPrio, Asserting, Return
  <2>4a. CASE SetCpuMaskWrite
    BY <2>4a DEF SetCpuMaskWrite, Return
  <2>5. CASE Enable
    <3>1. it \notin enabled
      BY <2>0, <2>5 DEF Enable
    <3> QED BY <2>0, <2>5, <3>1 DEF Enable, Asserting, Return
  <2>6. CASE Disable
    BY <2>0, <2>6 DEF Disable, Asserting, Return
  <2> QED BY <1>7, <2>1, <2>2, <2>3, <2>3a, <2>4, <2>4a, <2>5, <2>6 DEF DriverStep
<1>8. ASSUME NEW x \in SecureIts, NEW fn \in Asserts \cup {"add"}, Call(fn, x)
      PROVE  SetupInv'
  BY <1>8 DEF Call
<1>9. CASE ReadIar
  BY <1>9 DEF ReadIar
<1>10. CASE WriteEoir
  BY <1>10 DEF WriteEoir
<1>11. ASSUME NEW x \in Interrupt, Raise(x) \/ NsConfigure(x) PROVE SetupInv'
  BY <1>11 DEF Raise, NsConfigure
<1>12. CASE UNCHANGED vars
  BY <1>12 DEF vars
<1> QED BY <1>1, <1>4, <1>5, <1>6, <1>7, <1>8, <1>9, <1>10, <1>11, <1>12 DEF Next, GicInit, Asserts

(* The variables are well typed, and what the probe finds is the largest   *)
(* interrupt it can see.                                                   *)
THEOREM GicInvariant == Spec => []GicInv
<1>1. Init => GicInv
  BY TypeInit, ProbeInit DEF GicInv
<1>2. GicInv /\ [Next]_vars => GicInv'
  BY TypeStep, ProbeStep DEF GicInv
<1> QED BY <1>1, <1>2, PTL DEF Spec

(* When Last can be seen: gic_init() has taken everything from whoever had *)
(* it, and what is enabled afterwards is the driver's or the non-secure    *)
(* world's.                                                                *)
THEOREM SetupInvariant == ASSUME LastVisible PROVE Spec => []SetupInv
<1>1. Init => SetupInv
  BY ProbeInit
<1>2. GicInv /\ SetupInv /\ [Next]_vars => SetupInv'
  BY SetupStep
<1> QED BY <1>1, <1>2, GicInvariant, PTL DEF Spec

(* Then the probe is right, no FIQ is signalled but for what was added,    *)
(* enabled and raised since, and no assertion of the driver fails.         *)
THEOREM GicIsSound == ASSUME LastVisible PROVE Spec => []GicSound
<1>1. GicInv => ProbeIsLargest
  BY LargestIsLast DEF GicInv, ProbeInv, ProbeIsLargest
<1>2. GicInv /\ SetupInv => NoStrayFiq
  BY DEF GicInv, ProbeInv, SetupInv, RunInv, Probing, NoStrayFiq, Signalled
<1>3. GicInv /\ SetupInv => GicSound
  BY <1>1, <1>2 DEF GicInv, SetupInv, GicSound
<1> QED BY <1>3, GicInvariant, SetupInvariant, PTL
================================================================================
