----------------------------- MODULE PartsProofs -----------------------------
(***************************************************************************)
(* Proofs about Resmem, for any word size that is a multiple of any        *)
(* alignment.                                                              *)
(***************************************************************************)
EXTENDS MCParts, NaturalsInduction, WellFoundedInduction, SequenceTheorems, TLAPS

(* Everything allocated lies below begin, and nothing is allocated when    *)
(* resmem_init found its limits to wrap.                                   *)
BelowInv ==
  /\ disabled \/ low <= begin
  /\ \A x \in blocks : low <= x.at /\ x.at + x.size <= begin /\ begin <= end

ResmemInv == TypeOK /\ BelowInv /\ BlocksApart /\ RefusedForGood

--------------------------------------------------------------------------------
(* Arithmetic                                                              *)
(* A sum that does not reach the word size is kept.                        *)
LEMMA WrapSmall == \A x \in Nat : x < Width => Wrap(x) = x
  BY WidthAssumption, SMT DEF Wrap

(* One that does loses it once.                                            *)
LEMMA WrapOnce == \A x \in Nat : Width <= x /\ x < 2 * Width => Wrap(x) = x - Width
  BY WidthAssumption, SMT DEF Wrap

(* Division with remainder.                                                *)
LEMMA Quotient ==
  \A x \in Nat : /\ x \div Align \in Nat
                 /\ x % Align \in 0 .. Align - 1
                 /\ x = Align * (x \div Align) + (x % Align)
  BY WidthAssumption, SMT

(* A multiple of the alignment is aligned.                                 *)
LEMMA Multiple == \A q \in Nat : (Align * q) % Align = 0
  BY WidthAssumption, SMT

(* Below the alignment, only 0 is aligned.                                 *)
LEMMA AlignSmall == \A x \in Nat : x < Align => x % Align = x
  BY WidthAssumption, SMT

(* Aligned numbers are at least the alignment apart.                       *)
LEMMA AlignGap ==
  \A x, y \in Nat : x % Align = 0 /\ y % Align = 0 /\ x < y => x + Align <= y
  BY WidthAssumption, SMT

(* Taking the remainder away aligns.                                       *)
LEMMA AlignedDown ==
  ASSUME NEW x \in Nat
  PROVE  x - (x % Align) \in Nat /\ (x - (x % Align)) % Align = 0
  <1>1. x - (x % Align) = Align * (x \div Align)
    BY Quotient, WidthAssumption
  <1>2. x - (x % Align) \in Nat
    BY Quotient, WidthAssumption
  <1>3. QED
    BY <1>1, <1>2, Quotient, Multiple

(* Sums of aligned numbers are aligned.                                    *)
LEMMA AlignAdd ==
  ASSUME NEW x \in Nat, NEW y \in Nat, x % Align = 0, y % Align = 0
  PROVE  (x + y) % Align = 0
  <1> DEFINE p == x \div Align
             q == y \div Align
  <1>1. p \in Nat /\ q \in Nat /\ x = Align * p /\ y = Align * q
    BY Quotient, WidthAssumption
  <1> HIDE DEF p, q
  <1>2. x + y = Align * (p + q)
    BY <1>1, WidthAssumption, SMT
  <1>3. QED
    BY <1>1, <1>2, Multiple

(* ROUNDUP is the least multiple of the alignment that is not below its    *)
(* argument, unless there is none: then it is 0.                           *)
LEMMA RoundupLeast ==
  ASSUME NEW v \in Word
  PROVE  /\ Roundup(v) \in Word /\ Roundup(v) % Align = 0
         /\ \A n \in Word : n % Align = 0 /\ v <= n => v <= Roundup(v) /\ Roundup(v) <= n
  <1> DEFINE x == v + (Align - 1)
  <1>0. v \in Nat /\ v < Width /\ x \in Nat /\ Width \in Nat /\ Align \in Nat /\ 0 < Align
    BY WidthAssumption DEF Word
  <1>1. Align <= Width
    BY <1>0, WidthAssumption, AlignSmall
  <1>2. CASE x < Width
    <2>1. Roundup(v) = x - (x % Align)
      BY <1>0, <1>2, WrapSmall DEF Roundup
    <2>2. Roundup(v) \in Nat /\ Roundup(v) % Align = 0
      BY <1>0, <2>1, AlignedDown
    <2>3. v <= Roundup(v) /\ Roundup(v) <= x
      BY <1>0, <2>1, Quotient
    <2>4. ASSUME NEW n \in Word, n % Align = 0, v <= n PROVE Roundup(v) <= n
      <3>1. n \in Nat
        BY <1>0 DEF Word
      <3>2. Roundup(v) > n => n + Align <= Roundup(v)
        BY <2>2, <2>4, <3>1, AlignGap
      <3>3. QED
        BY <1>0, <2>2, <2>3, <2>4, <3>1, <3>2
    <2>5. QED
      BY <1>0, <1>2, <2>2, <2>3, <2>4 DEF Word
  <1>3. CASE Width <= x
    <2>1. Wrap(x) = x - Width /\ x - Width \in Nat /\ x - Width < Align
      BY <1>0, <1>1, <1>3, WrapOnce
    <2>2. Roundup(v) = 0
      BY <2>1, AlignSmall DEF Roundup
    <2>3. 0 % Align = 0
      BY <1>0, AlignSmall
    <2>4. ASSUME NEW n \in Word, n % Align = 0, v <= n PROVE FALSE
      <3>1. n + Align <= Width
        BY <1>0, <2>4, AlignGap, WidthAssumption DEF Word
      <3>2. QED
        BY <1>0, <1>3, <2>4, <3>1 DEF Word
    <2>5. QED
      BY <1>0, <2>2, <2>3, <2>4 DEF Word
  <1>4. QED
    BY <1>0, <1>2, <1>3

--------------------------------------------------------------------------------
(* resmem_init establishes the invariant.                                  *)
LEMMA InitInv == Init => ResmemInv
  <1> SUFFICES ASSUME Init PROVE ResmemInv
    OBVIOUS
  <1>1. TypeOK
    BY RoundupLeast DEF Init, TypeOK
  <1>2. disabled \/ low <= begin
    <2>1. begin \in Nat /\ low \in Nat
      BY <1>1, WidthAssumption DEF TypeOK, Word
    <2>2. begin < low => disabled
      BY DEF Init
    <2>3. QED
      BY <2>1, <2>2
  <1>3. BelowInv /\ BlocksApart /\ RefusedForGood
    BY <1>2 DEF Init, BelowInv, BlocksApart, RefusedForGood
  <1>4. QED
    BY <1>1, <1>3 DEF ResmemInv

(* An allocation takes [begin, begin + s) and keeps what lies below.       *)
LEMMA AllocTakes ==
  ASSUME ResmemInv, NEW size \in Word, ~Refuses(Roundup(size), size, Wrap(begin + Roundup(size)))
  PROVE  LET nb == Wrap(begin + Roundup(size))
         IN  /\ nb \in Word /\ nb % Align = 0
             /\ begin + size <= nb /\ nb <= end /\ low <= begin /\ ~disabled
  <1> DEFINE s == Roundup(size)
             nb == Wrap(begin + s)
  <1>1. /\ begin \in Nat /\ begin < Width /\ begin % Align = 0 /\ end \in Nat /\ low \in Nat
        /\ s \in Nat /\ s < Width /\ s % Align = 0 /\ size \in Nat
        /\ Width \in Nat
    BY RoundupLeast, WidthAssumption DEF ResmemInv, TypeOK, Word
  <1>2. ~disabled /\ size <= s /\ begin <= nb /\ nb <= end
    <2>1. nb \in Nat
      BY <1>1, WidthAssumption, SMT DEF Wrap
    <2>2. QED
      BY <1>1, <2>1 DEF Refuses
  <1>3. nb = begin + s /\ nb < Width
    <2>1. CASE begin + s < Width
      BY <1>1, <2>1, WrapSmall
    <2>2. CASE Width <= begin + s
      BY <1>1, <1>2, <2>2, WrapOnce
    <2>3. QED
      BY <1>1, <2>1, <2>2
  <1>4. nb % Align = 0
    BY <1>1, <1>3, AlignAdd
  <1>5. QED
    BY <1>1, <1>2, <1>3, <1>4 DEF ResmemInv, BelowInv, Word

(* A request refused while allocation is enabled has no room.              *)
LEMMA RefusalRight ==
  ASSUME ResmemInv, NEW size \in Word, ~disabled,
         Refuses(Roundup(size), size, Wrap(begin + Roundup(size))),
         NEW n \in Word, n % Align = 0, size <= n
  PROVE  begin + n > end
  <1> DEFINE s == Roundup(size)
             nb == Wrap(begin + s)
  <1>1. /\ begin \in Nat /\ begin < Width /\ end \in Nat /\ end < Width
        /\ s \in Nat /\ s < Width /\ size <= s /\ s <= n /\ n \in Nat /\ size \in Nat
        /\ Width \in Nat
    BY RoundupLeast, WidthAssumption DEF ResmemInv, TypeOK, Word
  <1>2. nb < begin \/ nb > end
    BY <1>1 DEF Refuses
  <1>3. CASE begin + s < Width
    BY <1>1, <1>2, <1>3, WrapSmall
  <1>4. CASE Width <= begin + s
    BY <1>1, <1>4
  <1>5. QED
    BY <1>1, <1>3, <1>4

(* Every call keeps it.                                                    *)
LEMMA StepInv == ResmemInv /\ [Next]_vars => ResmemInv'
  <1> SUFFICES ASSUME ResmemInv, [Next]_vars PROVE ResmemInv'
    OBVIOUS
  <1>1. CASE Alloc
    <2>1. PICK size \in Word :
            \/ /\ Refuses(Roundup(size), size, Wrap(begin + Roundup(size)))
               /\ refused' = {size} /\ UNCHANGED <<begin, blocks>>
            \/ /\ ~Refuses(Roundup(size), size, Wrap(begin + Roundup(size)))
               /\ begin' = Wrap(begin + Roundup(size))
               /\ blocks' = blocks \cup {[at |-> begin, size |-> size]}
               /\ refused' = {}
      BY <1>1 DEF Alloc
    <2>2. UNCHANGED <<end, disabled, low>>
      BY <1>1 DEF Alloc
    <2>3. CASE Refuses(Roundup(size), size, Wrap(begin + Roundup(size)))
      <3>1. refused' = {size} /\ UNCHANGED <<begin, blocks>>
        BY <2>1, <2>3
      <3>2. RefusedForGood'
        BY <2>2, <2>3, <3>1, RefusalRight DEF RefusedForGood
      <3>3. QED
        BY <2>2, <3>1, <3>2 DEF ResmemInv, TypeOK, BelowInv, BlocksApart, Apart
    <2>4. CASE ~Refuses(Roundup(size), size, Wrap(begin + Roundup(size)))
      <3>1. /\ begin' \in Word /\ begin' % Align = 0 /\ begin + size <= begin'
            /\ begin' <= end /\ low <= begin /\ ~disabled
            /\ blocks' = blocks \cup {[at |-> begin, size |-> size]} /\ refused' = {}
        BY <2>1, <2>4, AllocTakes
      <3>2. begin \in Nat /\ begin' \in Nat /\ end \in Nat /\ low \in Nat /\ size \in Nat
        BY <3>1, WidthAssumption DEF ResmemInv, TypeOK, Word
      <3>3. \A x \in blocks : x.at \in Nat /\ x.size \in Nat /\ low <= x.at
            /\ x.at + x.size <= begin
        BY WidthAssumption DEF ResmemInv, TypeOK, BelowInv, Word
      <3>4. TypeOK'
        BY <2>2, <3>1 DEF ResmemInv, TypeOK
      <3>5. BelowInv'
        BY <2>2, <3>1, <3>2, <3>3 DEF BelowInv
      <3>6. BlocksApart'
        BY <2>2, <3>1, <3>2, <3>3 DEF ResmemInv, BlocksApart, Apart
      <3>7. RefusedForGood'
        BY <3>1 DEF RefusedForGood
      <3>8. QED
        BY <3>4, <3>5, <3>6, <3>7 DEF ResmemInv
    <2>5. QED
      BY <2>3, <2>4
  <1>2. CASE Disable
    BY <1>2 DEF Disable, ResmemInv, TypeOK, BelowInv, BlocksApart, Apart, RefusedForGood
  <1>3. CASE UNCHANGED vars
    BY <1>3 DEF vars, ResmemInv, TypeOK, BelowInv, BlocksApart, Apart, RefusedForGood
  <1>4. QED
    BY <1>1, <1>2, <1>3 DEF Next

(* The inductive invariant.                                                *)
THEOREM ResmemInvariant == Spec => []ResmemInv
  BY InitInv, StepInv, PTL DEF Spec

(* Types and alignment.                                                    *)
THEOREM ResmemTypes == Spec => []TypeOK
  <1>1. ResmemInv => TypeOK
    BY DEF ResmemInv
  <1>2. QED
    BY ResmemInvariant, <1>1, PTL

(* Allocations are apart and inside the limits, for any address space, any *)
(* limits and any sizes.                                                   *)
THEOREM BlocksAreApart == Spec => []BlocksApart
  <1>1. ResmemInv => BlocksApart
    BY DEF ResmemInv
  <1>2. QED
    BY ResmemInvariant, <1>1, PTL

(* No request that fits is refused before resmem_disable.                  *)
THEOREM RefusalsAreRight == Spec => []RefusedForGood
  <1>1. ResmemInv => RefusedForGood
    BY DEF ResmemInv
  <1>2. QED
    BY ResmemInvariant, <1>1, PTL

(***************************************************************************)
(* Exceptions of threads.  The argument: what is on a thread's stack and   *)
(* on the abort stack is what the frames, the history of who was           *)
(* interrupted, say; so every return pops what its own entry pushed.       *)
(***************************************************************************)
(* Code is addressed by numbers.                                           *)
LEMMA CodeIsInt == Code \subseteq Int
  BY PartsAssumption

(* What a program counter may hold: code, the place behind an svc, or junk *)
(* after a handler; anything, once an undefined instruction has returned.  *)
Pc == IF "und" \in Returning THEN Int ELSE Code \cup {a + 4 : a \in Code} \cup {E!Junk}
(* The stacks of the handlers, by the registers they found.                *)
SvcStack(r) == <<r["cpsr"], r["r0"], r["r1"], r["r2"], r["r3"], r["r4"], r["r5"], r["pc"]>>
AbtStack(r, lr) == <<r["cpsr"], r["r1"], r["r0"], r["r1"], r["r2"], r["r3"], r["ip"], lr>>

(* What thread_svc_handler pushes of the registers.                        *)
LEMMA HeldSvc == E!Held(<<"r0", "r1", "r2", "r3", "r4", "r5">>)
                 = <<reg["r0"], reg["r1"], reg["r2"], reg["r3"], reg["r4"], reg["r5"]>>
  BY DEF E!Held

(* What the abort handlers push of them.                                   *)
LEMMA HeldAbt == E!Held(<<"r0", "r1", "r2", "r3", "ip">>)
                 = <<reg["r0"], reg["r1"], reg["r2"], reg["r3"], reg["ip"]>>
  BY DEF E!Held

(* A sequence is what it is put together from.                             *)
LEMMA Concat ==
  ASSUME NEW S, NEW s \in Seq(S), NEW t \in Seq(S), NEW u \in Seq(S),
         Len(u) = Len(s) + Len(t),
         \A i \in 1 .. Len(s) : u[i] = s[i],
         \A i \in 1 .. Len(t) : u[Len(s) + i] = t[i]
  PROVE  s \o t = u
<1>1. s \o t \in Seq(S) /\ Len(s \o t) = Len(u) /\ Len(s) \in Nat /\ Len(t) \in Nat
  BY ConcatProperties
<1>2. ASSUME NEW i \in 1 .. Len(u) PROVE (s \o t)[i] = u[i]
  <2>1. (s \o t)[i] = IF i <= Len(s) THEN s[i] ELSE t[i - Len(s)]
    BY <1>1, ConcatProperties
  <2>2. CASE i <= Len(s)
    BY <1>1, <2>1, <2>2
  <2>3. CASE ~(i <= Len(s))
    <3>1. i - Len(s) \in 1 .. Len(t) /\ Len(s) + (i - Len(s)) = i
      BY <1>1, <2>3
    <3>2. u[Len(s) + (i - Len(s))] = t[i - Len(s)]
      BY <3>1
    <3> QED BY <2>1, <2>3, <3>1, <3>2
  <2> QED BY <2>2, <2>3
<1> QED BY <1>1, <1>2, SeqEqual

(* The pushes of thread_svc_handler, in one.                               *)
LEMMA Cat8 == ASSUME NEW a1, NEW a2, NEW a3, NEW a4, NEW a5, NEW a6, NEW a7, NEW a8
  PROVE <<a1>> \o <<a2, a3, a4, a5, a6, a7>> \o <<a8>> \o <<>>
        = <<a1, a2, a3, a4, a5, a6, a7, a8>>
<1> DEFINE S == {a1, a2, a3, a4, a5, a6, a7, a8}
<1>1. <<a1>> \in Seq(S) /\ <<a2, a3, a4, a5, a6, a7>> \in Seq(S) /\ <<a8>> \in Seq(S)
      /\ <<a1, a2, a3, a4, a5, a6, a7>> \in Seq(S)
      /\ <<a1, a2, a3, a4, a5, a6, a7, a8>> \in Seq(S)
  OBVIOUS
<1> HIDE DEF S
<1>2. <<a1>> \o <<a2, a3, a4, a5, a6, a7>> = <<a1, a2, a3, a4, a5, a6, a7>>
  <2> DEFINE s == <<a1>>
             t == <<a2, a3, a4, a5, a6, a7>>
             u == <<a1, a2, a3, a4, a5, a6, a7>>
  <2>1. Len(u) = Len(s) + Len(t) /\ s \in Seq(S) /\ t \in Seq(S) /\ u \in Seq(S)
    BY <1>1
  <2>2. \A i \in 1 .. Len(s) : u[i] = s[i]
    OBVIOUS
  <2>3. \A i \in 1 .. Len(t) : u[Len(s) + i] = t[i]
    OBVIOUS
  <2> HIDE DEF s, t, u
  <2>4. s \o t = u
    BY <2>1, <2>2, <2>3, Concat
  <2> QED BY <2>4 DEF s, t, u
<1>3. <<a1, a2, a3, a4, a5, a6, a7>> \o <<a8>> = <<a1, a2, a3, a4, a5, a6, a7, a8>>
  <2> DEFINE s == <<a1, a2, a3, a4, a5, a6, a7>>
             t == <<a8>>
             u == <<a1, a2, a3, a4, a5, a6, a7, a8>>
  <2>1. Len(u) = Len(s) + Len(t) /\ s \in Seq(S) /\ t \in Seq(S) /\ u \in Seq(S)
    BY <1>1
  <2>2. \A i \in 1 .. Len(s) : u[i] = s[i]
    OBVIOUS
  <2>3. \A i \in 1 .. Len(t) : u[Len(s) + i] = t[i]
    OBVIOUS
  <2> HIDE DEF s, t, u
  <2>4. s \o t = u
    BY <2>1, <2>2, <2>3, Concat
  <2> QED BY <2>4 DEF s, t, u
<1>4. <<a1, a2, a3, a4, a5, a6, a7, a8>> \o <<>> = <<a1, a2, a3, a4, a5, a6, a7, a8>>
  BY <1>1, ConcatEmptySeq
<1> QED BY <1>2, <1>3, <1>4

(* The pushes of an abort handler, in one.                                 *)
LEMMA Cat8b == ASSUME NEW a1, NEW a2, NEW a3, NEW a4, NEW a5, NEW a6, NEW a7, NEW a8
  PROVE <<a1, a2>> \o <<a3, a4, a5, a6, a7>> \o <<a8>> \o <<>>
        = <<a1, a2, a3, a4, a5, a6, a7, a8>>
<1> DEFINE S == {a1, a2, a3, a4, a5, a6, a7, a8}
<1>1. <<a1, a2>> \in Seq(S) /\ <<a3, a4, a5, a6, a7>> \in Seq(S) /\ <<a8>> \in Seq(S)
      /\ <<a1, a2, a3, a4, a5, a6, a7>> \in Seq(S)
      /\ <<a1, a2, a3, a4, a5, a6, a7, a8>> \in Seq(S)
  OBVIOUS
<1> HIDE DEF S
<1>2. <<a1, a2>> \o <<a3, a4, a5, a6, a7>> = <<a1, a2, a3, a4, a5, a6, a7>>
  <2> DEFINE s == <<a1, a2>>
             t == <<a3, a4, a5, a6, a7>>
             u == <<a1, a2, a3, a4, a5, a6, a7>>
  <2>1. Len(u) = Len(s) + Len(t) /\ s \in Seq(S) /\ t \in Seq(S) /\ u \in Seq(S)
    BY <1>1
  <2>2. \A i \in 1 .. Len(s) : u[i] = s[i]
    OBVIOUS
  <2>3. \A i \in 1 .. Len(t) : u[Len(s) + i] = t[i]
    OBVIOUS
  <2> HIDE DEF s, t, u
  <2>4. s \o t = u
    BY <2>1, <2>2, <2>3, Concat
  <2> QED BY <2>4 DEF s, t, u
<1>3. <<a1, a2, a3, a4, a5, a6, a7>> \o <<a8>> = <<a1, a2, a3, a4, a5, a6, a7, a8>>
  <2> DEFINE s == <<a1, a2, a3, a4, a5, a6, a7>>
             t == <<a8>>
             u == <<a1, a2, a3, a4, a5, a6, a7, a8>>
  <2>1. Len(u) = Len(s) + Len(t) /\ s \in Seq(S) /\ t \in Seq(S) /\ u \in Seq(S)
    BY <1>1
  <2>2. \A i \in 1 .. Len(s) : u[i] = s[i]
    OBVIOUS
  <2>3. \A i \in 1 .. Len(t) : u[Len(s) + i] = t[i]
    OBVIOUS
  <2> HIDE DEF s, t, u
  <2>4. s \o t = u
    BY <2>1, <2>2, <2>3, Concat
  <2> QED BY <2>4 DEF s, t, u
<1>4. <<a1, a2, a3, a4, a5, a6, a7, a8>> \o <<>> = <<a1, a2, a3, a4, a5, a6, a7, a8>>
  BY <1>1, ConcatEmptySeq
<1> QED BY <1>2, <1>3, <1>4

(* A frame on nothing, and on another one.                                 *)
LEMMA Cat1 == ASSUME NEW f, NEW g PROVE <<f>> \o <<>> = <<f>> /\ <<f>> \o <<g>> = <<f, g>>
<1> DEFINE S == {f, g}
<1>1. <<f>> \in Seq(S) /\ <<g>> \in Seq(S) /\ <<f, g>> \in Seq(S)
  OBVIOUS
<1> HIDE DEF S
<1>2. <<f>> \o <<g>> = <<f, g>>
  <2> DEFINE s == <<f>>
             t == <<g>>
             u == <<f, g>>
  <2>1. Len(u) = Len(s) + Len(t) /\ s \in Seq(S) /\ t \in Seq(S) /\ u \in Seq(S)
    BY <1>1
  <2>2. \A i \in 1 .. Len(s) : u[i] = s[i]
    OBVIOUS
  <2>3. \A i \in 1 .. Len(t) : u[Len(s) + i] = t[i]
    OBVIOUS
  <2> HIDE DEF s, t, u
  <2>4. s \o t = u
    BY <2>1, <2>2, <2>3, Concat
  <2> QED BY <2>4 DEF s, t, u
<1> QED BY <1>1, <1>2, ConcatEmptySeq

(* What is popped, is gone.                                                *)
LEMMA Drop8 == ASSUME NEW a1, NEW a2, NEW a3, NEW a4, NEW a5, NEW a6, NEW a7, NEW a8
  PROVE E!Drop(<<a1, a2, a3, a4, a5, a6, a7, a8>>, 8) = <<>>
  BY DEF E!Drop

(* Sequences of no, one and two frames.                                    *)
LEMMA HeadTail ==
  /\ Len(<<>>) = 0
  /\ \A f : Head(<<f>>) = f /\ Tail(<<f>>) = <<>> /\ Len(<<f>>) = 1 /\ <<f>> # <<>>
  /\ \A f, g : Head(<<f, g>>) = f /\ Tail(<<f, g>>) = <<g>> /\ Len(<<f, g>>) = 2
     /\ <<f, g>> # <<>>
  OBVIOUS

(* What is popped, in the order of the stack.                              *)
SvcNames == <<"spsr", "r0", "r1", "r2", "r3", "r4", "r5", "lr">>
AbtNames == <<"spsr", "pad", "r0", "r1", "r2", "r3", "ip", "lr">>

(* What thread_svc_handler pops into which register.                       *)
LEMMA LoadedSvc == ASSUME NEW s, NEW L, L = E!Loaded(SvcNames, s)
 PROVE /\ E!ToSet(SvcNames) = {"spsr", "r0", "r1", "r2", "r3", "r4", "r5", "lr"}
       /\ L["spsr"] = s[1]
       /\ L["r0"] = s[2]
       /\ L["r1"] = s[3]
       /\ L["r2"] = s[4]
       /\ L["r3"] = s[5]
       /\ L["r4"] = s[6]
       /\ L["r5"] = s[7]
       /\ L["lr"] = s[8]
<1>1. E!ToSet(SvcNames) = {"spsr", "r0", "r1", "r2", "r3", "r4", "r5", "lr"}
  BY DEF E!ToSet, SvcNames
<1>2. DOMAIN SvcNames = 1 .. 8
  BY DEF SvcNames
<1>3. \A k \in 1 .. 8 : (CHOOSE j \in DOMAIN SvcNames : SvcNames[j] = SvcNames[k]) = k
  BY <1>2 DEF SvcNames
<1>4. ASSUME NEW k \in 1 .. 8 PROVE L[SvcNames[k]] = s[k]
  BY <1>1, <1>2, <1>3 DEF E!Loaded, E!ToSet
<1>5. L[SvcNames[1]] = s[1] /\ L[SvcNames[2]] = s[2] /\ L[SvcNames[3]] = s[3]
      /\ L[SvcNames[4]] = s[4]
   /\ L[SvcNames[5]] = s[5] /\ L[SvcNames[6]] = s[6] /\ L[SvcNames[7]] = s[7]
      /\ L[SvcNames[8]] = s[8]
  BY <1>4
<1> QED BY <1>1, <1>5 DEF SvcNames

(* What an abort handler pops into which register.                         *)
LEMMA LoadedAbt == ASSUME NEW s, NEW L, L = E!Loaded(AbtNames, s)
 PROVE /\ E!ToSet(AbtNames) = {"spsr", "pad", "r0", "r1", "r2", "r3", "ip", "lr"}
       /\ L["spsr"] = s[1]
       /\ L["r0"] = s[3]
       /\ L["r1"] = s[4]
       /\ L["r2"] = s[5]
       /\ L["r3"] = s[6]
       /\ L["ip"] = s[7]
       /\ L["lr"] = s[8]
<1>1. E!ToSet(AbtNames) = {"spsr", "pad", "r0", "r1", "r2", "r3", "ip", "lr"}
  BY DEF E!ToSet, AbtNames
<1>2. DOMAIN AbtNames = 1 .. 8
  BY DEF AbtNames
<1>3. \A k \in 1 .. 8 : (CHOOSE j \in DOMAIN AbtNames : AbtNames[j] = AbtNames[k]) = k
  BY <1>2 DEF AbtNames
<1>4. ASSUME NEW k \in 1 .. 8 PROVE L[AbtNames[k]] = s[k]
  BY <1>1, <1>2, <1>3 DEF E!Loaded, E!ToSet
<1>5. L[AbtNames[1]] = s[1] /\ L[AbtNames[2]] = s[2] /\ L[AbtNames[3]] = s[3]
      /\ L[AbtNames[4]] = s[4]
   /\ L[AbtNames[5]] = s[5] /\ L[AbtNames[6]] = s[6] /\ L[AbtNames[7]] = s[7]
      /\ L[AbtNames[8]] = s[8]
  BY <1>4
<1> QED BY <1>1, <1>5 DEF AbtNames

(* A call in service: R is what the core holds, s the thread's stack.      *)
SvcFrame(f, R, s) ==
  /\ f.kind = "svc" /\ f.svc = <<>> /\ f.abt = <<>>
  /\ DOMAIN f.reg = E!Reg /\ f.reg["cpsr"] = E!USR /\ f.reg["pc"] \in Pc
  /\ R["cpsr"] \in {E!SVC, E!SVC + E!I}
  /\ R["lr_usr"] = f.reg["lr_usr"]
  /\ s = SvcStack(f.reg)

(* A thread that is in no abort: at most a call in service.                *)
Base(F, R, s) ==
  \/ F = <<>> /\ s = <<>> /\ R["cpsr"] \in {E!USR, E!SVC, E!SVC + E!I}
  \/ \E f : F = <<f>> /\ SvcFrame(f, R, s)

(* An abort in service, on the abort stack a.                              *)
AbortFrame(f, R, s, a) ==
  /\ f.kind \in {"und", "pabt", "dabt"} /\ f.svc = s /\ f.abt = <<>>
  /\ DOMAIN f.reg = E!Reg /\ f.reg["pc"] \in Pc
  /\ R["cpsr"] = E!ABT + E!I
  /\ \A r \in {"r4", "r5", "lr_usr", "lr_svc", "spsr_svc"} : R[r] = f.reg[r]
  /\ \E lr : /\ a = AbtStack(f.reg, lr)
             /\ IF f.kind = "und" THEN lr = E!Junk - 4 ELSE lr = f.reg["pc"]

(* A thread in an abort, which came upon a Base.                           *)
Aborted(F, R, s, a) ==
  \E f, B : F = <<f>> \o B /\ AbortFrame(f, R, s, a) /\ Base(B, f.reg, s)

(* Types, as far as they hold of undefined instructions too; nothing that  *)
(* was interrupted goes on wrongly but after one of those.                 *)
ExcTypes ==
  /\ cur \in Thread /\ DOMAIN reg = E!Reg
  /\ DOMAIN ctx = Thread /\ \A t \in Thread : DOMAIN ctx[t] = E!SavedReg
  /\ DOMAIN frames = Thread /\ DOMAIN svc = Thread
  /\ reg["lr_abt"] = E!Junk /\ reg["pc"] \in Pc /\ \A t \in Thread : ctx[t]["pc"] \in Pc
  /\ broken \subseteq {"und"} /\ halted \in BOOLEAN

(* The threads that do not run were interrupted outside of an abort, for   *)
(* an abort masks IRQ; so the abort stack is the running thread's.         *)
Others == \A t \in Thread \ {cur} : Base(frames[t], ctx[t], svc[t])

Current ==
  \/ Base(frames[cur], reg, svc[cur]) /\ abt = <<>>
  \/ Aborted(frames[cur], reg, svc[cur], abt)

ExcInv == ExcTypes /\ Others /\ Current

(* The modes differ, and masking IRQ does not change the mode.             *)
LEMMA Modes ==
  /\ E!USR % E!I = E!USR /\ E!SVC % E!I = E!SVC /\ (E!SVC + E!I) % E!I = E!SVC
     /\ (E!ABT + E!I) % E!I = E!ABT
  /\ E!USR # E!SVC /\ E!USR # E!ABT /\ E!SVC # E!ABT /\ E!USR < E!I /\ ~(E!ABT + E!I < E!I)
  BY DEF E!USR, E!SVC, E!ABT, E!I

(* Addresses are numbers.                                                  *)
LEMMA InCode == ASSUME NEW a \in Pc PROVE a \in Int
  BY CodeIsInt DEF Pc, E!Junk

(* What Base and Aborted say of the frames' number.                        *)
LEMMA BaseIs == ASSUME NEW F, NEW R, NEW s, Base(F, R, s)
  PROVE  \/ F = <<>> /\ Len(F) = 0 /\ R["cpsr"] \in {E!USR, E!SVC, E!SVC + E!I} /\ s = <<>>
         \/ /\ F # <<>> /\ Len(F) = 1 /\ F = <<Head(F)>> /\ Tail(F) = <<>>
               /\ SvcFrame(Head(F), R, s)
            /\ R["cpsr"] \in {E!SVC, E!SVC + E!I} /\ DOMAIN F = {1}
<1>1. CASE F = <<>>
  BY <1>1, HeadTail DEF Base
<1>2. ASSUME NEW f, F = <<f>>, SvcFrame(f, R, s)
      PROVE  /\ F # <<>> /\ Len(F) = 1 /\ F = <<Head(F)>> /\ Tail(F) = <<>>
                /\ SvcFrame(Head(F), R, s)
             /\ R["cpsr"] \in {E!SVC, E!SVC + E!I} /\ DOMAIN F = {1}
  <2>1. Head(F) = f /\ Tail(F) = <<>> /\ Len(F) = 1 /\ F # <<>>
    BY <1>2, HeadTail
  <2>2. DOMAIN F = {1}
    BY <1>2
  <2> QED BY <1>2, <2>1, <2>2 DEF SvcFrame
<1> QED BY <1>1, <1>2 DEF Base

(* There are at most two frames, the abort's is the upper one.             *)
LEMMA AbortedIs == ASSUME NEW F, NEW R, NEW s, NEW a, Aborted(F, R, s, a)
  PROVE  /\ F # <<>> /\ Len(F) <= 2 /\ AbortFrame(Head(F), R, s, a)
         /\ Base(Tail(F), Head(F).reg, s) /\ R["cpsr"] = E!ABT + E!I
         /\ Head(F).kind # "svc" /\ Head(F).kind \in {"und", "pabt", "dabt"}
<1>1. PICK f, B : F = <<f>> \o B /\ AbortFrame(f, R, s, a) /\ Base(B, f.reg, s)
  BY DEF Aborted
<1>2. CASE B = <<>>
  BY <1>1, <1>2, Cat1, HeadTail DEF AbortFrame
<1>3. CASE B # <<>>
  <2>1. PICK g : B = <<g>>
    BY <1>1, <1>3 DEF Base
  <2>2. F = <<f, g>>
    BY <1>1, <2>1, Cat1
  <2>3. Head(F) = f /\ Tail(F) = B /\ Len(F) = 2 /\ F # <<>>
    BY <2>1, <2>2, HeadTail
  <2>4. Len(F) <= 2
    BY <2>3
  <2> QED BY <1>1, <2>3, <2>4 DEF AbortFrame
<1> QED BY <1>2, <1>3

(* Before the first exception.                                             *)
LEMMA ExcInit == ASSUME E!Init PROVE ExcInv
<1>1. PICK c \in Thread : TRUE
  BY DEF E!Init
<1>2. ExcTypes
  <2>1. Code \subseteq Pc
    BY CodeIsInt DEF Pc
  <2>2. \A t \in Thread : DOMAIN ctx[t] = E!SavedReg /\ ctx[t]["pc"] \in Code
    BY DEF E!Init, E!SavedReg
  <2>3. "pc" \in E!SavedReg /\ "lr_abt" \notin E!SavedReg /\ "pc" \in E!Reg /\ "lr_abt" \in E!Reg
    BY DEF E!SavedReg, E!Reg, E!Gp, E!Banked, E!Args
  <2>4. DOMAIN reg = E!Reg /\ reg["lr_abt"] = E!Junk /\ reg["pc"] = ctx[cur]["pc"]
    BY <2>3 DEF E!Init
  <2>5. DOMAIN ctx = Thread /\ cur \in Thread /\ DOMAIN frames = Thread /\ DOMAIN svc = Thread
    BY DEF E!Init
  <2>6. broken = {} /\ halted \in BOOLEAN
    BY Zenon DEF E!Init
  <2> QED BY <2>1, <2>2, <2>4, <2>5, <2>6 DEF ExcTypes
<1>3. Others /\ Current
  BY DEF E!Init, Others, Current, Base, E!SavedReg, E!Reg, E!Gp, E!Banked, E!Args
<1> QED BY <1>2, <1>3 DEF ExcInv

(* A call in service is told from the mode and the user's lr alone.        *)
LEMMA BaseSame ==
  ASSUME NEW F, NEW R, NEW Q, NEW s, Base(F, R, s), Q["cpsr"] = R["cpsr"],
         Q["lr_usr"] = R["lr_usr"]
  PROVE  Base(F, Q, s)
  BY DEF Base, SvcFrame

(* The registers a handler may compute with.                               *)
LEMMA OrderSet ==
  E!ToSet(E!Order) = {"r0", "r1", "r2", "r3", "r4", "r5", "ip", "lr_usr", "lr_svc"}
  BY DEF E!Order, E!ToSet

(* Between calls: no frame, or below the masked modes.                      *)
LEMMA NotAborted ==
  ASSUME ExcInv, frames[cur] = <<>> \/ reg["cpsr"] < E!I
         \/ reg["cpsr"] \in {E!USR, E!SVC, E!SVC + E!I}
  PROVE  Base(frames[cur], reg, svc[cur]) /\ abt = <<>>
<1>1. ASSUME Aborted(frames[cur], reg, svc[cur], abt) PROVE FALSE
  <2>1. frames[cur] # <<>> /\ reg["cpsr"] = E!ABT + E!I
    BY <1>1, AbortedIs
  <2> QED BY <2>1 DEF E!USR, E!SVC, E!ABT, E!I
<1> QED BY <1>1 DEF ExcInv, Current

(* The program computes; in user mode it cannot reach the banked           *)
(* registers.                                                              *)
LEMMA WorkStep == ASSUME ExcInv, E!Work PROVE ExcInv'
<1>1. Base(frames[cur], reg, svc[cur]) /\ abt = <<>>
  BY NotAborted DEF E!Work
<1>2. PICK tag \in Tag, a \in Code :
       LET c == E!Computed(tag) IN
       reg' = [r \in E!Reg |-> IF r = "pc" THEN a
                             ELSE IF r = "lr_svc" /\ E!Mode = E!USR THEN reg[r]
                             ELSE IF r \in DOMAIN c THEN c[r] ELSE reg[r]]
  BY DEF E!Work
<1>3. DOMAIN E!Computed(tag) = {"r0", "r1", "r2", "r3", "r4", "r5", "ip", "lr_usr", "lr_svc"}
  BY OrderSet DEF E!Computed
<1>4. DOMAIN reg' = E!Reg /\ reg'["pc"] = a /\ reg'["lr_abt"] = reg["lr_abt"]
      /\ reg'["cpsr"] = reg["cpsr"]
  BY <1>2, <1>3 DEF E!Reg, E!Gp, E!Args, E!Banked
<1>5. ExcTypes' /\ Others'
  <2>1. a \in Pc
    BY CodeIsInt DEF Pc
  <2> QED BY <1>4, <2>1 DEF ExcInv, ExcTypes, Others, E!Work
<1>6. frames[cur] = <<>> /\ svc[cur] = <<>> /\ reg["cpsr"] \in {E!USR, E!SVC, E!SVC + E!I}
  BY <1>1, BaseIs DEF E!Work
<1>7. Base(frames[cur], reg, svc[cur])'
  BY <1>4, <1>6 DEF Base, E!Work
<1> QED BY <1>1, <1>5, <1>7 DEF ExcInv, Current, E!Work

(* An IRQ gives the core to another thread: what is banked goes with it.   *)
LEMMA IrqStep == ASSUME ExcInv, E!Irq PROVE ExcInv'
<1>1. Base(frames[cur], reg, svc[cur]) /\ abt = <<>>
  BY NotAborted DEF E!Irq
<1> DEFINE now == [ctx EXCEPT ![cur] = [r \in E!SavedReg |-> reg[r]]]
<1>2. PICK t \in Thread : /\ ctx' = now /\ cur' = t
                         /\ reg' = [r \in E!Reg |->
                                      IF r \in E!SavedReg THEN now[t][r] ELSE reg[r]]
  BY DEF E!Irq
<1>3. /\ {"cpsr", "lr_usr", "pc"} \subseteq E!SavedReg /\ E!SavedReg \subseteq E!Reg
      /\ "lr_abt" \notin E!SavedReg /\ "lr_abt" \in E!Reg
  BY DEF E!SavedReg, E!Reg, E!Gp, E!Banked, E!Args
<1>4. \A u \in Thread : Base(frames[u], now[u], svc[u])
  <2>1. \A u \in Thread \ {cur} : now[u] = ctx[u]
    BY DEF ExcInv, ExcTypes
  <2>2. now[cur]["cpsr"] = reg["cpsr"] /\ now[cur]["lr_usr"] = reg["lr_usr"]
    BY <1>3 DEF ExcInv, ExcTypes
  <2> HIDE DEF now
  <2>3. Base(frames[cur], now[cur], svc[cur])
    BY <1>1, <2>2, BaseSame
  <2> QED BY <2>1, <2>3 DEF ExcInv, Others
<1>5. DOMAIN now = Thread /\ \A u \in Thread : DOMAIN now[u] = E!SavedReg /\ now[u]["pc"] \in Pc
  BY <1>3 DEF ExcInv, ExcTypes
<1> HIDE DEF now
<1>6. /\ DOMAIN reg' = E!Reg /\ reg'["lr_abt"] = reg["lr_abt"] /\ reg'["pc"] = now[t]["pc"]
      /\ reg'["cpsr"] = now[t]["cpsr"] /\ reg'["lr_usr"] = now[t]["lr_usr"]
  BY <1>2, <1>3
<1>7. UNCHANGED <<svc, abt, frames, broken, halted>>
  BY DEF E!Irq
<1>8. ExcTypes'
  BY <1>2, <1>5, <1>6, <1>7 DEF ExcInv, ExcTypes
<1>9. Others'
  BY <1>2, <1>4, <1>7 DEF Others
<1>10. Base(frames[cur], reg, svc[cur])'
  <2>1. Base(frames[t], reg', svc[t])
    BY <1>4, <1>6, BaseSame
  <2> QED BY <1>2, <1>7, <2>1
<1> QED BY <1>1, <1>7, <1>8, <1>9, <1>10 DEF ExcInv, Current

(* SVC from user mode: a frame, and eight words on the thread's stack.     *)
LEMMA SvcStep == ASSUME ExcInv, E!Svc PROVE ExcInv'
<1> USE DEF ExcInv
<1>1. Base(frames[cur], reg, svc[cur]) /\ abt = <<>>
  BY NotAborted DEF E!Svc
<1>2. frames[cur] = <<>> /\ svc[cur] = <<>> /\ E!Mode = E!USR /\ reg["pc"] \in Code
  BY <1>1, BaseIs DEF E!Svc
<1>3. reg["cpsr"] = E!USR
  BY <1>1, <1>2, BaseIs, Modes DEF E!Mode
<1> DEFINE lr == reg["pc"] + 4
           f == [kind |-> "svc", reg |-> [reg EXCEPT !["pc"] = lr], svc |-> svc[cur], abt |-> abt]
<1>4. lr \in Pc /\ lr \in Int
  <2>1. lr \in Int
    BY <1>2, CodeIsInt
  <2>2. lr \in {a + 4 : a \in Code}
    BY <1>2
  <2> QED BY <2>1, <2>2 DEF Pc
<1>5. f.kind = "svc" /\ f.svc = <<>> /\ f.abt = <<>> /\ DOMAIN f.reg = E!Reg /\ f.reg["pc"] = lr
      /\ \A r \in E!Reg \ {"pc"} : f.reg[r] = reg[r]
  BY <1>1, <1>2 DEF ExcTypes, E!Reg
<1>6. /\ DOMAIN reg' = E!Reg /\ reg'["pc"] = reg["pc"] /\ reg'["lr_abt"] = reg["lr_abt"]
      /\ reg'["cpsr"] = E!SVC + E!I /\ reg'["lr_usr"] = reg["lr_usr"]
  BY DEF E!Svc, E!With, E!Reg, E!Gp, E!Args, E!Banked, E!Masked
<1>7. svc' = [svc EXCEPT ![cur] = SvcStack(f.reg)]
  <2>1. svc' = [svc EXCEPT ![cur] = <<reg["cpsr"]>>
                                   \o E!Held(<<"r0", "r1", "r2", "r3", "r4", "r5">>)
                                     \o <<lr>> \o svc[cur]]
    BY DEF E!Svc
  <2>2. <<reg["cpsr"]>> \o E!Held(<<"r0", "r1", "r2", "r3", "r4", "r5">>) \o <<lr>> \o svc[cur]
          = SvcStack(f.reg)
    <3>1. SvcStack(f.reg) = <<reg["cpsr"], reg["r0"], reg["r1"], reg["r2"], reg["r3"], reg["r4"],
                              reg["r5"], lr>>
      BY <1>5 DEF SvcStack, E!Reg, E!Gp, E!Args, E!Banked
    <3> HIDE DEF lr, f
    <3>2. <<reg["cpsr"]>> \o <<reg["r0"], reg["r1"], reg["r2"], reg["r3"], reg["r4"], reg["r5"]>>
            \o <<lr>> \o <<>>
          = <<reg["cpsr"], reg["r0"], reg["r1"], reg["r2"], reg["r3"], reg["r4"], reg["r5"], lr>>
      BY Cat8
    <3> QED BY <1>2, <3>1, <3>2, HeldSvc
  <2> QED BY <2>1, <2>2
<1>8. frames' = [frames EXCEPT ![cur] = <<f>>]
  BY <1>2, Cat1 DEF E!Svc, E!Interrupted
<1>9. UNCHANGED <<cur, abt, ctx, broken, halted>>
  BY DEF E!Svc
<1>10. SvcFrame(f, reg', SvcStack(f.reg))
  BY <1>3, <1>4, <1>5, <1>6 DEF SvcFrame, E!Reg, E!Gp, E!Args, E!Banked
<1> HIDE DEF f, lr
<1>11. ExcTypes'
  BY <1>6, <1>7, <1>8, <1>9 DEF ExcTypes
<1>12. Others'
  BY <1>7, <1>8, <1>9 DEF Others, ExcTypes
<1>13. Base(frames[cur], reg, svc[cur])'
  <2>1. frames'[cur'] = <<f>> /\ svc'[cur'] = SvcStack(f.reg)
    BY <1>7, <1>8, <1>9 DEF ExcTypes
  <2> QED BY <1>10, <2>1 DEF Base
<1> QED BY <1>1, <1>9, <1>11, <1>12, <1>13 DEF Current

(* An abort from user or SVC mode: a frame, and eight words on the abort   *)
(* stack; r4, r5 and SVC mode's registers are left alone.                  *)
LEMMA AbortStep ==
  ASSUME ExcInv, NEW kind \in {"und", "pabt", "dabt"}, NEW lr, E!Abortable, E!CallAbort(kind, lr),
         IF kind = "und" THEN lr = E!Junk - 4 ELSE lr = reg["pc"],
         DOMAIN reg' = E!Reg, reg'["pc"] = reg["pc"], reg'["lr_abt"] = E!Junk,
         reg'["cpsr"] = E!ABT + E!I,
         \A r \in {"r4", "r5", "lr_usr", "lr_svc", "spsr_svc"} : reg'[r] = reg[r]
  PROVE  ExcInv'
<1> USE DEF ExcInv
<1>1. Base(frames[cur], reg, svc[cur]) /\ abt = <<>>
  <2>1. reg["cpsr"] # E!ABT + E!I
    BY Modes DEF E!Abortable, E!Mode
  <2> QED BY <2>1, AbortedIs DEF Current
<1> DEFINE f == [kind |-> kind, reg |-> [reg EXCEPT !["pc"] = reg["pc"]], svc |-> svc[cur],
                abt |-> abt]
<1>2. /\ f.kind = kind /\ f.svc = svc[cur] /\ f.abt = <<>> /\ DOMAIN f.reg = E!Reg
      /\ f.reg["pc"] \in Pc /\ \A r \in E!Reg : f.reg[r] = reg[r]
  BY <1>1 DEF ExcTypes
<1>3. abt' = AbtStack(f.reg, lr)
  <2>1. abt' = <<reg["cpsr"], reg["r1"]>>
                \o E!Held(<<"r0", "r1", "r2", "r3", "ip">>) \o <<lr>> \o abt
    BY DEF E!CallAbort
  <2>2. AbtStack(f.reg, lr) = <<reg["cpsr"], reg["r1"], reg["r0"], reg["r1"], reg["r2"],
        reg["r3"],
                                reg["ip"], lr>>
    BY <1>2 DEF AbtStack, E!Reg, E!Gp, E!Args, E!Banked
  <2>3. <<reg["cpsr"], reg["r1"]>> \o <<reg["r0"], reg["r1"], reg["r2"], reg["r3"], reg["ip"]>>
          \o <<lr>> \o <<>>
        = <<reg["cpsr"], reg["r1"], reg["r0"], reg["r1"], reg["r2"], reg["r3"], reg["ip"], lr>>
    BY Cat8b
  <2> HIDE DEF f
  <2> QED BY <1>1, <2>1, <2>2, <2>3, HeldAbt
<1>4. frames' = [frames EXCEPT ![cur] = <<f>> \o @]
  BY DEF E!CallAbort, E!Interrupted
<1>5. UNCHANGED <<cur, svc, ctx, broken, halted>>
  BY DEF E!CallAbort
<1>6. AbortFrame(f, reg', svc[cur], abt')
  BY <1>2, <1>3 DEF AbortFrame, E!Reg, E!Gp, E!Args, E!Banked, ExcTypes
<1>7. Base(frames[cur], f.reg, svc[cur])
  <2>1. f.reg["cpsr"] = reg["cpsr"] /\ f.reg["lr_usr"] = reg["lr_usr"]
    BY <1>2 DEF E!Reg, E!Gp, E!Args, E!Banked
  <2> QED BY <1>1, <2>1, BaseSame
<1> HIDE DEF f
<1>8. ExcTypes'
  BY <1>4, <1>5 DEF ExcTypes
<1>9. Others'
  BY <1>4, <1>5 DEF Others, ExcTypes
<1>10. Aborted(frames[cur], reg, svc[cur], abt)'
  <2>1. frames'[cur'] = <<f>> \o frames[cur] /\ svc'[cur'] = svc[cur]
    BY <1>4, <1>5 DEF ExcTypes
  <2> QED BY <1>6, <1>7, <2>1 DEF Aborted
<1> QED BY <1>8, <1>9, <1>10 DEF Current

(* The three kinds of aborts.                                              *)
LEMMA AbortsStep == ASSUME ExcInv, E!Undef \/ E!Dabort \/ E!Pabort PROVE ExcInv'
<1> USE DEF E!With, E!Reg, E!Gp, E!Args, E!Banked, E!Masked
<1>0. reg["pc"] \in Int /\ reg["lr_abt"] = E!Junk
  BY InCode DEF ExcInv, ExcTypes
<1>1. CASE E!Undef
  BY <1>0, <1>1, AbortStep DEF E!Undef
<1>2. CASE E!Dabort
  <2>1. (reg["pc"] + 8) - 8 = reg["pc"]
    BY <1>0
  <2> QED BY <1>2, <2>1, AbortStep DEF E!Dabort
<1>3. CASE E!Pabort
  <2>1. (reg["pc"] + 4) - 4 = reg["pc"]
    BY <1>0
  <2> QED BY <1>3, <2>1, AbortStep DEF E!Pabort
<1> QED BY <1>1, <1>2, <1>3

(* A handler computes, and leaves what it is not to touch.                 *)
LEMMA HandlerStep == ASSUME ExcInv, E!Handler PROVE ExcInv'
<1> USE DEF ExcInv
<1>0. UNCHANGED <<cur, svc, abt, ctx, frames, broken, halted>> /\ frames[cur] # <<>>
  BY DEF E!Handler
<1>1. PICK masks \in IF E!Mode = E!SVC THEN {0, E!I} ELSE {E!I} :
       reg' = [r \in E!Reg |->
                 IF r = "cpsr" THEN E!Mode + masks
                 ELSE IF r \in E!Args \cup {"ip", "pc",
                                           IF E!Mode = E!SVC THEN "lr_svc" ELSE "lr_abt"}
                 THEN E!Junk ELSE reg[r]]
  BY DEF E!Handler
<1>2. /\ DOMAIN reg' = E!Reg /\ reg'["pc"] = E!Junk /\ reg'["lr_abt"] = E!Junk
      /\ reg'["cpsr"] = E!Mode + masks /\ reg'["lr_usr"] = reg["lr_usr"]
      /\ \A r \in {"r4", "r5", "spsr_svc"} : reg'[r] = reg[r]
      /\ E!Mode # E!SVC => reg'["lr_svc"] = reg["lr_svc"]
  BY <1>1 DEF ExcTypes, E!Reg, E!Gp, E!Args, E!Banked
<1>3. ExcTypes' /\ Others'
  <2>1. E!Junk \in Pc
    BY DEF Pc, E!Junk
  <2> QED BY <1>0, <1>2, <2>1 DEF ExcTypes, Others
<1>4. CASE Base(frames[cur], reg, svc[cur]) /\ abt = <<>>
  <2>1. PICK f : frames[cur] = <<f>> /\ SvcFrame(f, reg, svc[cur])
    BY <1>0, <1>4 DEF Base
  <2>2. E!Mode = E!SVC
    BY <2>1, Modes DEF SvcFrame, E!Mode
  <2>3. reg'["cpsr"] \in {E!SVC, E!SVC + E!I}
    BY <1>1, <1>2, <2>2 DEF E!SVC, E!I
  <2>4. SvcFrame(f, reg', svc[cur])
    BY <1>2, <2>1, <2>3 DEF SvcFrame
  <2> QED BY <1>0, <1>3, <1>4, <2>1, <2>4 DEF Current, Base
<1>5. CASE Aborted(frames[cur], reg, svc[cur], abt)
  <2>1. PICK f, B : /\ frames[cur] = <<f>> \o B /\ AbortFrame(f, reg, svc[cur], abt)
                    /\ Base(B, f.reg, svc[cur])
    BY <1>5 DEF Aborted
  <2>2. E!Mode = E!ABT /\ E!Mode # E!SVC
    BY <2>1, Modes DEF AbortFrame, E!Mode
  <2>3. reg'["cpsr"] = E!ABT + E!I
    BY <1>1, <1>2, <2>2
  <2>4. AbortFrame(f, reg', svc[cur], abt)
    BY <1>2, <2>1, <2>2, <2>3 DEF AbortFrame
  <2> QED BY <1>0, <1>3, <2>1, <2>4 DEF Current, Aborted
<1> QED BY <1>4, <1>5 DEF Current

(* The return of a call: popped where it was pushed, so that the program   *)
(* goes on behind the svc with everything but r0 to r3.                    *)
LEMMA SvcReturnStep == ASSUME ExcInv, E!SvcReturn PROVE ExcInv'
<1> USE DEF ExcInv
<1>0. frames[cur] # <<>> /\ E!Top.kind = "svc"
  BY DEF E!SvcReturn
<1>1. Base(frames[cur], reg, svc[cur]) /\ abt = <<>>
  BY <1>0, AbortedIs DEF Current, E!Top
<1> DEFINE f == E!Top
<1>2. SvcFrame(f, reg, svc[cur]) /\ Tail(frames[cur]) = <<>>
  BY <1>0, <1>1, BaseIs DEF E!Top
<1> DEFINE L == E!Loaded(SvcNames, svc[cur])
<1>3. /\ L["spsr"] = f.reg["cpsr"] /\ L["lr"] = f.reg["pc"]
      /\ \A r \in {"r0", "r1", "r2", "r3", "r4", "r5"} : L[r] = f.reg[r]
  BY <1>2, LoadedSvc DEF SvcFrame, SvcStack
<1>4. reg' = [r \in E!Reg |-> IF r = "pc" THEN L["lr"]
                            ELSE IF r \in {"cpsr", "spsr_svc"} THEN L["spsr"]
                            ELSE IF r \in E!ToSet(SvcNames) THEN L[r] ELSE reg[r]]
  BY DEF E!SvcReturn, E!PopTo, SvcNames
<1>5. /\ DOMAIN reg' = E!Reg /\ reg'["pc"] = f.reg["pc"] /\ reg'["cpsr"] = f.reg["cpsr"]
      /\ \A r \in {"r0", "r1", "r2", "r3", "r4", "r5"} : reg'[r] = f.reg[r]
      /\ reg'["lr_usr"] = reg["lr_usr"] /\ reg'["lr_abt"] = reg["lr_abt"]
  BY <1>3, <1>4, LoadedSvc DEF E!Reg, E!Gp, E!Args, E!Banked
<1>6. svc' = [svc EXCEPT ![cur] = <<>>]
  <2>1. svc[cur] = SvcStack(f.reg)
    BY <1>2 DEF SvcFrame
  <2> HIDE DEF f
  <2>2. E!Drop(svc[cur], 8) = <<>>
    BY <2>1, Drop8 DEF SvcStack
  <2> QED BY <2>2 DEF E!SvcReturn
<1>7. frames' = [frames EXCEPT ![cur] = <<>>] /\ UNCHANGED <<cur, abt, ctx, halted>>
  BY <1>2 DEF E!SvcReturn, E!Back
<1>8. broken' = broken
  <2>1. f.kind = "svc" /\ f.reg["cpsr"] = E!USR /\ f.svc = <<>> /\ f.abt = <<>>
    BY <1>2 DEF SvcFrame
  <2>2. \A r \in E!Kept(f.kind, f.reg["cpsr"] % E!I) : reg'[r] = f.reg[r]
    <3>1. E!Kept(f.kind, f.reg["cpsr"] % E!I) \subseteq
            {"r0", "r1", "r2", "r3", "r4", "r5", "pc", "cpsr", "lr_usr"}
      BY <2>1, Modes DEF E!Kept, E!Gp, E!Args
    <3>2. reg["lr_usr"] = f.reg["lr_usr"]
      BY <1>2 DEF SvcFrame
    <3> QED BY <1>5, <3>1, <3>2
  <2>3. svc'[cur] = f.svc /\ abt' = f.abt
    BY <1>1, <1>6, <1>7, <2>1 DEF ExcTypes
  <2> QED BY <2>2, <2>3 DEF E!SvcReturn, E!Back
<1>9. f.reg["cpsr"] = E!USR /\ f.reg["pc"] \in Pc
  BY <1>2 DEF SvcFrame
<1> HIDE DEF f, L
<1>10. ExcTypes' /\ Others'
  BY <1>5, <1>6, <1>7, <1>8, <1>9 DEF ExcTypes, Others
<1>11. Base(frames[cur], reg, svc[cur])'
  <2>1. frames'[cur'] = <<>> /\ svc'[cur'] = <<>> /\ reg'["cpsr"] = E!USR
    BY <1>5, <1>6, <1>7, <1>9 DEF ExcTypes
  <2> QED BY <2>1 DEF Base
<1> QED BY <1>1, <1>7, <1>10, <1>11 DEF Current

(* The return of an abort: the aborted instruction again, with all of its  *)
(* registers; an undefined instruction's address is off by the 4 the code  *)
(* takes away.                                                             *)
LEMMA AbortReturnStep == ASSUME ExcInv, E!AbortReturn PROVE ExcInv'
<1> USE DEF ExcInv
<1>0. frames[cur] # <<>> /\ E!Top.kind \in Returning \ {"svc"}
  BY DEF E!AbortReturn
<1>1. Aborted(frames[cur], reg, svc[cur], abt)
  <2>1. ASSUME Base(frames[cur], reg, svc[cur]) PROVE FALSE
    BY <1>0, <2>1, BaseIs DEF E!Top, SvcFrame
  <2> QED BY <2>1 DEF Current
<1> DEFINE f == E!Top
           B == Tail(frames[cur])
<1>2. AbortFrame(f, reg, svc[cur], abt) /\ Base(B, f.reg, svc[cur])
  BY <1>1, AbortedIs DEF E!Top
<1>3. PICK lr : abt = AbtStack(f.reg, lr) /\ IF f.kind = "und" THEN lr = E!Junk - 4
      ELSE lr = f.reg["pc"]
  BY <1>2 DEF AbortFrame
<1> DEFINE L == E!Loaded(AbtNames, abt)
<1>4. /\ L["spsr"] = f.reg["cpsr"] /\ L["lr"] = lr
      /\ \A r \in {"r0", "r1", "r2", "r3", "ip"} : L[r] = f.reg[r]
  BY <1>3, LoadedAbt DEF AbtStack
<1>5. reg' = [r \in E!Reg |-> IF r = "pc" THEN L["lr"]
                            ELSE IF r \in {"cpsr", "spsr_abt"} THEN L["spsr"]
                            ELSE IF r \in E!ToSet(AbtNames) THEN L[r] ELSE reg[r]]
  BY DEF E!AbortReturn, E!PopTo, AbtNames
<1>6. /\ DOMAIN reg' = E!Reg /\ reg'["pc"] = lr /\ reg'["cpsr"] = f.reg["cpsr"]
      /\ \A r \in {"r0", "r1", "r2", "r3", "ip"} : reg'[r] = f.reg[r]
      /\ \A r \in {"r4", "r5", "lr_usr", "lr_svc", "spsr_svc", "lr_abt"} : reg'[r] = reg[r]
  BY <1>4, <1>5, LoadedAbt DEF E!Reg, E!Gp, E!Args, E!Banked
<1>7. abt' = <<>>
  <2> HIDE DEF f
  <2>1. E!Drop(abt, 8) = <<>>
    BY <1>3, Drop8 DEF AbtStack
  <2> QED BY <2>1 DEF E!AbortReturn
<1>8. frames' = [frames EXCEPT ![cur] = B] /\ UNCHANGED <<cur, svc, ctx, halted>>
  BY DEF E!AbortReturn, E!Back
<1>9. broken' \subseteq {"und"}
  <2>1. CASE f.kind = "und"
    BY <2>1 DEF E!AbortReturn, E!Back, ExcTypes
  <2>2. CASE f.kind # "und"
    <3>1. f.svc = svc[cur] /\ f.abt = <<>> /\ lr = f.reg["pc"] /\ f.kind # "svc"
      BY <1>2, <1>3, <2>2 DEF AbortFrame
    <3>2. \A r \in {"r4", "r5", "lr_usr", "lr_svc", "spsr_svc"} : reg'[r] = f.reg[r]
      BY <1>2, <1>6 DEF AbortFrame
    <3>3. E!Kept(f.kind, f.reg["cpsr"] % E!I) \subseteq
            {"r0", "r1", "r2", "r3", "r4", "r5", "ip", "pc", "cpsr", "lr_usr", "lr_svc",
            "spsr_svc"}
      BY <3>1 DEF E!Kept, E!Gp, E!Args
    <3>4. \A r \in E!Kept(f.kind, f.reg["cpsr"] % E!I) : reg'[r] = f.reg[r]
      BY <1>6, <3>1, <3>2, <3>3
    <3>5. svc'[cur] = f.svc /\ abt' = f.abt
      BY <1>7, <1>8, <3>1
    <3>6. broken' = broken
      BY <3>4, <3>5 DEF E!AbortReturn, E!Back
    <3> QED BY <3>6 DEF ExcTypes
  <2> QED BY <2>1, <2>2
<1>10. lr \in Pc
  <2>1. CASE f.kind = "und"
    BY <1>0, <1>3, <2>1 DEF Pc, E!Junk
  <2>2. CASE f.kind # "und"
    BY <1>2, <1>3, <2>2 DEF AbortFrame
  <2> QED BY <2>1, <2>2
<1>11. reg["lr_usr"] = f.reg["lr_usr"]
  BY <1>2 DEF AbortFrame
<1> HIDE DEF f, L, B
<1>12. ExcTypes' /\ Others'
  BY <1>6, <1>8, <1>9, <1>10 DEF ExcTypes, Others
<1>13. Base(frames[cur], reg, svc[cur])'
  <2>1. frames'[cur'] = B /\ svc'[cur'] = svc[cur]
    BY <1>8 DEF ExcTypes
  <2>2. Base(B, reg', svc[cur])
    BY <1>2, <1>6, <1>11, BaseSame
  <2> QED BY <2>1, <2>2
<1> QED BY <1>7, <1>12, <1>13 DEF Current

(* Every step keeps the invariant.                                         *)
LEMMA ExcStep == ASSUME ExcInv, [E!Next]_(E!vars) PROVE ExcInv'
<1>1. CASE E!Panic \/ E!Stopped \/ UNCHANGED E!vars
  <2>1. UNCHANGED <<cur, reg, svc, abt, ctx, frames, broken>> /\ halted' \in BOOLEAN
    BY <1>1, Zenon DEF E!Panic, E!Stopped, E!vars, ExcInv, ExcTypes
  <2> QED BY <2>1 DEF ExcInv, ExcTypes, Others, Current
<1> QED BY <1>1, WorkStep, IrqStep, SvcStep, AbortsStep, HandlerStep, SvcReturnStep,
           AbortReturnStep DEF E!Next

(* It says that returns are intact and the abort stack is the running      *)
(* thread's, and the types unless an undefined instruction returns.        *)
LEMMA ExcMeans ==
  ASSUME ExcInv
  PROVE  E!ReturnsIntact /\ E!AbtStackPrivate /\ ("und" \notin Returning => E!TypeOK)
<1> USE DEF ExcInv
<1>1. E!ReturnsIntact
  BY DEF ExcTypes, E!ReturnsIntact
<1>2. E!AbtStackPrivate
  <2>1. ASSUME NEW t \in Thread \ {cur}, NEW k \in DOMAIN frames[t]
               PROVE frames[t][k].kind = "svc"
    <3>1. Base(frames[t], ctx[t], svc[t])
      BY DEF Others
    <3>2. frames[t] # <<>>
      OBVIOUS
    <3> QED BY <3>1, <3>2, BaseIs DEF SvcFrame
  <2> QED BY <2>1 DEF E!AbtStackPrivate
<1>3. ASSUME "und" \notin Returning PROVE E!TypeOK
  <2>1. E!Mode \in {E!USR, E!SVC, E!ABT} /\ Len(frames[cur]) <= 2
        /\ (E!Mode = E!USR => frames[cur] = <<>>)
    <3>1. CASE Base(frames[cur], reg, svc[cur])
      <4>1. CASE frames[cur] = <<>> /\ Len(frames[cur]) = 0
                 /\ reg["cpsr"] \in {E!USR, E!SVC, E!SVC + E!I}
        BY <4>1, Modes DEF E!Mode
      <4>2. CASE Len(frames[cur]) = 1 /\ reg["cpsr"] \in {E!SVC, E!SVC + E!I}
        <5>1. E!Mode = E!SVC
          BY <4>2, Modes DEF E!Mode
        <5> QED BY <4>2, <5>1, Modes
      <4> QED BY <3>1, <4>1, <4>2, BaseIs
    <3>2. CASE Aborted(frames[cur], reg, svc[cur], abt)
      <4>1. Len(frames[cur]) <= 2 /\ reg["cpsr"] = E!ABT + E!I
        BY <3>2, AbortedIs
      <4>2. E!Mode = E!ABT
        BY <4>1, Modes DEF E!Mode
      <4> QED BY <4>1, <4>2 DEF E!USR, E!SVC, E!ABT
    <3> QED BY <3>1, <3>2 DEF Current
  <2>2. \A t \in Thread : Len(frames[t]) <= 2
    <3> SUFFICES ASSUME NEW t \in Thread, t # cur PROVE Len(frames[t]) <= 2
      BY <2>1
    <3>1. Base(frames[t], ctx[t], svc[t])
      BY DEF Others
    <3>2. CASE Len(frames[t]) = 0
      BY <3>2
    <3>3. CASE Len(frames[t]) = 1
      BY <3>3
    <3> QED BY <3>1, <3>2, <3>3, BaseIs
  <2>3. halted \in BOOLEAN /\ reg["pc"] \in Code \cup {a + 4 : a \in Code} \cup {E!Junk}
    BY <1>3 DEF ExcTypes, Pc
  <2> QED BY <2>1, <2>2, <2>3 DEF E!TypeOK, ExcTypes
<1> QED BY <1>1, <1>2, <1>3

(***************************************************************************)
(* Formatted output: first the functions defined by recursion, then        *)
(* ksprintn() and the reading of arguments, then kvprintf().  The          *)
(* argument: in a directive whose flags are known, kvprintf()'s variables  *)
(* are what printf(3) reads from it (Known), so both print the same.       *)
(***************************************************************************)
(* A set of numbers has a least member.                                    *)
LEMMA Least == ASSUME NEW S \in SUBSET Nat, S # {} PROVE \E t \in S : \A u \in S : ~(u < t)
<1> DEFINE R == OpToRel(<, Nat)
<1>1. \A t, u \in Nat : <<u, t>> \in R <=> u < t
  BY DEF OpToRel
<1>2. IsWellFoundedOn(R, Nat)
  BY NatLessThanWellFounded
<1> HIDE DEF R
<1>3. PICK t \in S : \A u \in S : <<u, t>> \notin R
  BY <1>2, WFMin
<1> QED BY <1>1, <1>3, Zenon

(* Recursion f[n] = 1 for n in Z, and else h[f[p[n]]], where p[n] < n: the *)
(* tables that obey it up to m.                                            *)
Upto(Z, p, h, m) ==
  {g \in [0 .. m -> Nat] : \A n \in 0 .. m : g[n] = IF n \in Z THEN 1 ELSE h[g[p[n]]]}

(* It can be tabulated one number further,                                 *)
LEMMA UptoStep ==
  ASSUME NEW Z, NEW p \in [Nat -> Nat], NEW h \in [Nat -> Nat], \A n \in Nat \ Z : p[n] < n,
         NEW k \in Nat, k = 0 \/ Upto(Z, p, h, k - 1) # {}
  PROVE  Upto(Z, p, h, k) # {}
<1>1. PICK g : k # 0 => g \in Upto(Z, p, h, k - 1)
  OBVIOUS
<1> DEFINE new == IF k \in Z THEN 1 ELSE h[g[p[k]]]
           e == [n \in 0 .. k |-> IF n = k THEN new ELSE g[n]]
<1>2. new \in Nat
  <2>1. CASE k \notin Z
    <3>1. k # 0 /\ p[k] \in 0 .. k - 1
      BY <2>1
    <3>2. g[p[k]] \in Nat
      BY <1>1, <3>1 DEF Upto
    <3> QED BY <2>1, <3>2
  <2> QED BY <2>1
<1>3. e[k] = new
  OBVIOUS
<1>4. k \notin Z => e[p[k]] = g[p[k]]
  <2>1. k \notin Z => p[k] \in 0 .. k /\ p[k] # k
    OBVIOUS
  <2> HIDE DEF new
  <2> QED BY <2>1
<1>5. e[k] = IF k \in Z THEN 1 ELSE h[e[p[k]]]
  <2> HIDE DEF e
  <2> QED BY <1>3, <1>4
<1>6. ASSUME NEW n \in 0 .. k, n # k PROVE e[n] \in Nat
             /\ e[n] = IF n \in Z THEN 1 ELSE h[e[p[n]]]
  <2>0. n \in 0 .. k - 1 /\ k # 0 /\ n \in Nat
    BY <1>6
  <2> HIDE DEF new
  <2>1. e[n] = g[n]
    BY <2>0
  <2>2. g[n] \in Nat /\ g[n] = IF n \in Z THEN 1 ELSE h[g[p[n]]]
    BY <1>1, <2>0 DEF Upto
  <2>3. n \notin Z => p[n] \in 0 .. k /\ p[n] # k
    BY <2>0
  <2>4. n \notin Z => e[p[n]] = g[p[n]]
    BY <2>3
  <2> HIDE DEF e
  <2> QED BY <2>1, <2>2, <2>4
<1>7. e \in [0 .. k -> Nat]
  <2>1. \A n \in 0 .. k : e[n] \in Nat
    BY <1>2, <1>3, <1>6
  <2> HIDE DEF new
  <2>2. e = [n \in 0 .. k |-> e[n]]
    OBVIOUS
  <2> HIDE DEF e
  <2> QED BY <2>1, <2>2
<1> HIDE DEF e
<1>8. \A n \in 0 .. k : e[n] = IF n \in Z THEN 1 ELSE h[e[p[n]]]
  BY <1>5, <1>6
<1>9. e \in Upto(Z, p, h, k)
  BY <1>7, <1>8 DEF Upto
<1> QED BY <1>9

(* so as far as one likes;                                                 *)
LEMMA UptoExists ==
  ASSUME NEW Z, NEW p \in [Nat -> Nat], NEW h \in [Nat -> Nat], \A n \in Nat \ Z : p[n] < n,
         NEW m \in Nat
  PROVE  Upto(Z, p, h, m) # {}
<1> DEFINE Bad == {k \in Nat : Upto(Z, p, h, k) = {}}
<1>1. SUFFICES ASSUME Bad # {} PROVE FALSE
  OBVIOUS
<1>2. PICK k \in Bad : \A u \in Bad : ~(u < k)
  <2>1. Bad \in SUBSET Nat
    OBVIOUS
  <2> HIDE DEF Bad
  <2> QED BY <1>1, <2>1, Least
<1>3. k \in Nat /\ Upto(Z, p, h, k) = {}
  OBVIOUS
<1>4. k = 0 \/ Upto(Z, p, h, k - 1) # {}
  <2>1. k # 0 => k - 1 \in Nat /\ k - 1 < k
    BY <1>3
  <2> QED BY <1>2, <2>1
<1> QED BY <1>3, <1>4, UptoStep

(* two tables agree where both are defined,                                *)
LEMMA UptoAgree ==
  ASSUME NEW Z, NEW p \in [Nat -> Nat], NEW h \in [Nat -> Nat], \A n \in Nat \ Z : p[n] < n,
         NEW m \in Nat, NEW k \in Nat, NEW g \in Upto(Z, p, h, m), NEW e \in Upto(Z, p, h, k),
         NEW i \in Nat, i <= m, i <= k
  PROVE  g[i] = e[i]
<1> DEFINE Bad == {n \in Nat : n <= m /\ n <= k /\ g[n] # e[n]}
<1>1. SUFFICES ASSUME Bad # {} PROVE FALSE
  OBVIOUS
<1>2. PICK n \in Bad : \A u \in Bad : ~(u < n)
  <2>1. Bad \in SUBSET Nat
    OBVIOUS
  <2> HIDE DEF Bad
  <2> QED BY <1>1, <2>1, Least
<1>3. n \in Nat /\ n <= m /\ n <= k /\ g[n] # e[n]
  OBVIOUS
<1>4. /\ g[n] = IF n \in Z THEN 1 ELSE h[g[p[n]]]
      /\ e[n] = IF n \in Z THEN 1 ELSE h[e[p[n]]]
  <2>1. n \in 0 .. m /\ n \in 0 .. k
    BY <1>3
  <2> HIDE DEF Bad
  <2> QED BY <2>1 DEF Upto
<1>5. CASE n \notin Z
  <2>1. p[n] \in Nat /\ p[n] < n
    BY <1>3, <1>5
  <2>2. p[n] \notin Bad
    BY <1>2, <2>1, Zenon
  <2>3. g[p[n]] = e[p[n]]
    BY <1>3, <2>1, <2>2
  <2> QED BY <1>3, <1>4, <1>5, <2>3
<1> QED BY <1>3, <1>4, <1>5

(* The functions on Nat that obey it.                                      *)
Total(Z, p, h) ==
  {f \in [Nat -> Nat] : \A n \in Nat : f[n] = IF n \in Z THEN 1 ELSE h[f[p[n]]]}

(* so there is a function on all of Nat that solves the equation.          *)
LEMMA Recursion ==
  ASSUME NEW Z, NEW p \in [Nat -> Nat], NEW h \in [Nat -> Nat], \A n \in Nat \ Z : p[n] < n
  PROVE  Total(Z, p, h) # {}
<1> DEFINE u(n) == CHOOSE g \in Upto(Z, p, h, n) : TRUE
           f == [n \in Nat |-> u(n)[n]]
<1>1. ASSUME NEW n \in Nat PROVE u(n) \in Upto(Z, p, h, n)
  BY UptoExists
<1> HIDE DEF u
<1>2. ASSUME NEW n \in Nat PROVE f[n] = u(n)[n]
  OBVIOUS
<1>3. f = [n \in Nat |-> f[n]]
  OBVIOUS
<1> HIDE DEF f
<1>4. ASSUME NEW n \in Nat PROVE f[n] \in Nat /\ f[n] = IF n \in Z THEN 1 ELSE h[f[p[n]]]
  <2>1. u(n)[n] \in Nat /\ u(n)[n] = IF n \in Z THEN 1 ELSE h[u(n)[p[n]]]
    <3>1. u(n) \in Upto(Z, p, h, n) /\ n \in 0 .. n
      BY <1>1
    <3> QED BY <3>1 DEF Upto
  <2>2. CASE n \notin Z
    <3>1. p[n] \in Nat /\ p[n] <= n /\ p[n] <= p[n]
      BY <2>2
    <3>2. u(n) \in Upto(Z, p, h, n) /\ u(p[n]) \in Upto(Z, p, h, p[n])
      BY <1>1, <3>1
    <3>3. u(n)[p[n]] = u(p[n])[p[n]]
      BY <3>1, <3>2, UptoAgree
    <3>4. f[p[n]] = u(p[n])[p[n]]
      BY <1>2, <3>1
    <3> QED BY <1>2, <2>1, <2>2, <3>3, <3>4
  <2> QED BY <1>2, <2>1, <2>2
<1>5. f \in [Nat -> Nat]
  BY <1>3, <1>4
<1>6. f \in Total(Z, p, h)
  BY <1>4, <1>5 DEF Total
<1> QED BY <1>6

(* Induction over the numbers.                                             *)
LEMMA Induct ==
  ASSUME NEW S \in SUBSET Nat, 0 \in S, \A n \in S : n + 1 \in S
  PROVE  S = Nat
<1>1. SUFFICES ASSUME Nat \ S # {} PROVE FALSE
  OBVIOUS
<1>2. PICK k \in Nat \ S : \A u \in Nat \ S : ~(u < k)
  BY <1>1, Least
<1>3. k # 0 /\ k - 1 \in Nat /\ k - 1 < k /\ (k - 1) + 1 = k
  BY <1>2
<1> QED BY <1>2, <1>3

(* Powers of two.                                                          *)
LEMMA Pow2Def == K!Pow2 = [k \in Nat |-> IF k = 0 THEN 1 ELSE 2 * K!Pow2[k - 1]]
<1> DEFINE p == [n \in Nat |-> IF n = 0 THEN 0 ELSE n - 1]
           h == [n \in Nat |-> 2 * n]
<1>1. p \in [Nat -> Nat] /\ h \in [Nat -> Nat] /\ \A n \in Nat \ {0} : p[n] < n
  OBVIOUS
<1>2. PICK f \in [Nat -> Nat] : \A n \in Nat : f[n] = IF n \in {0} THEN 1 ELSE h[f[p[n]]]
  <2> HIDE DEF p, h
  <2>1. Total({0}, p, h) # {}
    BY <1>1, Recursion
  <2> QED BY <2>1 DEF Total
<1>3. ASSUME NEW n \in Nat PROVE f[n] = IF n = 0 THEN 1 ELSE 2 * f[n - 1]
  <2>1. CASE n # 0
    <3>1. p[n] = n - 1 /\ n - 1 \in Nat /\ f[n - 1] \in Nat
      BY <2>1
    <3>2. h[f[n - 1]] = 2 * f[n - 1]
      BY <3>1
    <3> HIDE DEF p, h
    <3> QED BY <1>2, <2>1, <3>1, <3>2
  <2> QED BY <1>2, <2>1
<1>4. f = [k \in Nat |-> IF k = 0 THEN 1 ELSE 2 * f[k - 1]]
  BY <1>3
<1> QED BY <1>4, Zenon DEF K!Pow2

(* They are positive and double.                                           *)
LEMMA Pow2Nat == \A k \in Nat : K!Pow2[k] \in Nat \ {0} /\ K!Pow2[k + 1] = 2 * K!Pow2[k]
<1> DEFINE S == {k \in Nat : K!Pow2[k] \in Nat \ {0}}
<1>1. K!Pow2[0] = 1 /\ \A k \in Nat : K!Pow2[k + 1] = 2 * K!Pow2[k]
  <2>1. \A k \in Nat : K!Pow2[k] = IF k = 0 THEN 1 ELSE 2 * K!Pow2[k - 1]
    BY Pow2Def
  <2>2. ASSUME NEW k \in Nat PROVE K!Pow2[k + 1] = 2 * K!Pow2[k]
    <3>1. k + 1 \in Nat /\ k + 1 # 0 /\ (k + 1) - 1 = k
      OBVIOUS
    <3> QED BY <2>1, <3>1
  <2> QED BY <2>1, <2>2
<1>2. 0 \in S /\ \A k \in S : k + 1 \in S
  BY <1>1
<1>3. S = Nat
  <2>1. S \in SUBSET Nat
    OBVIOUS
  <2> HIDE DEF S
  <2> QED BY <1>2, <2>1, Induct
<1> QED BY <1>1, <1>3

(* They grow.                                                              *)
LEMMA Pow2Mono == \A k \in Nat, j \in Nat : K!Pow2[k] <= K!Pow2[k + j]
<1> SUFFICES ASSUME NEW k \in Nat PROVE \A j \in Nat : K!Pow2[k] <= K!Pow2[k + j]
  OBVIOUS
<1> DEFINE S == {j \in Nat : K!Pow2[k] <= K!Pow2[k + j]}
<1>1. 0 \in S
  BY Pow2Nat
<1>2. ASSUME NEW j \in S PROVE j + 1 \in S
  <2>1. j \in Nat /\ k + j \in Nat /\ k + (j + 1) = (k + j) + 1
    OBVIOUS
  <2>2. K!Pow2[k + j] \in Nat /\ K!Pow2[k] \in Nat /\ K!Pow2[k + (j + 1)] = 2 * K!Pow2[k + j]
    BY <2>1, Pow2Nat
  <2> QED BY <2>1, <2>2
<1>3. S = Nat
  <2>1. S \in SUBSET Nat
    OBVIOUS
  <2> HIDE DEF S
  <2> QED BY <1>1, <1>2, <2>1, Induct
<1> QED BY <1>3

(* Division by a base takes at least half away.                            *)
LEMMA Halves ==
  ASSUME NEW num \in Nat, NEW base \in Nat, base >= 2, NEW q, q = num \div base
  PROVE  q \in Nat /\ 2 * q <= num /\ (num >= base => q < num)
<1>1. q \in Nat
  OBVIOUS
<1>2. num = base * q + (num % base) /\ num % base \in Nat
  OBVIOUS
<1>3. base * q >= 2 * q /\ base * q \in Nat
  BY <1>1
<1>4. num >= base => num > 0
  OBVIOUS
<1> QED BY <1>1, <1>2, <1>3, <1>4

(* ksprintn() counts at least one digit, and at most one per bit.          *)
LEMMA KsprintnFits ==
  ASSUME NEW base \in Nat, base >= 2, NEW m \in Nat, NEW num \in Nat, num < K!Pow2[m + 1]
  PROVE  K!Ksprintn(num, base) \in 1 .. m + 1
<1> DEFINE Z == 0 .. base - 1
           p == [n \in Nat |-> n \div base]
           h == [n \in Nat |-> 1 + n]
           D == CHOOSE D : D = [k \in Nat |-> IF k < base THEN 1 ELSE 1 + D[k \div base]]
<1>1. /\ p \in [Nat -> Nat] /\ h \in [Nat -> Nat] /\ Z \in SUBSET Nat
      /\ \A n \in Nat \ Z : p[n] < n
  <2>1. \A n \in Nat : n \div base \in Nat /\ (n >= base => n \div base < n)
    BY Halves
  <2> QED BY <2>1
<1>2. PICK f \in [Nat -> Nat] : \A n \in Nat : f[n] = IF n \in Z THEN 1 ELSE h[f[p[n]]]
  <2> HIDE DEF p, h, Z
  <2>1. Total(Z, p, h) # {}
    BY <1>1, Recursion
  <2> QED BY <2>1 DEF Total
<1>3. ASSUME NEW n \in Nat PROVE f[n] = IF n < base THEN 1 ELSE 1 + f[n \div base]
  <2>1. CASE ~(n < base)
    <3> DEFINE q == n \div base
    <3>1. q \in Nat
      BY Halves
    <3>2. p[n] = q /\ f[q] \in Nat /\ n \notin Z
      BY <2>1, <3>1
    <3>3. h[f[q]] = 1 + f[q]
      BY <3>2
    <3> HIDE DEF p, h, q, Z
    <3>4. f[n] = 1 + f[q]
      BY <1>2, <3>2, <3>3
    <3> QED BY <2>1, <3>4 DEF q
  <2>2. CASE n < base
    <3>1. n \in Z
      BY <2>2
    <3> HIDE DEF p, h, Z
    <3> QED BY <1>2, <2>2, <3>1
  <2> QED BY <2>1, <2>2
<1>4. f = [k \in Nat |-> IF k < base THEN 1 ELSE 1 + f[k \div base]]
  BY <1>3
<1>5. D = [k \in Nat |-> IF k < base THEN 1 ELSE 1 + D[k \div base]]
  BY <1>4, Zenon
<1>6. K!Ksprintn(num, base) = D[num]
  BY Zenon DEF K!Ksprintn
<1> HIDE DEF D
<1>7. \A k \in Nat : D[k] = IF k < base THEN 1 ELSE 1 + D[k \div base]
  BY <1>5
<1> DEFINE S == {k \in Nat : \A i \in Nat : i < K!Pow2[k + 1] => D[i] \in 1 .. k + 1}
<1>8. 0 \in S
  <2>1. ASSUME NEW i \in Nat, i < K!Pow2[0 + 1] PROVE D[i] \in 1 .. 0 + 1
    <3>1. K!Pow2[0] = 1 /\ K!Pow2[0 + 1] = 2 * K!Pow2[0]
      <4>1. K!Pow2[0] = 1
        BY Pow2Def
      <4> QED BY <4>1, Pow2Nat
    <3>2. i < base
      BY <2>1, <3>1
    <3> QED BY <1>7, <3>2
  <2> QED BY <2>1
<1>9. ASSUME NEW k \in S PROVE k + 1 \in S
  <2>1. k \in Nat /\ \A i \in Nat : i < K!Pow2[k + 1] => D[i] \in 1 .. k + 1
    OBVIOUS
  <2>2. ASSUME NEW i \in Nat, i < K!Pow2[(k + 1) + 1] PROVE D[i] \in 1 .. (k + 1) + 1
    <3>1. CASE i < base
      BY <1>7, <2>1, <3>1
    <3>2. CASE ~(i < base)
      <4> DEFINE q == i \div base
      <4>1. q \in Nat /\ 2 * q <= i
        BY Halves
      <4>2. D[i] = 1 + D[q]
        BY <1>7, <3>2
      <4> HIDE DEF q
      <4>3. K!Pow2[(k + 1) + 1] = 2 * K!Pow2[k + 1] /\ K!Pow2[k + 1] \in Nat
        BY <2>1, Pow2Nat
      <4>4. q < K!Pow2[k + 1]
        BY <2>2, <4>1, <4>3
      <4>5. D[q] \in 1 .. k + 1
        BY <2>1, <4>1, <4>4
      <4> QED BY <2>1, <4>2, <4>5
    <3> QED BY <3>1, <3>2
  <2> HIDE DEF S
  <2>3. k + 1 \in Nat
    BY <2>1
  <2> QED BY <2>2, <2>3 DEF S
<1>10. S = Nat
  <2>1. S \in SUBSET Nat
    OBVIOUS
  <2> HIDE DEF S
  <2> QED BY <1>8, <1>9, <2>1, Induct
<1> QED BY <1>6, <1>10

(* What is left of a number in k bits.                                     *)
LEMMA UnsignedIs ==
  ASSUME NEW x \in Int, NEW k \in Nat
  PROVE  /\ K!Unsigned(x, k) \in Nat /\ K!Unsigned(x, k) < K!Pow2[k]
         /\ 0 <= x /\ x < K!Pow2[k] => K!Unsigned(x, k) = x
         /\ x < 0 /\ -K!Pow2[k] <= x => K!Unsigned(x, k) = x + K!Pow2[k]
<1> DEFINE P == K!Pow2[k]
<1>1. P \in Nat /\ P > 0
  BY Pow2Nat
<1> HIDE DEF P
<1>2. /\ x % P \in 0 .. P - 1
      /\ 0 <= x /\ x < P => x % P = x
      /\ x < 0 /\ -P <= x => x % P = x + P
  BY <1>1
<1> QED BY <1>1, <1>2 DEF K!Unsigned, P

(* The same bits read as a two's complement.                               *)
LEMMA SignedIs ==
  ASSUME NEW x \in Int, NEW k \in Nat \ {0}
  PROVE  /\ K!Signed(x, k) \in Int /\ -K!Pow2[k - 1] <= K!Signed(x, k)
            /\ K!Signed(x, k) < K!Pow2[k - 1]
         /\ K!Unsigned(K!Signed(x, k), k) = K!Unsigned(x, k)
         /\ K!Pow2[k] = 2 * K!Pow2[k - 1] /\ K!Pow2[k - 1] \in Nat \ {0}
<1>1. k - 1 \in Nat /\ (k - 1) + 1 = k
  OBVIOUS
<1>2. K!Pow2[k] = 2 * K!Pow2[k - 1] /\ K!Pow2[k - 1] \in Nat \ {0}
  BY <1>1, Pow2Nat
<1>3. K!Unsigned(x, k) \in Nat /\ K!Unsigned(x, k) < K!Pow2[k]
  BY UnsignedIs
<1>4. K!Signed(x, k) \in Int /\ -K!Pow2[k - 1] <= K!Signed(x, k) /\ K!Signed(x, k) < K!Pow2[k - 1]
  BY <1>2, <1>3 DEF K!Signed
<1>5. K!Unsigned(K!Signed(x, k), k) = K!Unsigned(x, k)
  <2>1. CASE K!Signed(x, k) = K!Unsigned(x, k)
    <3>1. K!Unsigned(x, k) \in Int /\ 0 <= K!Unsigned(x, k)
      BY <1>3
    <3> QED BY <1>3, <2>1, <3>1, UnsignedIs
  <2>2. CASE K!Signed(x, k) = K!Unsigned(x, k) - K!Pow2[k]
    <3>1. K!Signed(x, k) < 0 /\ -K!Pow2[k] <= K!Signed(x, k)
          /\ K!Signed(x, k) + K!Pow2[k] = K!Unsigned(x, k)
      BY <1>2, <1>3, <2>2
    <3> QED BY <1>4, <3>1, UnsignedIs
  <2> QED BY <2>1, <2>2 DEF K!Signed
<1> QED BY <1>2, <1>4, <1>5

(* What fits is read back as it was.                                       *)
LEMMA SignedBack ==
  ASSUME NEW k \in Nat \ {0}, NEW v \in Int, -K!Pow2[k - 1] <= v, v < K!Pow2[k - 1]
  PROVE  /\ K!Signed(K!Unsigned(v, k), k) = v
         /\ v < 0 => K!Unsigned(-K!Unsigned(v, k), k) = -v
         /\ 0 <= v => K!Unsigned(v, k) = v
<1>1. K!Pow2[k] = 2 * K!Pow2[k - 1] /\ K!Pow2[k - 1] \in Nat \ {0}
  BY SignedIs
<1>2. K!Unsigned(v, k) = IF v < 0 THEN v + K!Pow2[k] ELSE v
  <2>1. v < K!Pow2[k] /\ -K!Pow2[k] <= v /\ k \in Nat
    BY <1>1
  <2>2. v < 0 \/ 0 <= v
    OBVIOUS
  <2> QED BY <2>1, <2>2, UnsignedIs
<1>3. K!Unsigned(K!Unsigned(v, k), k) = K!Unsigned(v, k)
  <2>1. K!Unsigned(v, k) \in Nat /\ K!Unsigned(v, k) < K!Pow2[k] /\ k \in Nat
    BY UnsignedIs
  <2>2. K!Unsigned(v, k) \in Int /\ 0 <= K!Unsigned(v, k)
    BY <2>1
  <2> QED BY <2>1, <2>2, UnsignedIs
<1>4. K!Signed(K!Unsigned(v, k), k) = v
  BY <1>1, <1>2, <1>3 DEF K!Signed
<1>5. ASSUME v < 0 PROVE K!Unsigned(-K!Unsigned(v, k), k) = -v
  <2>1. -K!Unsigned(v, k) \in Int /\ -K!Unsigned(v, k) < 0 /\ -K!Pow2[k] <= -K!Unsigned(v, k)
        /\ -K!Unsigned(v, k) + K!Pow2[k] = -v
    BY <1>1, <1>2, <1>5
  <2> QED BY <2>1, UnsignedIs
<1> QED BY <1>2, <1>4, <1>5

(* What n of `*' take from the arguments.                                  *)
Stars(n) == [k \in 1 .. n |-> "word"]

(* What `*' takes comes before what the conversion takes.                  *)
LEMMA StarsAre ==
  ASSUME NEW n \in Nat
  PROVE  /\ Stars(n) \in Seq({"word", "dword"}) /\ Stars(n) \o <<>> = Stars(n)
         /\ Append(Stars(n), "word") = Stars(n + 1)
         /\ \A x \in {"word", "dword"} : Append(Stars(n), x) = Stars(n) \o <<x>>
<1> DEFINE S == {"word", "dword"}
<1>1. Stars(n) \in Seq(S) /\ Len(Stars(n)) = n
  BY DEF Stars
<1>2. ASSUME NEW x \in S PROVE Append(Stars(n), x) = Stars(n) \o <<x>>
  <2> HIDE DEF S
  <2> QED BY <1>1, AppendIsConcat
<1>3. Stars(n) \o <<>> = Stars(n)
  <2> HIDE DEF S
  <2> QED BY <1>1, ConcatEmptySeq
<1>4. Append(Stars(n), "word") = Stars(n + 1)
  BY DEF Stars
<1> QED BY <1>1, <1>2, <1>3, <1>4

(* The directive, as printf(3) reads it.                                   *)
DirFields == {"stage", "left", "zero", "sharp", "plus", "width", "prec", "len", "stars",
              "negwidth", "negprec", "conv"}
Lengths == {"none", "hh", "h", "l", "ll", "j", "z", "t"}

(* A length modifier is the last thing before the conversion.              *)
LengthLast == /\ d.len # "none" => d.stage = d.len
              /\ d.stage \in {"h", "l"} => d.len = d.stage
(* Types of the directive and of the variables, in and between directives. *)
KvTypes ==
  /\ K!TypeOK
  /\ DOMAIN d = DirFields /\ d.stars \in Nat /\ d.width \in Nat /\ arg \in Int
  /\ d.prec \in Nat \/ d.prec = K!NoPrec
  /\ d.len \in Lengths
  /\ d.negwidth => d.stage # "flags"
  /\ pc = "reswitch" => LengthLast /\ out = K!Nothing /\ d.conv = "none"
  /\ lost => pc = "text" /\ K!STOP \in flags
  /\ out.kind = "number" => out.digits \in 0 .. MaxBits

(* What kvprintf() knows of the directive, and what printf(3) does.        *)
Exact == d.len # "ll" /\ ~d.negwidth
Known ==
  /\ K!SHARPFLAG \in flags <=> d.sharp
  /\ K!LADJUST \in flags <=> d.left
  /\ K!DOT \in flags <=> (d.prec # K!NoPrec \/ d.negprec)
  /\ K!NEG \notin flags /\ K!QFLAG \notin flags /\ 6 \notin flags
  /\ K!CFLAG \in flags <=> d.len = "hh"
  /\ K!HFLAG \in flags <=> d.len = "h"
  /\ K!JFLAG \in flags <=> d.len = "j"
  /\ K!TFLAG \in flags <=> d.len = "t"
  /\ K!ZFLAG \in flags <=> d.len = "z"
  /\ K!LFLAG \in flags => d.len = "l"
  /\ padc = "0" <=> d.zero
  /\ width = d.width
  /\ d.stage \in {"flags", "width"} => d.prec = K!NoPrec /\ ~d.negprec
  /\ d.prec = K!NoPrec => dwidth <= 0 /\ (d.negprec \/ dwidth = 0)
  /\ d.prec # K!NoPrec => dwidth = d.prec
  /\ took = Stars(d.stars)

KvInv ==
  /\ KvTypes
  /\ pc = "reswitch" /\ Exact => Known
  /\ K!ArgsInStep /\ K!NumbersAsPrintf /\ K!StringsAsPrintf

(* The inversion of the flags at kvprintf.c:105 toggles a flag nobody      *)
(* reads, or LADJUST or DOT, if the flags before were those of a directive *)
(* without length.                                                         *)
LEMMA Inverts ==
  ASSUME NEW S \in SUBSET (0 .. 31), NEW flag
  PROVE  /\ K!Inverted(S, flag) \subseteq 0 .. 31
         /\ {0, 1, 3, 6, 7} \cap S = {} =>
              \A b \in 0 .. 31 \ {0, 4} : b < 16 => (b \in K!Inverted(S, flag) <=> b \in S)
<1> DEFINE x == K!LowByte(S)
<1>1. x \in Nat
  BY DEF K!LowByte, K!Bit
<1>2. {0, 1, 3, 6, 7} \cap S = {} => x \in {0, 4, 16, 20, 32, 36, 48, 52}
  BY DEF K!LowByte, K!Bit
<1> HIDE DEF x
<1>3. K!Inverted(S, flag) = IF x < 32 THEN (S \ {x}) \cup ({x} \ S) ELSE S
  BY DEF K!Inverted, K!Toggle, x
<1> QED BY <1>1, <1>2, <1>3

(* Before the first character.                                             *)
LEMMA KvInit == K!Init => KvInv
<1> SUFFICES ASSUME K!Init PROVE KvInv
  OBVIOUS
<1>1. d = K!Plain /\ flags = {} /\ out = K!Nothing /\ took = <<>> /\ arg = 0 /\ pc = "text"
      /\ lost = FALSE /\ padc = "blank" /\ width = 0 /\ dwidth = 0
  BY DEF K!Init
<1>2. radix \in 2 .. 36
  <2>1. PICK r \in Radixes : radix = IF r < 2 \/ r > 36 THEN 10 ELSE r
    BY DEF K!Init
  <2> QED BY <2>1, PartsAssumption
<1>3. KvTypes
  <2>1. lost \in BOOLEAN
    BY <1>1
  <2>2. K!TypeOK
    BY <1>1, <1>2, <2>1 DEF K!TypeOK
  <2>3. ~lost
    BY <1>1
  <2> QED BY <1>1, <2>2, <2>3 DEF KvTypes, K!Plain, DirFields, Lengths, K!NoPrec, K!Nothing
<1>4. K!ArgsInStep /\ K!NumbersAsPrintf /\ K!StringsAsPrintf
  BY <1>1 DEF K!ArgsInStep, K!ArgsMatch, K!NumbersAsPrintf, K!Ordinary, K!StringsAsPrintf,
     K!Plain, K!Nothing
<1> QED BY <1>1, <1>3, <1>4 DEF KvInv

(* A directive begins,                                                     *)
LEMMA PercentStep == ASSUME KvInv, K!Percent PROVE KvInv'
<1>1. /\ pc' = "reswitch" /\ padc' = "blank" /\ width' = 0 /\ flags' = {} /\ dwidth' = 0
      /\ took' = <<>> /\ out' = K!Nothing /\ d' = K!Plain /\ arg' = 0 /\ radix' = radix
         /\ lost' = lost
      /\ K!STOP \notin flags
  BY DEF K!Percent
<1>2. lost' = FALSE
  BY <1>1 DEF KvInv, KvTypes, K!TypeOK
<1>3. KvTypes'
  BY <1>1, <1>2 DEF KvInv, KvTypes, K!TypeOK, LengthLast, K!Plain, DirFields, Lengths,
     K!NoPrec, K!Nothing
<1>4. Known'
  <2>1. Stars(0) = <<>>
    BY DEF Stars
  <2> QED BY <1>1, <2>1 DEF Known, K!Plain, K!NoPrec
<1>5. (K!ArgsInStep /\ K!NumbersAsPrintf /\ K!StringsAsPrintf)'
  BY <1>1 DEF K!ArgsInStep, K!ArgsMatch, K!NumbersAsPrintf, K!Ordinary, K!StringsAsPrintf,
     K!Plain, K!Nothing
<1> QED BY <1>3, <1>4, <1>5 DEF KvInv

(* and is over.                                                            *)
LEMMA ReturnStep == ASSUME KvInv, K!Return PROVE KvInv'
<1>1. /\ pc' = pc /\ pc = "text" /\ padc' = "blank" /\ width' = 0 /\ flags' = {} /\ dwidth' = 0
      /\ took' = <<>> /\ out' = K!Nothing /\ d' = K!Plain /\ arg' = 0 /\ lost' = FALSE
  BY DEF K!Return
<1>2. radix' \in 2 .. 36
  <2>1. PICK r \in Radixes : radix' = IF r < 2 \/ r > 36 THEN 10 ELSE r
    BY DEF K!Return
  <2> QED BY <2>1, PartsAssumption
<1>3. KvTypes'
  <2>1. lost' \in BOOLEAN
    BY <1>1
  <2>2. K!TypeOK'
    BY <1>1, <1>2, <2>1 DEF K!TypeOK
  <2>3. ~lost'
    BY <1>1
  <2> QED BY <1>1, <2>2, <2>3 DEF KvTypes, K!Plain, DirFields, Lengths, K!NoPrec, K!Nothing
<1>4. (K!ArgsInStep /\ K!NumbersAsPrintf /\ K!StringsAsPrintf)'
  BY <1>1 DEF K!ArgsInStep, K!ArgsMatch, K!NumbersAsPrintf, K!Ordinary, K!StringsAsPrintf,
     K!Plain, K!Nothing
<1> QED BY <1>1, <1>3, <1>4 DEF KvInv

(* A character inside a directive keeps it, if the variables it changes    *)
(* still agree with the directive.                                         *)
LEMMA InDirective ==
  ASSUME KvInv, pc = "reswitch", UNCHANGED <<pc, radix, out, arg, lost>>,
         DOMAIN d' = DirFields, d'.conv = "none", d'.stars \in Nat, d'.width \in Nat,
         d'.prec \in Nat \/ d'.prec = K!NoPrec, d'.len \in Lengths,
         d'.negwidth => d'.stage # "flags", LengthLast',
         flags' \subseteq 0 .. 31, padc' \in {"blank", "0"}, width' \in Nat, dwidth' \in Int,
         took' \in Seq({"word", "dword"}), Exact' => Known'
  PROVE  KvInv'
<1>1. ~lost /\ out = K!Nothing /\ pc' = "reswitch" /\ out' = K!Nothing
  BY DEF KvInv, KvTypes
<1>2. KvTypes'
  <2>1. K!TypeOK'
    BY DEF KvInv, KvTypes, K!TypeOK
  <2>2. ~lost'
    BY <1>1
  <2> QED BY <1>1, <2>1, <2>2 DEF KvTypes, KvInv, K!Nothing
<1>3. K!ArgsInStep'
  BY DEF K!ArgsInStep, K!ArgsMatch
<1>4. (K!NumbersAsPrintf /\ K!StringsAsPrintf)'
  BY <1>1 DEF K!NumbersAsPrintf, K!Ordinary, K!StringsAsPrintf, K!Nothing
<1> QED BY <1>2, <1>3, <1>4 DEF KvInv

(* What a directive under way has; the characters keep the first four.     *)
LEMMA UnderWay ==
  ASSUME KvInv, pc = "reswitch"
  PROVE  /\ DOMAIN d = DirFields /\ d.conv = "none" /\ d.stars \in Nat /\ d.width \in Nat
         /\ (d.prec \in Nat \/ d.prec = K!NoPrec) /\ d.len \in Lengths
         /\ (d.negwidth => d.stage # "flags") /\ LengthLast
         /\ flags \subseteq 0 .. 31 /\ padc \in {"blank", "0"} /\ width \in Nat /\ dwidth \in Int
         /\ took \in Seq({"word", "dword"}) /\ (Exact => Known)
  BY DEF KvInv, KvTypes, K!TypeOK

(* The flag `#',                                                           *)
LEMMA SharpStep == ASSUME KvInv, K!Sharp PROVE KvInv'
<1>1. /\ pc = "reswitch" /\ UNCHANGED <<pc, radix, out, arg, lost, width, dwidth, took>>
  BY DEF K!Sharp, K!At
<1>2. /\ DOMAIN d' = DirFields /\ d'.conv = "none" /\ d'.stars \in Nat /\ d'.width \in Nat
      /\ (d'.prec \in Nat \/ d'.prec = K!NoPrec) /\ d'.len \in Lengths
      /\ (d'.negwidth => d'.stage # "flags") /\ LengthLast'
  BY <1>1, UnderWay DEF K!Sharp, K!At, LengthLast, Lengths, DirFields
<1>3. flags' \subseteq 0 .. 31 /\ padc' \in {"blank", "0"} /\ width' \in Nat /\ dwidth' \in Int
      /\ took' \in Seq({"word", "dword"})
  BY <1>1, UnderWay DEF K!Sharp, K!SHARPFLAG, K!SIGN, K!LADJUST, K!DOT
<1>4. ASSUME Exact' PROVE Known'
  <2>1. Exact /\ Known
    BY <1>1, <1>4, UnderWay DEF Exact, K!Sharp, DirFields
  <2> QED BY <1>1, <2>1, UnderWay DEF K!Sharp, Known, DirFields, K!NoPrec, K!LFLAG, K!QFLAG,
             K!SHARPFLAG, K!NEG, K!SIGN, K!DOT, K!CFLAG, K!HFLAG, K!JFLAG,
              K!TFLAG, K!ZFLAG, K!STOP, K!LADJUST
<1> QED BY <1>1, <1>2, <1>3, <1>4, InDirective

(* the flag `+',                                                           *)
LEMMA PlusStep == ASSUME KvInv, K!Plus PROVE KvInv'
<1>1. /\ pc = "reswitch" /\ UNCHANGED <<pc, radix, out, arg, lost, width, dwidth, took>>
  BY DEF K!Plus, K!At
<1>2. /\ DOMAIN d' = DirFields /\ d'.conv = "none" /\ d'.stars \in Nat /\ d'.width \in Nat
      /\ (d'.prec \in Nat \/ d'.prec = K!NoPrec) /\ d'.len \in Lengths
      /\ (d'.negwidth => d'.stage # "flags") /\ LengthLast'
  BY <1>1, UnderWay DEF K!Plus, K!At, LengthLast, Lengths, DirFields
<1>3. flags' \subseteq 0 .. 31 /\ padc' \in {"blank", "0"} /\ width' \in Nat /\ dwidth' \in Int
      /\ took' \in Seq({"word", "dword"})
  BY <1>1, UnderWay DEF K!Plus, K!SHARPFLAG, K!SIGN, K!LADJUST, K!DOT
<1>4. ASSUME Exact' PROVE Known'
  <2>1. Exact /\ Known
    BY <1>1, <1>4, UnderWay DEF Exact, K!Plus, DirFields
  <2> QED BY <1>1, <2>1, UnderWay DEF K!Plus, Known, DirFields, K!NoPrec, K!LFLAG, K!QFLAG,
             K!SHARPFLAG, K!NEG, K!SIGN, K!DOT, K!CFLAG, K!HFLAG, K!JFLAG,
              K!TFLAG, K!ZFLAG, K!STOP, K!LADJUST
<1> QED BY <1>1, <1>2, <1>3, <1>4, InDirective

(* the flag `-',                                                           *)
LEMMA MinusStep == ASSUME KvInv, K!Minus PROVE KvInv'
<1>1. /\ pc = "reswitch" /\ UNCHANGED <<pc, radix, out, arg, lost, width, dwidth, took>>
  BY DEF K!Minus, K!At
<1>2. /\ DOMAIN d' = DirFields /\ d'.conv = "none" /\ d'.stars \in Nat /\ d'.width \in Nat
      /\ (d'.prec \in Nat \/ d'.prec = K!NoPrec) /\ d'.len \in Lengths
      /\ (d'.negwidth => d'.stage # "flags") /\ LengthLast'
  BY <1>1, UnderWay DEF K!Minus, K!At, LengthLast, Lengths, DirFields
<1>3. flags' \subseteq 0 .. 31 /\ padc' \in {"blank", "0"} /\ width' \in Nat /\ dwidth' \in Int
      /\ took' \in Seq({"word", "dword"})
  BY <1>1, UnderWay DEF K!Minus, K!SHARPFLAG, K!SIGN, K!LADJUST, K!DOT
<1>4. ASSUME Exact' PROVE Known'
  <2>1. Exact /\ Known
    BY <1>1, <1>4, UnderWay DEF Exact, K!Minus, DirFields
  <2> QED BY <1>1, <2>1, UnderWay DEF K!Minus, Known, DirFields, K!NoPrec, K!LFLAG, K!QFLAG,
             K!SHARPFLAG, K!NEG, K!SIGN, K!DOT, K!CFLAG, K!HFLAG, K!JFLAG,
              K!TFLAG, K!ZFLAG, K!STOP, K!LADJUST
<1> QED BY <1>1, <1>2, <1>3, <1>4, InDirective

(* and the flag `0'.                                                       *)
LEMMA ZeroStep == ASSUME KvInv, K!Zero PROVE KvInv'
<1>1. /\ pc = "reswitch" /\ UNCHANGED <<pc, radix, out, arg, lost, width, dwidth, took>>
  BY DEF K!Zero, K!At
<1>2. /\ DOMAIN d' = DirFields /\ d'.conv = "none" /\ d'.stars \in Nat /\ d'.width \in Nat
      /\ (d'.prec \in Nat \/ d'.prec = K!NoPrec) /\ d'.len \in Lengths
      /\ (d'.negwidth => d'.stage # "flags") /\ LengthLast'
  BY <1>1, UnderWay DEF K!Zero, K!At, LengthLast, Lengths, DirFields
<1>3. flags' \subseteq 0 .. 31 /\ padc' \in {"blank", "0"} /\ width' \in Nat /\ dwidth' \in Int
      /\ took' \in Seq({"word", "dword"})
  BY <1>1, UnderWay DEF K!Zero, K!SHARPFLAG, K!SIGN, K!LADJUST, K!DOT
<1>4. ASSUME Exact' PROVE Known'
  <2>1. Exact /\ Known
    BY <1>1, <1>4, UnderWay DEF Exact, K!Zero, DirFields
  <2> QED BY <1>1, <2>1, UnderWay DEF K!Zero, Known, DirFields, K!NoPrec, K!LFLAG, K!QFLAG,
             K!SHARPFLAG, K!NEG, K!SIGN, K!DOT, K!CFLAG, K!HFLAG, K!JFLAG,
              K!TFLAG, K!ZFLAG, K!STOP, K!LADJUST
<1> QED BY <1>1, <1>2, <1>3, <1>4, InDirective

(* A precision begins.                                                     *)
LEMMA DotStep == ASSUME KvInv, K!Dot PROVE KvInv'
<1>1. /\ pc = "reswitch" /\ UNCHANGED <<pc, radix, out, arg, lost, width, dwidth, took>>
  BY DEF K!Dot, K!At
<1>2. /\ DOMAIN d' = DirFields /\ d'.conv = "none" /\ d'.stars \in Nat /\ d'.width \in Nat
      /\ (d'.prec \in Nat \/ d'.prec = K!NoPrec) /\ d'.len \in Lengths
      /\ (d'.negwidth => d'.stage # "flags") /\ LengthLast'
  BY <1>1, UnderWay DEF K!Dot, K!At, LengthLast, Lengths, DirFields
<1>3. flags' \subseteq 0 .. 31 /\ padc' \in {"blank", "0"} /\ width' \in Nat /\ dwidth' \in Int
      /\ took' \in Seq({"word", "dword"})
  BY <1>1, UnderWay DEF K!Dot, K!SHARPFLAG, K!SIGN, K!LADJUST, K!DOT
<1>4. ASSUME Exact' PROVE Known'
  <2>1. Exact /\ Known
    BY <1>1, <1>4, UnderWay DEF Exact, K!Dot, DirFields
  <2> QED BY <1>1, <2>1, UnderWay DEF K!Dot, K!At, Known, Lengths, DirFields, K!NoPrec,
             K!LFLAG, K!QFLAG, K!SHARPFLAG, K!NEG, K!SIGN, K!DOT, K!CFLAG, K!HFLAG, K!JFLAG,
              K!TFLAG, K!ZFLAG, K!STOP, K!LADJUST
<1> QED BY <1>1, <1>2, <1>3, <1>4, InDirective

(* The digits of a width or a precision.                                   *)
LEMMA DigitsStep == ASSUME KvInv, K!Digits PROVE KvInv'
<1>1. /\ pc = "reswitch" /\ UNCHANGED <<pc, radix, out, arg, lost, flags, padc, took>>
  BY DEF K!Digits, K!At
<1>2. PICK n \in Widths :
        \/ /\ d.stage = "flags" /\ n > 0 /\ K!DOT \notin flags /\ width' = n /\ dwidth' = dwidth
           /\ d' = [d EXCEPT !.stage = "width", !.width = n]
        \/ /\ d.stage = "prec" /\ n >= 0 /\ K!DOT \in flags /\ dwidth' = n /\ width' = width
           /\ d' = [d EXCEPT !.stage = "length", !.prec = n]
  BY DEF K!Digits, K!At
<1>3. n \in Int
  BY PartsAssumption
<1>4. CASE d.stage = "flags"
  <2>1. /\ DOMAIN d' = DirFields /\ d'.stage = "width" /\ d'.width = n /\ width' = n
           /\ dwidth' = dwidth
        /\ \A x \in DirFields \ {"stage", "width"} : d'[x] = d[x]
    BY <1>1, <1>2, <1>4, UnderWay DEF DirFields
  <2>2. n \in Nat
    BY <1>2, <1>3, <1>4
  <2>3. Exact' => Known'
    BY <1>1, <1>4, <2>1, UnderWay DEF Exact, Known, Lengths, DirFields
  <2>4. LengthLast'
    BY <1>1, <1>4, <2>1, UnderWay DEF LengthLast, Lengths, DirFields
  <2> QED BY <1>1, <2>1, <2>2, <2>3, <2>4, UnderWay, InDirective DEF DirFields
<1>5. CASE d.stage = "prec"
  <2>1. /\ DOMAIN d' = DirFields /\ d'.stage = "length" /\ d'.prec = n /\ width' = width
           /\ dwidth' = n
        /\ \A x \in DirFields \ {"stage", "prec"} : d'[x] = d[x]
    BY <1>1, <1>2, <1>5, UnderWay DEF DirFields
  <2>2. n \in Nat /\ n # K!NoPrec /\ K!DOT \in flags
    BY <1>2, <1>3, <1>5 DEF K!NoPrec
  <2>3. Exact' => Known'
    BY <1>1, <1>5, <2>1, <2>2, UnderWay DEF Exact, Known, Lengths, DirFields
  <2>4. LengthLast'
    BY <1>1, <1>5, <2>1, UnderWay DEF LengthLast, Lengths, DirFields
  <2> QED BY <1>1, <2>1, <2>2, <2>3, <2>4, UnderWay, InDirective DEF DirFields
<1> QED BY <1>2, <1>4, <1>5

(* A width taken from the arguments: if it is negative, LADJUST is not set *)
(* by it, so the output is no longer known (Exact).                        *)
LEMMA StarWidthStep == ASSUME KvInv, K!StarWidth PROVE KvInv'
<1>1. /\ pc = "reswitch" /\ UNCHANGED <<pc, radix, out, arg, lost, padc, dwidth>>
      /\ took' = Append(took, "word") /\ d.stage = "flags"
  BY DEF K!StarWidth, K!At
<1>2. PICK n \in Widths :
        /\ width' = IF n < 0 THEN -n ELSE n
        /\ flags' = IF n < 0 THEN K!Inverted(flags, K!LADJUST) ELSE flags
        /\ d' = [d EXCEPT !.stage = "width", !.width = IF n < 0 THEN -n ELSE n,
                          !.left = @ \/ n < 0, !.negwidth = n < 0, !.stars = @ + 1]
  BY DEF K!StarWidth
<1>3. n \in Int
  BY PartsAssumption
<1>4. /\ DOMAIN d' = DirFields /\ d'.conv = "none" /\ d'.stars = d.stars + 1
      /\ d'.width = width' /\ d'.stage = "width"
      /\ \A x \in {"prec", "len", "negprec", "zero", "sharp", "conv"} : d'[x] = d[x]
  BY <1>1, <1>2, UnderWay DEF DirFields
<1>5. (d'.negwidth <=> n < 0) /\ (~(n < 0) => (d'.left <=> d.left))
  BY <1>1, <1>2, UnderWay DEF DirFields
<1>6. flags' \subseteq 0 .. 31 /\ width' \in Nat
  <2>1. flags \subseteq 0 .. 31 /\ K!Inverted(flags, K!LADJUST) \subseteq 0 .. 31
    BY <1>1, UnderWay, Inverts
  <2> QED BY <1>2, <1>3, <2>1
<1>7. took' \in Seq({"word", "dword"})
  BY <1>1, UnderWay
<1>8. ASSUME Exact' PROVE Known'
  <2>1. ~(n < 0) /\ flags' = flags
    BY <1>2, <1>5, <1>8 DEF Exact
  <2>2. Known
    BY <1>1, <1>4, <1>8, UnderWay DEF Exact
  <2>3. took' = Stars(d'.stars)
    BY <1>1, <1>4, <2>2, UnderWay, StarsAre DEF Known
  <2> QED BY <1>1, <1>4, <1>5, <2>1, <2>2, <2>3, UnderWay DEF Known, Lengths
<1>9. d'.stars \in Nat /\ d'.width \in Nat /\ (d'.prec \in Nat \/ d'.prec = K!NoPrec)
      /\ d'.len \in Lengths
      /\ (d'.negwidth => d'.stage # "flags")
  BY <1>1, <1>4, <1>6, UnderWay
<1>10. LengthLast'
  BY <1>1, <1>4, UnderWay DEF LengthLast, Lengths
<1> QED BY <1>1, <1>4, <1>6, <1>7, <1>8, <1>9, <1>10, UnderWay, InDirective

(* A precision taken from the arguments: a negative one is none.           *)
LEMMA StarPrecStep == ASSUME KvInv, K!StarPrec PROVE KvInv'
<1>1. /\ pc = "reswitch" /\ UNCHANGED <<pc, radix, out, arg, lost, padc, width, flags>>
      /\ took' = Append(took, "word") /\ d.stage = "prec" /\ K!DOT \in flags
  BY DEF K!StarPrec, K!At
<1>2. PICK n \in Widths :
        /\ dwidth' = n
        /\ d' = [d EXCEPT !.stage = "length", !.prec = IF n < 0 THEN K!NoPrec ELSE n,
                          !.negprec = n < 0, !.stars = @ + 1]
  BY DEF K!StarPrec
<1>3. n \in Int
  BY PartsAssumption
<1>4. /\ DOMAIN d' = DirFields /\ d'.stars = d.stars + 1 /\ d'.stage = "length"
      /\ d'.prec = IF n < 0 THEN K!NoPrec ELSE n
      /\ \A x \in DirFields \ {"stage", "stars", "prec", "negprec"} : d'[x] = d[x]
  BY <1>1, <1>2, UnderWay DEF DirFields
<1>5. d'.negprec <=> n < 0
  BY <1>1, <1>2, UnderWay DEF DirFields
<1>6. d'.prec \in Nat \/ d'.prec = K!NoPrec
  BY <1>3, <1>4
<1>7. took' \in Seq({"word", "dword"})
  BY <1>1, UnderWay
<1>8. ASSUME Exact' PROVE Known'
  <2>1. Known
    BY <1>1, <1>4, <1>8, UnderWay DEF Exact, DirFields
  <2>2. took' = Stars(d'.stars)
    BY <1>1, <1>4, <2>1, UnderWay, StarsAre DEF Known
  <2>3. /\ (d'.prec # K!NoPrec \/ d'.negprec)
        /\ (d'.prec = K!NoPrec => dwidth' <= 0 /\ d'.negprec)
        /\ (d'.prec # K!NoPrec => dwidth' = d'.prec)
    BY <1>2, <1>3, <1>4, <1>5 DEF K!NoPrec
  <2> QED BY <1>1, <1>4, <2>1, <2>2, <2>3, UnderWay DEF Known, Lengths, DirFields
<1> QED BY <1>1, <1>3, <1>2, <1>4, <1>6, <1>7, <1>8, UnderWay, InDirective DEF LengthLast,
           Lengths, DirFields

(* A length modifier.                                                      *)
LEMMA Modified ==
  ASSUME KvInv, pc = "reswitch", NEW c \in Lengths \ {"none"},
         UNCHANGED <<pc, radix, out, arg, lost, padc, width, dwidth, took>>,
         d' = [d EXCEPT !.stage = c, !.len = c], flags' \subseteq 0 .. 31,
         c # "ll" /\ Known =>
           /\ \A b \in {K!SHARPFLAG, K!LADJUST, K!DOT, K!NEG, K!QFLAG, 6} :
                 b \in flags' <=> b \in flags
           /\ K!CFLAG \in flags' <=> c = "hh"
           /\ K!HFLAG \in flags' <=> c = "h"
           /\ K!JFLAG \in flags' <=> c = "j"
           /\ K!TFLAG \in flags' <=> c = "t"
           /\ K!ZFLAG \in flags' <=> c = "z"
           /\ K!LFLAG \in flags' => c = "l",
         d.len # "ll"
  PROVE  KvInv'
<1>1. /\ DOMAIN d' = DirFields /\ d'.stage = c /\ d'.len = c
      /\ \A x \in DirFields \ {"stage", "len"} : d'[x] = d[x]
  BY UnderWay DEF DirFields
<1>2. c \in Lengths /\ c # "flags"
  BY DEF Lengths
<1>3. ASSUME Exact' PROVE Known'
  <2>1. Known /\ c # "ll"
    BY <1>1, <1>3, UnderWay DEF Exact, DirFields
  <2>2. c \notin {"flags", "width"}
    BY DEF Lengths
  <2> QED BY <1>1, <2>1, <2>2, UnderWay DEF Known, DirFields
<1>4. LengthLast'
  BY <1>1 DEF LengthLast
<1> QED BY <1>1, <1>2, <1>3, <1>4, UnderWay, InDirective DEF DirFields

(* No length yet where one may begin.                                      *)
LEMMA NoLength ==
  ASSUME KvInv, K!At({"flags", "width", "prec", "length"}), Known
  PROVE  d.len = "none" /\ {K!CFLAG, K!HFLAG, K!JFLAG, K!TFLAG, K!ZFLAG, K!LFLAG} \cap flags = {}
<1>1. d.len = "none"
  BY UnderWay DEF K!At, LengthLast, Lengths
<1> QED BY <1>1 DEF Known

(* j, z and t set a bit each.                                              *)
LEMMA SetBit ==
  ASSUME KvInv, NEW c, NEW b, K!Modifier(c, flags \cup {b}),
         \/ c = "j" /\ b = K!JFLAG
         \/ c = "z" /\ b = K!ZFLAG
         \/ c = "t" /\ b = K!TFLAG
  PROVE  KvInv'
<1>1. /\ K!At({"flags", "width", "prec", "length"}) /\ pc = "reswitch" /\ flags' = flags \cup {b}
      /\ d' = [d EXCEPT !.stage = c, !.len = c] /\ c \in Lengths \ {"none"} /\ c # "ll"
      /\ UNCHANGED <<pc, radix, out, arg, lost, padc, width, dwidth, took>>
  BY DEF K!Modifier, K!At, Lengths
<1>2. flags' \subseteq 0 .. 31
  <2>1. b \in 0 .. 31
    BY DEF K!JFLAG, K!ZFLAG, K!TFLAG
  <2> QED BY <1>1, <2>1, UnderWay
<1>3. ASSUME Known
      PROVE  /\ \A x \in {K!SHARPFLAG, K!LADJUST, K!DOT, K!NEG, K!QFLAG, 6} :
                   x \in flags' <=> x \in flags
             /\ K!CFLAG \in flags' <=> c = "hh"
             /\ K!HFLAG \in flags' <=> c = "h"
             /\ K!JFLAG \in flags' <=> c = "j"
             /\ K!TFLAG \in flags' <=> c = "t"
             /\ K!ZFLAG \in flags' <=> c = "z"
             /\ K!LFLAG \in flags' => c = "l"
  BY <1>1, <1>3, NoLength DEF K!LFLAG, K!QFLAG, K!SHARPFLAG, K!NEG, K!DOT, K!CFLAG, K!HFLAG,
     K!JFLAG, K!TFLAG,
                              K!ZFLAG, K!LADJUST
<1>4. d.len # "ll"
  BY <1>1, UnderWay DEF K!At, LengthLast
<1> QED BY <1>1, <1>2, <1>3, <1>4, Modified

(* j, z and t.                                                             *)
LEMMA JztStep == ASSUME KvInv, K!Jzt PROVE KvInv'
  BY SetBit DEF K!Jzt

(* h and hh.                                                               *)
LEMMA HStep == ASSUME KvInv, K!H PROVE KvInv'
<1>1. /\ pc = "reswitch" /\ flags' = K!HSet
      /\ UNCHANGED <<pc, radix, out, arg, lost, padc, width, dwidth, took>>
  BY DEF K!H, K!Modifier, K!At
<1>2. flags' \subseteq 0 .. 31
  <2>1. flags \subseteq 0 .. 31
    BY <1>1, UnderWay
  <2> QED BY <1>1, <2>1 DEF K!HSet, K!CFLAG, K!HFLAG
<1>3. CASE K!At({"flags", "width", "prec", "length"})
           /\ d' = [d EXCEPT !.stage = "h", !.len = "h"]
  <2>1. d.len # "ll" /\ "h" \in Lengths \ {"none"}
    BY <1>1, <1>3, UnderWay DEF K!At, LengthLast, Lengths
  <2>2. ASSUME Known
        PROVE  /\ \A x \in {K!SHARPFLAG, K!LADJUST, K!DOT, K!NEG, K!QFLAG, 6} :
                     x \in flags' <=> x \in flags
               /\ K!CFLAG \notin flags' /\ K!HFLAG \in flags' /\ K!JFLAG \notin flags'
               /\ K!TFLAG \notin flags' /\ K!ZFLAG \notin flags' /\ K!LFLAG \notin flags'
    BY <1>1, <1>3, <2>2, NoLength DEF K!HSet, K!LFLAG, K!QFLAG, K!SHARPFLAG, K!NEG, K!DOT,
       K!CFLAG, K!HFLAG, K!JFLAG, K!TFLAG,
                                      K!ZFLAG, K!LADJUST
  <2> QED BY <1>1, <1>2, <1>3, <2>1, <2>2, Modified
<1>4. CASE K!At({"h"}) /\ d' = [d EXCEPT !.stage = "hh", !.len = "hh"]
  <2>1. d.len = "h" /\ "hh" \in Lengths \ {"none"}
    BY <1>1, <1>4, UnderWay DEF K!At, LengthLast, Lengths
  <2>2. ASSUME Known
        PROVE  /\ \A x \in {K!SHARPFLAG, K!LADJUST, K!DOT, K!NEG, K!QFLAG, 6} :
                     x \in flags' <=> x \in flags
               /\ K!CFLAG \in flags' /\ K!HFLAG \notin flags' /\ K!JFLAG \notin flags'
               /\ K!TFLAG \notin flags' /\ K!ZFLAG \notin flags' /\ K!LFLAG \notin flags'
    BY <1>1, <2>1, <2>2 DEF Known, K!HSet, K!LFLAG, K!QFLAG, K!SHARPFLAG, K!NEG, K!DOT,
       K!CFLAG, K!HFLAG, K!JFLAG, K!TFLAG,
                                      K!ZFLAG, K!LADJUST
  <2> QED BY <1>1, <1>2, <2>1, <1>4, <2>2, Modified
<1> QED BY <1>3, <1>4, Zenon DEF K!H, K!Modifier

(* l and ll.                                                               *)
LEMMA LStep == ASSUME KvInv, K!L PROVE KvInv'
<1>1. /\ pc = "reswitch" /\ flags' = K!LSet
      /\ UNCHANGED <<pc, radix, out, arg, lost, padc, width, dwidth, took>>
  BY DEF K!L, K!Modifier, K!At
<1>2. flags' \subseteq 0 .. 31
  <2>1. (IF K!LFLAG \in flags THEN flags \cup {K!QFLAG} ELSE flags) \in SUBSET (0 .. 31)
    BY <1>1, UnderWay DEF K!QFLAG
  <2> QED BY <1>1, <2>1, Inverts DEF K!LSet
<1>3. CASE K!At({"flags", "width", "prec", "length"})
           /\ d' = [d EXCEPT !.stage = "l", !.len = "l"]
  <2>1. d.len # "ll" /\ "l" \in Lengths \ {"none"} /\ flags \in SUBSET (0 .. 31)
    BY <1>1, <1>3, UnderWay DEF K!At, LengthLast, Lengths
  <2>2. ASSUME Known
        PROVE  /\ \A x \in {K!SHARPFLAG, K!LADJUST, K!DOT, K!NEG, K!QFLAG, 6} :
                     x \in flags' <=> x \in flags
               /\ K!CFLAG \notin flags' /\ K!HFLAG \notin flags' /\ K!JFLAG \notin flags'
               /\ K!TFLAG \notin flags' /\ K!ZFLAG \notin flags'
    <3>1. {K!CFLAG, K!HFLAG, K!JFLAG, K!TFLAG, K!ZFLAG, K!LFLAG} \cap flags = {}
      BY <1>3, <2>2, NoLength
    <3>2. flags' = K!Inverted(flags, K!LFLAG)
      BY <1>1, <3>1 DEF K!LSet
    <3>3. {0, 1, 3, 6, 7} \cap flags = {}
      BY <2>2, <3>1 DEF Known, K!LFLAG, K!QFLAG, K!NEG, K!CFLAG
    <3>4. \A b \in {1, 2, 3, 5, 6, 7, 8, 9, 10, 11, 13} : b \in flags' <=> b \in flags
      BY <2>1, <3>2, <3>3, Inverts
    <3> HIDE DEF Known
    <3> QED BY <3>1, <3>4 DEF K!LFLAG, K!QFLAG, K!SHARPFLAG, K!NEG, K!DOT, K!CFLAG, K!HFLAG,
               K!JFLAG, K!TFLAG, K!ZFLAG, K!LADJUST
  <2> QED BY <1>1, <1>2, <1>3, <2>1, <2>2, Modified
<1>4. CASE K!At({"l"}) /\ d' = [d EXCEPT !.stage = "ll", !.len = "ll"]
  <2>1. d.len # "ll" /\ "ll" \in Lengths \ {"none"}
    BY <1>1, <1>4, UnderWay DEF K!At, LengthLast, Lengths
  <2> QED BY <1>1, <1>2, <1>4, <2>1, Modified
<1> QED BY <1>3, <1>4, Zenon DEF K!L, K!Modifier

--------------------------------------------------------------------------------
(* Every argument is read as a value that the buffer has place for.        *)
LEMMA ReadFits ==
  ASSUME NEW a \in Int
  PROVE  /\ K!HandleNosign(a) \in Nat /\ K!HandleNosign(a) < K!Pow2[MaxBits]
         /\ K!HandleSign(a) \in Nat /\ K!HandleSign(a) < K!Pow2[MaxBits]
         /\ K!Unsigned(a, IntBits) \in Nat /\ K!Unsigned(a, IntBits) < K!Pow2[MaxBits]
<1>1. MaxBits \in Nat \ {0} /\ IntBits \in Nat \ {0} /\ ShortBits \in Nat \ {0}
      /\ CharBits \in Nat \ {0}
  BY PartsAssumption
<1>2. ASSUME NEW k \in Nat \ {0}, k <= MaxBits
      PROVE  K!Unsigned(a, k) \in Nat /\ K!Unsigned(a, k) < K!Pow2[MaxBits]
  <2>1. MaxBits - k \in Nat /\ k + (MaxBits - k) = MaxBits /\ k \in Nat
    BY <1>1, <1>2
  <2>2. K!Pow2[k] <= K!Pow2[MaxBits]
    BY <2>1, Pow2Mono
  <2>3. K!Unsigned(a, k) \in Nat /\ K!Unsigned(a, k) < K!Pow2[k] /\ K!Pow2[k] \in Nat
        /\ K!Pow2[MaxBits] \in Nat
    BY <1>1, <2>1, UnsignedIs, Pow2Nat
  <2> QED BY <2>2, <2>3
<1>3. /\ K!Signed(a, IntBits) \in Int /\ K!Signed(a, ShortBits) \in Int
      /\ K!Unsigned(a, CharBits) \in Int
  BY <1>1, <1>2, SignedIs, PartsAssumption
<1>4. ASSUME NEW x \in Int PROVE K!Unsigned(x, MaxBits) \in Nat
             /\ K!Unsigned(x, MaxBits) < K!Pow2[MaxBits]
  BY <1>1, UnsignedIs
<1>5. K!HandleNosign(a) \in Nat /\ K!HandleNosign(a) < K!Pow2[MaxBits]
  BY <1>1, <1>2, <1>3, <1>4, PartsAssumption DEF K!HandleNosign
<1>6. K!HandleSign(a) \in Nat /\ K!HandleSign(a) < K!Pow2[MaxBits]
  BY <1>3, <1>4 DEF K!HandleSign
<1> QED BY <1>1, <1>2, <1>5, <1>6, PartsAssumption

(* If the directive is known, it is the value of the argument's type.      *)
LEMMA ReadRight ==
  ASSUME Known, d.len \in Lengths \ {"ll"}, NEW a \in Int
  PROVE  /\ d.len # "t" => K!HandleNosign(a) = K!Unsigned(a, K!BitsOf(d.len))
         /\ d.len # "hh" => K!HandleSign(a) = K!Unsigned(K!Signed(a, K!BitsOf(d.len)), MaxBits)
<1>1. K!Unsigned(K!Signed(a, MaxBits), MaxBits) = K!Unsigned(a, MaxBits)
  BY SignedIs, PartsAssumption
<1>2. /\ flags \cap {K!JFLAG, K!QFLAG} # {} <=> d.len = "j"
      /\ K!TFLAG \in flags <=> d.len = "t"
      /\ K!ZFLAG \in flags <=> d.len = "z"
      /\ K!HFLAG \in flags <=> d.len = "h"
      /\ K!CFLAG \in flags <=> d.len = "hh"
      /\ K!LFLAG \in flags => d.len = "l"
  BY DEF Known
<1> USE DEF K!BitsOf, Lengths
<1>3. CASE d.len = "j"
  BY <1>1, <1>2, <1>3 DEF K!HandleNosign, K!HandleSign
<1>4. CASE d.len = "t"
  BY <1>2, <1>4 DEF K!HandleNosign, K!HandleSign
<1>5. CASE d.len = "z"
  BY <1>2, <1>5 DEF K!HandleNosign, K!HandleSign
<1>6. CASE d.len = "l"
  BY <1>2, <1>6 DEF K!HandleNosign, K!HandleSign
<1>7. CASE d.len \in {"h", "hh", "none"}
  BY <1>2, <1>7 DEF K!HandleNosign, K!HandleSign
<1> QED BY <1>3, <1>4, <1>5, <1>6, <1>7

(* No number printed is longer than nbuf.                                  *)
LEMMA PrintFits ==
  ASSUME NEW S, NEW value \in Nat, value < K!Pow2[MaxBits], NEW base \in Nat, base >= 2
  PROVE  K!PrintNumber(S, value, base).kind = "number"
         /\ K!PrintNumber(S, value, base).digits \in 0 .. MaxBits
<1> DEFINE num == IF K!SIGN \in S /\ K!Signed(value, MaxBits) < 0
                  THEN K!Unsigned(-value, MaxBits) ELSE value
<1>1. num \in Nat /\ num < K!Pow2[MaxBits]
  <2>1. -value \in Int /\ MaxBits \in Nat
    BY PartsAssumption
  <2>2. K!Unsigned(-value, MaxBits) \in Nat /\ K!Unsigned(-value, MaxBits) < K!Pow2[MaxBits]
    BY <2>1, UnsignedIs
  <2> QED BY <2>2
<1>2. K!PrintNumber(S, value, base).kind = "number"
      /\ K!PrintNumber(S, value, base).digits = K!Ksprintn(num, base)
  BY DEF K!PrintNumber, K!Number
<1> HIDE DEF num
<1>3. K!Ksprintn(num, base) \in 1 .. MaxBits
  <2>1. MaxBits - 1 \in Nat /\ (MaxBits - 1) + 1 = MaxBits
    BY PartsAssumption
  <2>2. num < K!Pow2[(MaxBits - 1) + 1]
    BY <1>1, <2>1
  <2>3. K!Ksprintn(num, base) \in 1 .. (MaxBits - 1) + 1
    BY <1>1, <2>1, <2>2, KsprintnFits
  <2> QED BY <2>1, <2>3
<1> QED BY <1>2, <1>3, PartsAssumption

(* printf(3)'s number, by the fields of the directive that it depends on.  *)
Shown(left, zero, prec, w, v, base, sharp) ==
  LET neg    == v < 0
      num    == IF neg THEN -v ELSE v
      n      == K!Ksprintn(num, base)
      prefix == IF sharp /\ num # 0
                THEN (CASE base = 16 -> 2 [] base = 8 -> 1 [] OTHER -> 0) ELSE 0
      used   == prefix + n + (IF neg THEN 1 ELSE 0)
      zeros  == IF zero /\ ~left /\ prec = K!NoPrec
                THEN K!Larger(w - used, 0) ELSE K!Larger(prec - n, 0)
      pad    == K!Larger(w - used - zeros, 0)
  IN  K!Number(IF left THEN 0 ELSE pad, neg, prefix, zeros, n, num, IF left THEN pad ELSE 0)

(* The number that is printed is the one that was read: sign, prefix,      *)
(* zeros, digits and padding are printf's.                                 *)
LEMMA SamePrint ==
  ASSUME Known, d.width \in Nat, d.prec \in Nat \/ d.prec = K!NoPrec, dwidth \in Int,
         NEW S, K!NEG \notin S, K!LADJUST \in S <=> d.left,
         NEW sharp, K!SHARPFLAG \in S <=> sharp,
         NEW v \in Int, NEW value \in Nat, value < K!Pow2[MaxBits], NEW base \in {8, 10, 16},
         \/ K!SIGN \notin S /\ value = v
         \/ /\ K!SIGN \in S /\ value = K!Unsigned(v, MaxBits)
            /\ -K!Pow2[MaxBits - 1] <= v /\ v < K!Pow2[MaxBits - 1],
         ~(d.zero /\ ~d.left /\ d.prec # K!NoPrec)
  PROVE  K!PrintNumber(S, value, base) = Shown(d.left, d.zero, d.prec, d.width, v, base, sharp)
<1> DEFINE negative == K!SIGN \in S /\ K!Signed(value, MaxBits) < 0
           num == IF negative THEN K!Unsigned(-value, MaxBits) ELSE value
           neg == v < 0
           abs == IF neg THEN -v ELSE v
           n == K!Ksprintn(abs, base)
           sign == IF neg THEN 1 ELSE 0
           pfx == IF sharp /\ abs # 0
                  THEN (CASE base = 16 -> 2 [] base = 8 -> 1 [] OTHER -> 0) ELSE 0
           precis == IF K!LADJUST \notin S /\ padc = "0" THEN width - (pfx + sign) ELSE dwidth
           pad == K!Larger(width - ((pfx + sign) + K!Larger(precis, n)), 0)
           used == pfx + n + sign
           zeros == IF d.zero /\ ~d.left /\ d.prec = K!NoPrec
                    THEN K!Larger(d.width - used, 0) ELSE K!Larger(d.prec - n, 0)
           spaces == K!Larger(d.width - used - zeros, 0)
<1>1. (negative <=> neg) /\ num = abs
  <2>1. CASE K!SIGN \notin S /\ value = v
    BY <2>1
  <2>2. CASE /\ K!SIGN \in S /\ value = K!Unsigned(v, MaxBits)
             /\ -K!Pow2[MaxBits - 1] <= v /\ v < K!Pow2[MaxBits - 1]
    <3>1. /\ K!Signed(value, MaxBits) = v
          /\ v < 0 => K!Unsigned(-value, MaxBits) = -v
          /\ 0 <= v => value = v
      BY <2>2, SignedBack, PartsAssumption
    <3> QED BY <2>2, <3>1
  <2> QED BY <2>1, <2>2
<1>2. n \in Nat /\ n >= 1
  <2>1. MaxBits - 1 \in Nat /\ (MaxBits - 1) + 1 = MaxBits /\ MaxBits \in Nat
    BY PartsAssumption
  <2>2. num \in Nat /\ num < K!Pow2[MaxBits]
    <3>1. -value \in Int
      OBVIOUS
    <3>2. K!Unsigned(-value, MaxBits) \in Nat /\ K!Unsigned(-value, MaxBits) < K!Pow2[MaxBits]
      BY <2>1, <3>1, UnsignedIs
    <3> QED BY <3>2
  <2> HIDE DEF num, abs
  <2>3. abs < K!Pow2[(MaxBits - 1) + 1] /\ abs \in Nat
    BY <1>1, <2>1, <2>2
  <2>4. K!Ksprintn(abs, base) \in 1 .. (MaxBits - 1) + 1
    BY <2>1, <2>2, <2>3, KsprintnFits
  <2> QED BY <2>1, <2>4
<1>3. K!Prefix(S, base, num) = pfx
  BY <1>1 DEF K!Prefix
<1>4. /\ K!PrintNumber(S, value, base)
            = K!Number(IF K!LADJUST \in S THEN 0 ELSE pad, neg, pfx,
                       K!Larger(precis - n, 0), n, abs,
                     IF K!LADJUST \in S THEN pad ELSE 0)
  <2>1. (negative \/ K!NEG \in S) = neg
    BY <1>1
  <2>2. (IF negative \/ K!NEG \in S THEN 1 ELSE 0) = sign
    BY <2>1
  <2>3. K!PrintNumber(S, value, base)
          = LET tmp    == K!Prefix(S, base, num) + (IF negative \/ K!NEG \in S THEN 1 ELSE 0)
                prec   == IF K!LADJUST \notin S /\ padc = "0" THEN width - tmp ELSE dwidth
                blanks == K!Larger(width - (tmp + K!Larger(prec, K!Ksprintn(num, base))), 0)
            IN  K!Number(IF K!LADJUST \in S THEN 0 ELSE blanks,
                         negative \/ K!NEG \in S, K!Prefix(S, base, num),
                       K!Larger(prec - K!Ksprintn(num, base), 0), K!Ksprintn(num, base), num,
                       IF K!LADJUST \in S THEN blanks ELSE 0)
    BY Zenon DEF K!PrintNumber
  <2> HIDE DEF negative, num, neg, abs, pfx
  <2> QED BY <1>1, <1>3, <2>1, <2>2, <2>3, Zenon
<1>5. Shown(d.left, d.zero, d.prec, d.width, v, base, sharp)
        = K!Number(IF d.left THEN 0 ELSE spaces, neg, pfx, zeros, n, abs,
                   IF d.left THEN spaces ELSE 0)
  BY Zenon DEF Shown
<1>6. pfx \in Nat /\ sign \in Nat
  OBVIOUS
<1> HIDE DEF negative, num, n, neg, abs, pfx, sign
<1>7. (padc = "0" <=> d.zero) /\ width = d.width
      /\ (d.prec = K!NoPrec => dwidth <= 0) /\ (d.prec # K!NoPrec => dwidth = d.prec)
  BY DEF Known
<1>8. K!Larger(precis - n, 0) = zeros /\ pad = spaces
  BY <1>2, <1>6, <1>7 DEF K!Larger, K!NoPrec
<1> HIDE DEF precis, pad, zeros, spaces
<1>9. (IF K!LADJUST \in S THEN 0 ELSE pad) = (IF d.left THEN 0 ELSE spaces)
      /\ (IF K!LADJUST \in S THEN pad ELSE 0) = (IF d.left THEN spaces ELSE 0)
  BY <1>8
<1> QED BY <1>4, <1>5, <1>8, <1>9

(* A value read as signed fits into intmax_t.                              *)
LEMMA SignedFits ==
  ASSUME NEW a \in Int, NEW len
  PROVE  /\ K!Signed(a, K!BitsOf(len)) \in Int /\ K!Signed(a, K!BitsOf(len)) < K!Pow2[MaxBits - 1]
         /\ -K!Pow2[MaxBits - 1] <= K!Signed(a, K!BitsOf(len))
<1> DEFINE k == K!BitsOf(len)
<1>1. k \in Nat \ {0} /\ k <= MaxBits /\ MaxBits \in Nat
  BY PartsAssumption DEF K!BitsOf
<1> HIDE DEF k
<1>2. k - 1 \in Nat /\ MaxBits - k \in Nat /\ (k - 1) + (MaxBits - k) = MaxBits - 1
      /\ MaxBits - 1 \in Nat
  BY <1>1
<1>3. K!Pow2[k - 1] <= K!Pow2[MaxBits - 1]
  BY <1>2, Pow2Mono
<1>4. K!Pow2[k - 1] \in Nat /\ K!Pow2[MaxBits - 1] \in Nat
  BY <1>2, Pow2Nat
<1>5. K!Signed(a, k) \in Int /\ -K!Pow2[k - 1] <= K!Signed(a, k) /\ K!Signed(a, k) < K!Pow2[k - 1]
  BY <1>1, SignedIs
<1>6. K!Signed(a, k) \in Int /\ -K!Pow2[MaxBits - 1] <= K!Signed(a, k)
      /\ K!Signed(a, k) < K!Pow2[MaxBits - 1]
  BY <1>3, <1>4, <1>5
<1> QED BY <1>6 DEF k

(* A converted number's digits fit the buffer.                             *)
LEMMA ConvertedFits ==
  ASSUME KvTypes, NEW conv \in K!Conversions, NEW a \in Int
  PROVE  K!Converted(conv, a).kind = "number" /\ K!Converted(conv, a).digits \in 0 .. MaxBits
<1>1. radix \in Nat /\ radix >= 2
  BY DEF KvTypes, K!TypeOK
<1>2. CASE conv \in {"d", "i"}
  BY <1>2, ReadFits, PrintFits DEF K!Converted
<1>3. CASE conv = "y"
  BY <1>3, ReadFits, PrintFits DEF K!Converted
<1>4. CASE conv = "r"
  BY <1>1, <1>4, ReadFits, PrintFits DEF K!Converted
<1>5. CASE conv = "u"
  BY <1>5, ReadFits, PrintFits DEF K!Converted
<1>6. CASE conv \in {"x", "X"}
  BY <1>6, ReadFits, PrintFits DEF K!Converted
<1>7. CASE conv = "o"
  BY <1>7, ReadFits, PrintFits DEF K!Converted
<1>8. CASE conv = "p"
  BY <1>8, ReadFits, PrintFits DEF K!Converted
<1> QED BY <1>2, <1>3, <1>4, <1>5, <1>6, <1>7, <1>8 DEF K!Conversions

(* What is printed, with the directive before it is closed.                *)
LEMMA ConvertedRight ==
  ASSUME Known, d.width \in Nat, d.prec \in Nat \/ d.prec = K!NoPrec, dwidth \in Int,
         d.len \in Lengths \ {"ll"}, NEW a \in Int,
         NEW conv \in {"d", "i", "u", "x", "X", "o", "p"}, conv = "p" => d.len = "none",
         ~(d.len = "hh" /\ conv \in K!SignedConv), ~(d.len = "t" /\ conv \notin K!SignedConv),
         ~(d.zero /\ ~d.left /\ d.prec # K!NoPrec)
  PROVE  K!Converted(conv, a) =
           Shown(d.left, d.zero, d.prec, d.width,
                 IF conv \in K!SignedConv THEN K!Signed(a, K!BitsOf(d.len))
                 ELSE K!Unsigned(a, K!BitsOf(d.len)),
                 K!Base(conv), IF conv = "p" THEN d.width = 0 ELSE d.sharp)
<1> USE DEF K!LFLAG, K!QFLAG, K!SHARPFLAG, K!NEG, K!SIGN, K!LADJUST
<1>1. K!NEG \notin flags /\ (K!LADJUST \in flags <=> d.left)
      /\ (K!SHARPFLAG \in flags <=> d.sharp)
      /\ width = d.width
  BY DEF Known
<1>2. CASE conv \in {"d", "i"}
  <2> DEFINE S == flags \cup {K!SIGN}
             v == K!Signed(a, K!BitsOf(d.len))
  <2>1. K!Converted(conv, a) = K!PrintNumber(S, K!HandleSign(a), 10) /\ K!Base(conv) = 10
        /\ conv # "p"
    BY <1>2 DEF K!Converted, K!Base
  <2>2. K!NEG \notin S /\ (K!LADJUST \in S <=> d.left) /\ (K!SHARPFLAG \in S <=> d.sharp)
        /\ K!SIGN \in S
    BY <1>1
  <2>3. K!HandleSign(a) = K!Unsigned(v, MaxBits)
    BY <1>2, ReadRight DEF K!SignedConv
  <2>4. v \in Int /\ -K!Pow2[MaxBits - 1] <= v /\ v < K!Pow2[MaxBits - 1]
    BY SignedFits
  <2>5. K!HandleSign(a) \in Nat /\ K!HandleSign(a) < K!Pow2[MaxBits]
    BY ReadFits
  <2> HIDE DEF S, v
  <2>6. K!PrintNumber(S, K!HandleSign(a), 10) = Shown(d.left, d.zero, d.prec, d.width, v, 10,
        d.sharp)
    BY <2>2, <2>3, <2>4, <2>5, SamePrint
  <2> QED BY <1>2, <2>1, <2>6 DEF v, K!SignedConv
<1>3. CASE conv \in {"u", "x", "X", "o"}
  <2> DEFINE S == flags \ {K!SIGN}
             v == K!Unsigned(a, K!BitsOf(d.len))
             b == K!Base(conv)
  <2>1. K!Converted(conv, a) = K!PrintNumber(S, K!HandleNosign(a), b) /\ b \in {8, 10, 16}
        /\ conv # "p" /\ conv \notin K!SignedConv
    BY <1>3 DEF K!Converted, K!Base, K!SignedConv
  <2>2. K!NEG \notin S /\ (K!LADJUST \in S <=> d.left) /\ (K!SHARPFLAG \in S <=> d.sharp)
        /\ K!SIGN \notin S
    BY <1>1
  <2>3. K!HandleNosign(a) = v
    BY <2>1, ReadRight
  <2>4. v \in Nat /\ v < K!Pow2[MaxBits] /\ v \in Int
    BY <2>3, ReadFits
  <2> HIDE DEF S, v, b
  <2>5. K!PrintNumber(S, v, b) = Shown(d.left, d.zero, d.prec, d.width, v, b, d.sharp)
    BY <2>1, <2>2, <2>4, SamePrint
  <2> QED BY <2>1, <2>3, <2>5 DEF v, b
<1>4. CASE conv = "p"
  <2> DEFINE S == (IF width = 0 THEN flags \cup {K!SHARPFLAG}
                  ELSE flags \ {K!SHARPFLAG}) \ {K!SIGN}
             v == K!Unsigned(a, IntBits)
             sharp == d.width = 0
  <2>1. K!Converted(conv, a) = K!PrintNumber(S, v, 16) /\ K!Base(conv) = 16
        /\ conv \notin K!SignedConv
        /\ K!BitsOf(d.len) = IntBits
    BY <1>4 DEF K!Converted, K!Base, K!SignedConv, K!BitsOf
  <2>2. K!NEG \notin S /\ (K!LADJUST \in S <=> d.left) /\ (K!SHARPFLAG \in S <=> sharp)
        /\ K!SIGN \notin S
    BY <1>1
  <2>3. v \in Nat /\ v < K!Pow2[MaxBits] /\ v \in Int
    BY ReadFits
  <2> HIDE DEF S, v, sharp
  <2>4. K!PrintNumber(S, v, 16) = Shown(d.left, d.zero, d.prec, d.width, v, 16, sharp)
    BY <2>2, <2>3, SamePrint
  <2> QED BY <1>4, <2>1, <2>4 DEF v, sharp
<1> QED BY <1>2, <1>3, <1>4

(* A conversion closes the directive.                                      *)
LEMMA Closing ==
  ASSUME KvInv, pc = "reswitch", pc' = "text",
         NEW conv, NEW a \in Int, d' = [d EXCEPT !.stage = "done", !.conv = conv], arg' = a,
         UNCHANGED <<padc, width, dwidth, radix>>, flags' \subseteq 0 .. 31,
         lost' = FALSE \/ K!STOP \in flags',
         lost' \in BOOLEAN, out'.kind = "number" => out'.digits \in 0 .. MaxBits,
         NEW taken \in {<<>>, <<"word">>, <<"dword">>}, took' = took \o taken,
         Known /\ d.len # "ll" => taken = IF conv \in {"%", "?"} THEN <<>>
         ELSE <<IF conv = "p" THEN "word" ELSE K!TypeOf(d.len)>>,
         K!NumbersAsPrintf', K!StringsAsPrintf'
  PROVE  KvInv'
<1>1. /\ DOMAIN d' = DirFields /\ d'.stage = "done" /\ d'.conv = conv
      /\ \A x \in DirFields \ {"stage", "conv"} : d'[x] = d[x]
  BY UnderWay DEF DirFields
<1>2. took' \in Seq({"word", "dword"})
  <2>1. took \in Seq({"word", "dword"})
    BY UnderWay
  <2>2. taken \in Seq({"word", "dword"})
    <3>1. <<>> \in Seq({"word", "dword"})
      OBVIOUS
    <3>2. <<"word">> \in Seq({"word", "dword"})
      OBVIOUS
    <3>3. <<"dword">> \in Seq({"word", "dword"})
      OBVIOUS
    <3> QED BY <3>1, <3>2, <3>3, Zenon
  <2> QED BY <2>1, <2>2, ConcatProperties
<1>3. K!TypeOK'
  BY <1>2 DEF KvInv, KvTypes, K!TypeOK
<1>4. lost' => K!STOP \in flags'
  OBVIOUS
<1>5. KvTypes'
  BY <1>1, <1>3, <1>4, UnderWay DEF KvTypes, DirFields
<1>6. K!ArgsInStep'
  <2>1. ASSUME Exact' PROVE took' = K!Wanted'
    <3>1. Known /\ d.len # "ll"
      BY <1>1, <2>1, UnderWay DEF Exact, DirFields
    <3>2. took' = Stars(d.stars) \o taken
      BY <3>1 DEF Known
    <3>3. K!Wanted' = Stars(d.stars) \o taken
      BY <1>1, <3>1 DEF K!Wanted, Stars, DirFields
    <3> QED BY <3>2, <3>3
  <2> QED BY <2>1 DEF K!ArgsInStep, K!ArgsMatch, Exact
<1> QED BY <1>5, <1>6 DEF KvInv

(* A number is converted.                                                  *)
LEMMA NumberStep == ASSUME KvInv, NEW conv \in K!Conversions, K!ConvertNumber(conv) PROVE KvInv'
<1>1. PICK a \in Values : out' = K!Converted(conv, a) /\ K!Done(conv, a)
  BY DEF K!ConvertNumber
<1>2. /\ pc = "reswitch" /\ (conv = "p" => d.len = "none") /\ pc' = "text"
      /\ took' = Append(took, K!Taken(conv)) /\
         UNCHANGED <<flags, padc, width, dwidth, radix, lost>>
      /\ d' = [d EXCEPT !.stage = "done", !.conv = conv] /\ arg' = a
  BY <1>1 DEF K!ConvertNumber, K!Done
<1>3. a \in Int
  BY PartsAssumption
<1>4. out'.kind = "number" /\ out'.digits \in 0 .. MaxBits
  BY <1>1, <1>3, ConvertedFits DEF KvInv
<1>5. K!Taken(conv) \in {"word", "dword"} /\ took' = took \o <<K!Taken(conv)>>
  <2>1. K!Taken(conv) \in {"word", "dword"} /\ took \in Seq({"word", "dword"})
    BY <1>2, UnderWay DEF K!Taken
  <2> QED BY <1>2, <2>1, AppendIsConcat
<1>6. Known /\ d.len # "ll" => K!Taken(conv) = (IF conv = "p" THEN "word" ELSE K!TypeOf(d.len))
  BY DEF K!Taken, K!TypeOf, Known
<1>7. K!NumbersAsPrintf'
  <2>1. SUFFICES ASSUME K!Ordinary', d'.len # "ll", ~d'.negwidth PROVE out' = K!Reference'
    BY DEF K!NumbersAsPrintf
  <2>2. /\ d'.conv = conv
        /\ \A x \in DirFields \ {"stage", "conv"} : d'[x] = d[x]
    BY <1>2, UnderWay DEF DirFields
  <2>3. Known
    BY <1>2, <2>1, <2>2, UnderWay DEF Exact, DirFields
  <2>4. /\ conv \in {"d", "i", "u", "x", "X", "o", "p"}
        /\ ~(d.len = "hh" /\ conv \in K!SignedConv) /\ ~(d.len = "t" /\ conv \notin K!SignedConv)
        /\ ~(d.zero /\ ~d.left /\ d.prec # K!NoPrec)
    BY <2>1, <2>2 DEF K!Ordinary, K!IsSigned, K!Conversions, DirFields
  <2> DEFINE v == IF conv \in K!SignedConv THEN K!Signed(a, K!BitsOf(d.len))
                  ELSE K!Unsigned(a, K!BitsOf(d.len))
             sharp == IF conv = "p" THEN d.width = 0 ELSE d.sharp
  <2>5. out' = Shown(d.left, d.zero, d.prec, d.width, v, K!Base(conv), sharp)
    BY <1>1, <1>2, <1>3, <2>1, <2>2, <2>3, <2>4, UnderWay, ConvertedRight DEF DirFields
  <2>6. K!Reference' = Shown(d.left, d.zero, d.prec, d.width, v, K!Base(conv), sharp)
    <3>1. K!Reference' = Shown(d'.left, d'.zero, d'.prec, d'.width,
                             IF d'.conv \in K!SignedConv THEN K!Signed(arg', K!BitsOf(d'.len))
                             ELSE K!Unsigned(arg', K!BitsOf(d'.len)),
                             K!Base(d'.conv), IF d'.conv = "p" THEN d'.width = 0 ELSE d'.sharp)
      BY Zenon DEF K!Reference, Shown
    <3>2. /\ d'.left = d.left /\ d'.zero = d.zero /\ d'.prec = d.prec /\ d'.width = d.width
          /\ d'.len = d.len /\ d'.sharp = d.sharp
      BY <2>2 DEF DirFields
    <3>3. /\ (IF d'.conv \in K!SignedConv THEN K!Signed(arg', K!BitsOf(d'.len))
              ELSE K!Unsigned(arg', K!BitsOf(d'.len))) = v
          /\ (IF d'.conv = "p" THEN d'.width = 0 ELSE d'.sharp) = sharp
      BY <1>2, <2>2, <3>2
    <3> HIDE DEF v, sharp
    <3> QED BY <2>2, <3>1, <3>2, <3>3
  <2> QED BY <2>5, <2>6
<1>8. K!StringsAsPrintf'
  BY <1>4 DEF K!StringsAsPrintf
<1>9. lost' \in BOOLEAN /\ lost' = FALSE
  BY <1>2 DEF KvInv, KvTypes, K!TypeOK
<1>10. conv \notin {"%", "?"}
  BY DEF K!Conversions
<1>11. flags' \subseteq 0 .. 31
  BY <1>2, UnderWay
<1> DEFINE taken == <<K!Taken(conv)>>
<1>12. taken \in {<<>>, <<"word">>, <<"dword">>}
  BY <1>5
<1>13. Known /\ d.len # "ll" => taken = IF conv \in {"%", "?"} THEN <<>>
       ELSE <<IF conv = "p" THEN "word" ELSE K!TypeOf(d.len)>>
  BY <1>6, <1>10
<1> HIDE DEF taken
<1> QED BY <1>2, <1>3, <1>4, <1>5, <1>7, <1>8, <1>9, <1>11, <1>12, <1>13, Closing DEF taken

(* A string is converted.                                                  *)
LEMMA StringStep == ASSUME KvInv, K!ConvertString PROVE KvInv'
<1>1. PICK a \in StrLen :
       LET n   == IF K!DOT \notin flags THEN a ELSE IF dwidth < a THEN K!Larger(dwidth, 0) ELSE a
           pad == K!Larger(width - n, 0)
       IN  /\ out' = IF K!LADJUST \in flags THEN K!Str(0, n, pad) ELSE K!Str(pad, n, 0)
           /\ K!Done("s", a)
  BY DEF K!ConvertString
<1>2. /\ pc = "reswitch" /\ d.len = "none" /\ pc' = "text" /\ took' = Append(took, "word")
      /\ UNCHANGED <<flags, padc, width, dwidth, radix, lost>>
      /\ d' = [d EXCEPT !.stage = "done", !.conv = "s"] /\ arg' = a
  BY <1>1 DEF K!ConvertString, K!Done
<1>3. a \in Nat /\ a \in Int
  BY PartsAssumption
<1>4. out'.kind = "string"
  BY <1>1 DEF K!Str
<1>5. took' = took \o <<"word">>
  <2>1. took \in Seq({"word", "dword"})
    BY <1>2, UnderWay
  <2> QED BY <1>2, <2>1, AppendIsConcat
<1>6. K!NumbersAsPrintf'
  BY <1>4 DEF K!NumbersAsPrintf, K!Ordinary
<1>7. K!StringsAsPrintf'
  <2>1. SUFFICES ASSUME ~d'.zero, ~d'.negwidth, ~d'.negprec PROVE out' = K!StrReference'
    BY DEF K!StringsAsPrintf
  <2>2. /\ d'.left = d.left /\ d'.prec = d.prec /\ d'.width = d.width
        /\ ~d.negwidth /\ ~d.negprec
    BY <1>2, <2>1, UnderWay DEF DirFields
  <2>3. Known
    BY <1>2, <2>2, UnderWay DEF Exact
  <2> DEFINE n   == IF K!DOT \notin flags THEN a
                    ELSE IF dwidth < a THEN K!Larger(dwidth, 0) ELSE a
             pad == K!Larger(width - n, 0)
             m   == IF d.prec # K!NoPrec /\ d.prec < a THEN d.prec ELSE a
  <2>4. n = m
    BY <1>2, <1>3, <2>2, <2>3, UnderWay DEF Known, K!Larger, K!NoPrec
  <2>5. K!StrReference' = K!Str(IF d'.left THEN 0 ELSE K!Larger(d'.width - m, 0), m,
                            IF d'.left THEN K!Larger(d'.width - m, 0) ELSE 0)
    BY <1>2, <2>2 DEF K!StrReference
  <2>6. out' = IF K!LADJUST \in flags THEN K!Str(0, n, pad) ELSE K!Str(pad, n, 0)
    BY <1>1, Zenon
  <2> HIDE DEF n, m
  <2>7. (K!LADJUST \in flags <=> d.left) /\ width = d.width
    BY <2>3 DEF Known
  <2> QED BY <2>2, <2>4, <2>5, <2>6, <2>7
<1>8. lost' \in BOOLEAN /\ lost' = FALSE
  BY <1>2 DEF KvInv, KvTypes, K!TypeOK
<1>9. flags' \subseteq 0 .. 31
  BY <1>2, UnderWay
<1>10. <<"word">> = IF "s" \in {"%", "?"} THEN <<>>
       ELSE <<IF "s" = "p" THEN "word" ELSE K!TypeOf(d.len)>>
  BY <1>2 DEF K!TypeOf
<1> QED BY <1>2, <1>3, <1>4, <1>5, <1>6, <1>7, <1>8, <1>9, <1>10, Closing

(* The conversions that print no number and no padded string.              *)
LEMMA PlainStep == ASSUME KvInv, K!ConvertChar \/ K!ConvertPercent \/ K!Unknown PROVE KvInv'
<1>1. PICK conv \in {"c", "%", "?"} :
        /\ d' = [d EXCEPT !.stage = "done", !.conv = conv] /\ arg' = 0
        /\ took' = IF conv = "c" THEN Append(took, "word") ELSE took
        /\ conv = "c" => d.len = "none"
  BY DEF K!ConvertChar, K!ConvertPercent, K!Unknown, K!Done
<1>2. /\ pc = "reswitch" /\ pc' = "text" /\ UNCHANGED <<padc, width, dwidth, radix, out>>
      /\ flags' = flags \/ flags' = flags \cup {K!STOP}
  BY DEF K!ConvertChar, K!ConvertPercent, K!Unknown
<1>3. ~lost /\ out' = K!Nothing
  BY <1>2 DEF KvInv, KvTypes
<1>4. lost' \in BOOLEAN /\ (lost' = FALSE \/ K!STOP \in flags')
  <2>1. lost = FALSE
    BY <1>3 DEF KvInv, KvTypes, K!TypeOK
  <2>2. CASE K!Unknown
    BY <2>2 DEF K!Unknown
  <2>3. CASE lost' = lost
    BY <2>1, <2>3
  <2> QED BY <2>2, <2>3 DEF K!ConvertChar, K!ConvertPercent
<1>5. flags' \subseteq 0 .. 31
  <2>1. flags \subseteq 0 .. 31
    BY <1>2, UnderWay
  <2>2. flags \cup {K!STOP} \subseteq 0 .. 31
    BY <2>1 DEF K!STOP
  <2> QED BY <1>2, <2>1, <2>2
<1>6. K!NumbersAsPrintf' /\ K!StringsAsPrintf'
      /\ (out'.kind = "number" => out'.digits \in 0 .. MaxBits)
  BY <1>3 DEF K!NumbersAsPrintf, K!Ordinary, K!StringsAsPrintf, K!Nothing
<1> DEFINE taken == IF conv = "c" THEN <<"word">> ELSE <<>>
<1>7. took' = took \o taken
  <2>1. took \in Seq({"word", "dword"})
    BY <1>2, UnderWay
  <2>2. took \o <<>> = took /\ Append(took, "word") = took \o <<"word">>
    BY <2>1, AppendIsConcat, ConcatEmptySeq
  <2> QED BY <1>1, <2>2
<1>8. taken = IF conv \in {"%", "?"} THEN <<>>
      ELSE <<IF conv = "p" THEN "word" ELSE K!TypeOf(d.len)>>
  BY <1>1 DEF K!TypeOf
<1>9. taken \in {<<>>, <<"word">>, <<"dword">>}
  OBVIOUS
<1> HIDE DEF taken
<1>10. 0 \in Int
  OBVIOUS
<1> QED BY <1>1, <1>2, <1>4, <1>5, <1>6, <1>7, <1>8, <1>9, <1>10, Closing

(* Every step keeps the invariant.                                         *)
LEMMA KvStep == ASSUME KvInv, [K!Next]_(K!vars) PROVE KvInv'
<1>1. CASE UNCHANGED K!vars
  <2>0. /\ pc' = pc /\ flags' = flags /\ padc' = padc /\ width' = width /\ dwidth' = dwidth
        /\ radix' = radix /\ took' = took /\ lost' = lost /\ out' = out /\ d' = d /\ arg' = arg
    BY <1>1 DEF K!vars
  <2>1. KvTypes'
    BY <2>0 DEF KvInv, KvTypes, K!TypeOK, LengthLast
  <2>2. (pc = "reswitch" /\ Exact => Known)'
    BY <2>0 DEF KvInv, Exact, Known
  <2>3. K!Reference' = K!Reference /\ K!StrReference' = K!StrReference /\ K!Wanted' = K!Wanted
    <3>1. K!Reference' = K!Reference
      <4>1. K!Reference = Shown(d.left, d.zero, d.prec, d.width,
                              IF d.conv \in K!SignedConv THEN K!Signed(arg, K!BitsOf(d.len))
                              ELSE K!Unsigned(arg, K!BitsOf(d.len)),
                              K!Base(d.conv), IF d.conv = "p" THEN d.width = 0 ELSE d.sharp)
        BY Zenon DEF K!Reference, Shown
      <4>2. K!Reference' = Shown(d'.left, d'.zero, d'.prec, d'.width,
                               IF d'.conv \in K!SignedConv THEN K!Signed(arg', K!BitsOf(d'.len))
                               ELSE K!Unsigned(arg', K!BitsOf(d'.len)),
                               K!Base(d'.conv), IF d'.conv = "p" THEN d'.width = 0 ELSE d'.sharp)
        BY Zenon DEF K!Reference, Shown
      <4> QED BY <2>0, <4>1, <4>2
    <3>2. K!StrReference' = K!StrReference
      BY <2>0 DEF K!StrReference
    <3>3. K!Wanted' = K!Wanted
      BY <2>0 DEF K!Wanted
    <3> QED BY <3>1, <3>2, <3>3
  <2>4. K!ArgsInStep' /\ K!NumbersAsPrintf' /\ K!StringsAsPrintf'
    BY <2>0, <2>3 DEF KvInv, K!ArgsInStep, K!ArgsMatch, K!NumbersAsPrintf, K!Ordinary,
       K!IsSigned, K!StringsAsPrintf
  <2> QED BY <2>1, <2>2, <2>4 DEF KvInv
<1>2. CASE K!Next
  BY <1>2, PercentStep, ReturnStep, SharpStep, PlusStep, MinusStep, ZeroStep, DotStep,
     DigitsStep,
     StarWidthStep, StarPrecStep, JztStep, HStep, LStep, NumberStep, StringStep, PlainStep
     DEF K!Next, K!Reswitch
<1> QED BY <1>1, <1>2

(* It says that the output is printf's and the arguments stay in step.     *)
LEMMA KvMeans == ASSUME KvInv PROVE K!PrintsAsPrintf /\ K!ArgsInStep
<1>1. K!BufferFits
  BY PartsAssumption DEF KvInv, KvTypes, K!BufferFits, K!MAXNBUF
<1>2. K!TypeOK /\ K!StopsAtUnknown /\ K!NumbersAsPrintf /\ K!StringsAsPrintf /\ K!ArgsInStep
  BY DEF KvInv, KvTypes, K!StopsAtUnknown
<1> QED BY <1>1, <1>2 DEF K!PrintsAsPrintf

(***************************************************************************)
(* The parts together                                                      *)
(***************************************************************************)
(* A step of the whole is one of a part, and the others stay.              *)
LEMMA PartSteps ==
  [PartsNext]_<<part, vars, printVars, excVars>> =>
    [Next]_vars /\ [K!Next]_(K!vars) /\ [E!Next]_(E!vars)
  BY DEF PartsNext, printVars, excVars, K!vars, E!vars

(* Every directive is printed as printf(3) prints it, but for those with   *)
(* ll or a negative width argument, whatever the widths of the C types,    *)
(* the values, the lengths and the order of the directives.                *)
THEOREM PrintsLikePrintf == PartsSpec => []PrintsAsPrintf
<1>1. PartsInit => KvInv
  BY KvInit DEF PartsInit
<1>2. KvInv /\ [PartsNext]_<<part, vars, printVars, excVars>> => KvInv'
  BY KvStep, PartSteps
<1>3. KvInv => PrintsAsPrintf
  BY KvMeans DEF PrintsAsPrintf
<1> QED BY <1>1, <1>2, <1>3, PTL DEF PartsSpec

(* va_arg() takes the arguments that the caller passed for the directive,  *)
(* so that the next directive finds its own.                               *)
THEOREM ArgumentsStayInStep == PartsSpec => []ArgsInStep
<1>1. PartsInit => KvInv
  BY KvInit DEF PartsInit
<1>2. KvInv /\ [PartsNext]_<<part, vars, printVars, excVars>> => KvInv'
  BY KvStep, PartSteps
<1>3. KvInv => ArgsInStep
  BY KvMeans DEF ArgsInStep
<1> QED BY <1>1, <1>2, <1>3, PTL DEF PartsSpec

(* The inductive invariant of the exceptions, of whatever kinds return.    *)
THEOREM ExceptionsInvariant == PartsSpec => []ExcInv
<1>1. PartsInit => ExcInv
  BY ExcInit DEF PartsInit
<1>2. ExcInv /\ [PartsNext]_<<part, vars, printVars, excVars>> => ExcInv'
  BY ExcStep, PartSteps
<1> QED BY <1>1, <1>2, PTL DEF PartsSpec

(* What an SVC, an IRQ or an abort other than an undefined instruction     *)
(* interrupts goes on as it was, and a thread that was switched away from  *)
(* has nothing on the abort stack, for any number of threads.              *)
THEOREM ReturnsAreIntact == PartsSpec => [](E!ReturnsIntact /\ E!AbtStackPrivate)
<1>1. ExcInv => E!ReturnsIntact /\ E!AbtStackPrivate
  BY ExcMeans
<1> QED BY <1>1, ExceptionsInvariant, PTL

(* With the types as well, as long as no undefined instruction returns:    *)
(* where one does, the code's address correction leads outside of Code.    *)
THEOREM ExceptionsAreSound == ASSUME "und" \notin Returning PROVE PartsSpec => []ExceptionsSound
<1>1. ExcInv => ExceptionsSound
  BY ExcMeans DEF ExceptionsSound, E!ExceptionsSound
<1> QED BY <1>1, ExceptionsInvariant, PTL
================================================================================
