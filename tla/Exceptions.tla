------------------------------ MODULE Exceptions ------------------------------
(***************************************************************************)
(* The handlers of thread_vect_table (kern/thread_asm.S) for undefined     *)
(* instructions, system calls, prefetch and data aborts, on one core whose *)
(* threads are interrupted and resumed.  The handlers written in C are any *)
(* that do what kern/thread.h asks of them.                                *)
(*                                                                         *)
(* The registers hold numbers.  Of a mode's banked registers there are lr  *)
(* and spsr; its stack is a sequence with the lowest address first.        *)
(***************************************************************************)
EXTENDS Integers, Sequences, SequencesExt

CONSTANTS Thread,
          Code,       \* addresses of a thread's code
          Tag,        \* what a thread computes: register contents are made from it
          Returning   \* the exceptions whose C handler returns; the others' panics

VARIABLES
  cur,      \* the thread that runs
  reg,      \* the core's registers
  svc, abt, \* the stacks of SVC mode, one per thread, and of abort mode
  ctx,      \* the saved registers of each thread
  frames,   \* history: what each thread was doing when it was interrupted
  broken,   \* history: exceptions that did not return to what they interrupted
  halted

vars == <<cur, reg, svc, abt, ctx, frames, broken, halted>>

(* CPSR: the mode and the I bit                                            *)
USR == 16
SVC == 19
ABT == 23
UND == 27
I   == 128
Masked(mode) == mode + I
Mode == reg["cpsr"] % I

Args == {"r0", "r1", "r2", "r3"}
Gp == Args \cup {"r4", "r5", "ip"}
Banked == {"lr_usr", "lr_svc", "lr_abt", "lr_und", "spsr_svc", "spsr_abt", "spsr_und"}
Reg == Gp \cup Banked \cup {"pc", "cpsr"}
Junk == 0

(* thread_save_state and thread_state_suspend; thread_resume               *)
(* Mutant: user mode registers are not part of the context.                  *)
SavedReg_NoUsr == Gp \cup {"pc", "cpsr", "lr_svc", "spsr_svc"}
SavedReg == Gp \cup {"pc", "cpsr", "lr_usr", "lr_svc", "spsr_svc"}

(* A tag stands for different contents of different registers.             *)
Order == <<"r0", "r1", "r2", "r3", "r4", "r5", "ip", "lr_usr", "lr_svc">>
Computed(tag) == [r \in ToSet(Order) |-> 10 * tag + (CHOOSE k \in DOMAIN Order : Order[k] = r)]

With(f) == [r \in Reg |-> IF r \in DOMAIN f THEN f[r] ELSE reg[r]]
Top == Head(frames[cur])

(* push and pop, lowest register first                                     *)
Held(names) == [k \in DOMAIN names |-> reg[names[k]]]
Loaded(names, sp) == [r \in ToSet(names) |-> sp[CHOOSE k \in DOMAIN names : names[k] = r]]

Init ==
  /\ cur \in Thread
  /\ ctx \in [Thread -> {[r \in SavedReg |-> CASE r = "cpsr" -> m [] r = "pc" -> a [] OTHER -> Junk] :
                         m \in {USR, SVC}, a \in Code}]
  /\ reg = [r \in Reg |-> IF r \in SavedReg THEN ctx[cur][r] ELSE Junk]
  /\ svc = [t \in Thread |-> <<>>] /\ abt = <<>>
  /\ frames = [t \in Thread |-> <<>>]
  /\ broken = {} /\ halted = FALSE

(* A thread's own code, in user mode or in SVC mode                        *)
Work ==
  /\ ~halted /\ frames[cur] = <<>>
  /\ \E tag \in Tag, a \in Code :
       LET c == Computed(tag) IN
       reg' = [r \in Reg |-> IF r = "pc" THEN a
                             ELSE IF r = "lr_svc" /\ Mode = USR THEN reg[r]
                             ELSE IF r \in DOMAIN c THEN c[r] ELSE reg[r]]
  /\ UNCHANGED <<cur, svc, abt, ctx, frames, broken, halted>>

(* thread_irq_handler, and a call that resumes the same or another thread  *)
Irq ==
  /\ ~halted /\ reg["cpsr"] < I
  /\ \E t \in Thread :
       LET now == [ctx EXCEPT ![cur] = [r \in SavedReg |-> reg[r]]] IN
       /\ ctx' = now
       /\ cur' = t
       /\ reg' = [r \in Reg |-> IF r \in SavedReg THEN now[t][r] ELSE reg[r]]
  /\ UNCHANGED <<svc, abt, frames, broken, halted>>

(***************************************************************************)
(* Entry: the processor's part, the prologue, the call of the handler      *)
(***************************************************************************)
Interrupted(kind, back) ==
  frames' = [frames EXCEPT ![cur] =
    <<[kind |-> kind, reg |-> [reg EXCEPT !["pc"] = back], svc |-> svc[cur], abt |-> abt]>> \o @]

(* From user mode: in SVC mode the instruction destroys the caller's lr.   *)
(* That it is in Code bounds pc.                                           *)
Svc ==
  /\ ~halted /\ frames[cur] = <<>> /\ Mode = USR /\ reg["pc"] \in Code
  /\ LET lr == reg["pc"] + 4
         sp == <<reg["cpsr"]>> \o Held(<<"r0", "r1", "r2", "r3", "r4", "r5">>) \o <<lr>> \o svc[cur]
     IN  /\ svc' = [svc EXCEPT ![cur] = sp]
         /\ reg' = With([lr_svc |-> lr, spsr_svc |-> reg["cpsr"], cpsr |-> Masked(SVC), r0 |-> Junk])
  /\ Interrupted("svc", reg["pc"] + 4)
  /\ UNCHANGED <<cur, abt, ctx, broken, halted>>

(* An abort hits a thread or the handler of its system call.               *)
Abortable == ~halted /\ Mode \in {USR, SVC} /\ Len(frames[cur]) < 2

(* push {r0-r3, ip, lr}; push {spsr, r1}; .thread_abort_generic            *)
CallAbort(kind, lr) ==
  LET sp == <<reg["cpsr"], reg["r1"]>> \o Held(<<"r0", "r1", "r2", "r3", "ip">>) \o <<lr>> \o abt IN
  /\ abt' = sp
  /\ Interrupted(kind, reg["pc"])
  /\ UNCHANGED <<cur, svc, ctx, broken, halted>>

(* lr_abt is not what an undefined instruction sets.                       *)
Undef ==
  /\ Abortable
  /\ CallAbort("und", reg["lr_abt"] - 4)
  /\ reg' = With([lr_und |-> reg["pc"] + 4, spsr_und |-> reg["cpsr"],
                  lr_abt |-> Junk, cpsr |-> Masked(ABT), r0 |-> Junk, r1 |-> Junk])

Dabort ==
  /\ Abortable
  /\ CallAbort("dabt", (reg["pc"] + 8) - 8)
  /\ reg' = With([spsr_abt |-> reg["cpsr"], lr_abt |-> Junk, cpsr |-> Masked(ABT),
                  r0 |-> Junk, r1 |-> Junk])

Pabort ==
  /\ Abortable
  /\ CallAbort("pabt", (reg["pc"] + 4) - 4)
  /\ reg' = With([spsr_abt |-> reg["cpsr"], lr_abt |-> Junk, cpsr |-> Masked(ABT),
                  r0 |-> Junk, r1 |-> Junk])

(***************************************************************************)
(* The handlers in C and the way back                                      *)
(***************************************************************************)
(* A C function keeps r4-r11 only; that of a system call may unmask IRQ.   *)
Handler ==
  /\ ~halted /\ frames[cur] # <<>>
  /\ \E masks \in IF Mode = SVC THEN {0, I} ELSE {I} :
       reg' = [r \in Reg |->
                 IF r = "cpsr" THEN Mode + masks
                 ELSE IF r \in Args \cup {"ip", "pc", IF Mode = SVC THEN "lr_svc" ELSE "lr_abt"}
                 THEN Junk ELSE reg[r]]
  /\ UNCHANGED <<cur, svc, abt, ctx, frames, broken, halted>>

(* main_abort()                                                            *)
Panic ==
  /\ ~halted /\ frames[cur] # <<>>
  /\ Top.kind \in {"und", "pabt", "dabt"} \ Returning
  /\ halted' = TRUE
  /\ UNCHANGED <<cur, reg, svc, abt, ctx, frames, broken>>

(* What the interrupted code may rely on; a system call may change ip.     *)
Kept(kind, mode) ==
  (IF kind = "svc" THEN Gp \ {"ip"} ELSE Gp) \cup {"pc", "cpsr", "lr_usr"} \cup
  (IF mode = SVC THEN {"lr_svc", "spsr_svc"} ELSE {})

Back ==
  LET was == Top IN
  /\ frames' = [frames EXCEPT ![cur] = Tail(@)]
  /\ broken' = IF /\ svc'[cur] = was.svc /\ abt' = was.abt
                  /\ \A r \in Kept(was.kind, was.reg["cpsr"] % I) : reg'[r] = was.reg[r]
               THEN broken ELSE broken \cup {was.kind}
  /\ UNCHANGED <<cur, ctx, halted>>

Drop(s, k) == SubSeq(s, k + 1, Len(s))
PopTo(stack, names, spsr) ==
  reg' = [r \in Reg |->
    IF r = "pc" THEN Loaded(names, stack)["lr"]
    ELSE IF r \in {"cpsr", spsr} THEN Loaded(names, stack)["spsr"]
    ELSE IF r \in ToSet(names) THEN Loaded(names, stack)[r]
    ELSE reg[r]]

(* pop spsr; pop {r0-r5, lr}; movs pc, lr                                  *)
SvcReturn ==
  /\ ~halted /\ frames[cur] # <<>> /\ Top.kind = "svc" /\ "svc" \in Returning
  /\ PopTo(svc[cur], <<"spsr", "r0", "r1", "r2", "r3", "r4", "r5", "lr">>, "spsr_svc")
  /\ svc' = [svc EXCEPT ![cur] = Drop(@, 8)]
  /\ UNCHANGED abt
  /\ Back

(* pop {spsr, r1}; pop {r0-r3, ip, lr}; movs pc, lr                        *)
AbortReturn ==
  /\ ~halted /\ frames[cur] # <<>> /\ Top.kind \in Returning \ {"svc"}
  /\ PopTo(abt, <<"spsr", "pad", "r0", "r1", "r2", "r3", "ip", "lr">>, "spsr_abt")
  /\ abt' = Drop(abt, 8)
  /\ UNCHANGED svc
  /\ Back

Stopped == halted /\ UNCHANGED vars

Next ==
  \/ Work \/ Irq
  \/ Svc \/ Undef \/ Dabort \/ Pabort
  \/ Handler \/ Panic \/ SvcReturn \/ AbortReturn
  \/ Stopped

Spec == Init /\ [][Next]_vars
(***************************************************************************)
(* Properties                                                              *)
(***************************************************************************)
(* Types; in a thread or the handler of a system call, pc is in the code.  *)
TypeOK ==
  /\ cur \in Thread
  /\ DOMAIN reg = Reg
  /\ Mode \in {USR, SVC, ABT}
  /\ reg["pc"] \in Code \cup {a + 4 : a \in Code} \cup {Junk}
  /\ Mode = USR => frames[cur] = <<>>
  /\ \A t \in Thread : DOMAIN ctx[t] = SavedReg /\ Len(frames[t]) <= 2
  /\ broken \subseteq {"und", "svc", "pabt", "dabt"}
  /\ halted \in BOOLEAN

(* What a system call or an abort interrupted goes on with the registers   *)
(* and stacks it had: behind the system call, or with the instruction that *)
(* aborted; also if threads changed meanwhile and did the same.            *)
ReturnsIntact == broken \subseteq {"und"}

(* Abort mode has one stack per core: no thread is suspended on it         *)
(* (thread.h:117).                                                         *)
AbtStackPrivate == \A t \in Thread \ {cur} : \A k \in DOMAIN frames[t] : frames[t][k].kind = "svc"

(* Both, with the types.                                                   *)
ExceptionsSound == TypeOK /\ ReturnsIntact /\ AbtStackPrivate
================================================================================
