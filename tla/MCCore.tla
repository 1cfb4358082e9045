-------------------------------- MODULE MCCore --------------------------------
(***************************************************************************)
(* What one core does around its threads, for TLC: the boot (Boot), the    *)
(* secure monitor (Monitor), which takes over where the boot ends, and the *)
(* console (Console), which every part of the code prints to.  They look   *)
(* at different state, so a behaviour is one of the three's, as part says, *)
(* while the others stay in an initial state.                              *)
(*                                                                         *)
(* In Monitor a register's value tells the world that wrote it, the        *)
(* register it was written to, and which of two visits.                    *)
(***************************************************************************)
EXTENDS Monitor, Integers, FiniteSets

CONSTANTS Visits,              \* of Monitor's registers
          StackSize, MaxDeep,  \* of Boot
          CPU, FiqCpu, FiqContext, TxDepth, RxDepth, RxTrigger, MaxLen   \* of Console

ASSUME CoreAssumption == StackSize \in Nat /\ MaxDeep \in Nat

Tagged(w) == {[r \in Reg |-> <<w, r, g>>] : g \in Visits}
MCNsecContents == Tagged("nsec")
MCSecContents == Tagged("sec")
MCZero == <<"bss", "none", 0>>
MCJunk == <<"junk", "none", 0>>
MCNsecEntry == <<"entry", "ret", 0>>
MCHandleFiq == <<"fiq", "r0", 0>>
MCVal == {MCZero, MCJunk, MCNsecEntry, MCHandleFiq}
           \cup ({"nsec", "sec"} \X Reg \X Visits)

VARIABLES
  part,                                                                 \* who moves
  bootpc, mem, mmu, mapped, vbar, sps, mask, pend, smashed, deep, bad,  \* of Boot
  tx, rx, handled, acked, place, left, nl, next                         \* of Console

bootVars == <<bootpc, mem, mmu, mapped, vbar, sps, mask, pend, smashed, deep, bad>>
consoleVars == <<tx, rx, handled, acked, place, left, nl, next>>
coreVars == <<part, vars, bootVars, consoleVars>>

B == INSTANCE Boot WITH pc <- bootpc
C == INSTANCE Console WITH Fiq <- FiqContext, active <- handled, iar <- acked, pc <- place

ASSUME ConsoleAssumption == C!ConsoleConstants

CoreInit ==
  /\ part \in {"monitor", "boot", "console"}
  /\ Init /\ B!Init /\ C!Init
  /\ part # "boot" => mask = {} /\ pend = {}

CoreNext ==
  \/ part = "monitor" /\ Next /\ UNCHANGED <<part, bootVars, consoleVars>>
  \/ part = "boot" /\ B!Next /\ UNCHANGED <<part, vars, consoleVars>>
  \/ part = "console" /\ C!Next /\ UNCHANGED <<part, vars, bootVars>>

(* The fairness of Monitor, Boot and Console, whose turn it is.            *)
CoreFairness ==
  /\ WF_vars(part = "monitor" /\ SecureStep)
  /\ SF_vars(part = "monitor" /\ NsecFiq)
  /\ WF_vars(part = "monitor" /\ pc = "fiqwin" /\ ServeFiq)
  /\ WF_bootVars(part = "boot" /\ B!BootStep)
  /\ part = "console" => C!Fairness

CoreSpec == CoreInit /\ [][CoreNext]_coreVars /\ CoreFairness

(* What Boot says of its states: nothing is used before it is ready, the   *)
(* temporary stack is free, and a canary means a stack overflow.           *)
BootSound == B!BootSound

(* What Boot says of its end: the core gets to the other world.            *)
BootEnds == B!BootEnds

(* What Console says of its states: no character is written to a full      *)
(* FIFO, and main_fiq() ends what it acknowledged.                         *)
NoCharLost == C!NoCharLost
AckedAndEnded == C!AckedAndEnded

(* What Console says of its end: what was received is read.                *)
ReceivedIsRead == C!ReceivedIsRead
================================================================================
