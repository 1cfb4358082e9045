------------------------------- MODULE Console -------------------------------
(***************************************************************************)
(* The console: kprintf() (kern/kprintf.c) over the UART (drivers/uart.c), *)
(* and the FIQ handler main_fiq() (kern/main.c) that reads what arrives    *)
(* there and prints itself.  Code on every core prints (threads, fast      *)
(* calls), without a lock; the FIQ handler runs on the core FiqCpu on top  *)
(* of whatever that core was doing.  A step is one access to a device.     *)
(*                                                                         *)
(* The UART (external) has a transmit FIFO, which the wire empties, and a  *)
(* receive FIFO, which the wire fills and which raises the interrupt as    *)
(* long as RxTrigger characters are in it.  Of the GIC (external, see Gic) *)
(* there is the one interrupt the system uses.                             *)
(***************************************************************************)
EXTENDS Naturals

CONSTANTS CPU, FiqCpu,  \* cores; the one of gic_it_set_cpu_mask()
          Fiq,          \* the context of the FIQ handler
          TxDepth, RxDepth, RxTrigger,
          MaxLen        \* longest message before its newline

ConsoleConstants ==
  /\ FiqCpu \in CPU /\ Fiq \notin CPU
  /\ TxDepth \in Nat \ {0}
  /\ RxDepth \in Nat /\ RxTrigger \in 1 .. RxDepth
  /\ MaxLen \in Nat \ {0}

Context == CPU \cup {Fiq}

VARIABLES
  tx, rx,   \* characters in the FIFOs
  active,   \* the interrupt is between acknowledge and end of interrupt
  iar,      \* what main_fiq() has read: the interrupt, or spurious
  pc,       \* where each context is
  left,     \* characters it has to print before the newline
  nl,       \* whether a newline follows them
  next      \* where the FIQ handler goes on after its kprintf()

vars == <<tx, rx, active, iar, pc, left, nl, next>>

(* Places: outside ("idle"); in uart_putc() of a character, of '\n' or of  *)
(* '\r', waiting or about to write; in uart_flush_tx_fifo(); in main_fiq().*)
Putc   == {"char", "newline", "return"}
Write  == [char |-> "char_dr", newline |-> "newline_dr", return |-> "return_dr"]
Writing == {"char_dr", "newline_dr", "return_dr"}
FiqPlace == {"iar", "rx", "eoir", "exit"}

Init ==
  /\ tx = 0 /\ rx = 0
  /\ active = FALSE /\ iar = FALSE
  /\ pc = [x \in Context |-> "idle"]
  /\ left = [x \in Context |-> 0]
  /\ nl = [x \in Context |-> FALSE]
  /\ next = "exit"

FiqRuns == pc[Fiq] # "idle"
Running(x) == x = FiqCpu => ~FiqRuns
Goto(x, to) == pc' = [pc EXCEPT ![x] = to]

(***************************************************************************)
(* The device                                                              *)
(***************************************************************************)
Transmit == tx > 0 /\ tx' = tx - 1 /\ UNCHANGED <<rx, active, iar, pc, left, nl, next>>
Receive  == rx < RxDepth /\ rx' = rx + 1 /\ UNCHANGED <<tx, active, iar, pc, left, nl, next>>

TXFF == tx = TxDepth
TXFE == tx = 0
RXFE == rx = 0
Pending == rx >= RxTrigger /\ ~active

(***************************************************************************)
(* kprintf(), output(), uart_putc() and uart_flush_tx_fifo()               *)
(***************************************************************************)
(* Where to go for the next character: kvprintf() calls output() for each. *)
After(k, newline) ==
  CASE k > 0              -> "char"
    [] k = 0 /\ newline   -> "newline"
    [] k = 0 /\ ~newline  -> "done"

Back(x) == IF x = Fiq THEN next ELSE "idle"

Message(x, k, newline) ==
  /\ left' = [left EXCEPT ![x] = k]
  /\ nl' = [nl EXCEPT ![x] = newline]

(* A thread or a fast call prints a message of any length.                 *)
Kprintf(x) ==
  /\ x \in CPU /\ Running(x)
  /\ pc[x] = "idle"
  /\ \E k \in 0 .. MaxLen, newline \in BOOLEAN :
       /\ After(k, newline) # "done"
       /\ Message(x, k, newline)
       /\ Goto(x, After(k, newline))
  /\ UNCHANGED <<tx, rx, active, iar, next>>

(* while (read32(base + UART_FR) & UART_FR_TXFF);                          *)
PutcWait(x) ==
  /\ Running(x)
  /\ pc[x] \in Putc
  /\ ~TXFF
  /\ Goto(x, Write[pc[x]])
  /\ UNCHANGED <<tx, rx, active, iar, left, nl, next>>

(* write32(ch, base + UART_DR): a character too many is dropped.           *)
Dr == tx' = IF TXFF THEN tx ELSE tx + 1

PutcChar(x) ==
  /\ Running(x)
  /\ pc[x] = "char_dr"
  /\ Dr
  /\ left' = [left EXCEPT ![x] = @ - 1]
  /\ LET to == After(left[x] - 1, nl[x])
     IN  Goto(x, IF to = "done" THEN Back(x) ELSE to)
  /\ UNCHANGED <<rx, active, iar, nl, next>>

PutcNewline(x) ==
  /\ Running(x)
  /\ pc[x] = "newline_dr"
  /\ Dr
  /\ Goto(x, "return")
  /\ UNCHANGED <<rx, active, iar, left, nl, next>>

(* Mutant: no flush after a line.                                          *)
PutcReturn_NoFlush(x) ==
  /\ Running(x)
  /\ pc[x] = "return_dr"
  /\ Dr
  /\ Goto(x, Back(x))
  /\ UNCHANGED <<rx, active, iar, left, nl, next>>

PutcReturn(x) ==
  /\ Running(x)
  /\ pc[x] = "return_dr"
  /\ Dr
  /\ Goto(x, "flush")
  /\ UNCHANGED <<rx, active, iar, left, nl, next>>

(* while (!(read32(base + UART_FR) & UART_FR_TXFE));                       *)
Flush(x) ==
  /\ Running(x)
  /\ pc[x] = "flush"
  /\ TXFE
  /\ Goto(x, Back(x))
  /\ UNCHANGED <<tx, rx, active, iar, left, nl, next>>

(***************************************************************************)
(* thread_fiq_handler and main_fiq()                                       *)
(***************************************************************************)
FiqPrint(then) ==
  /\ next' = then
  /\ \E k \in 1 .. MaxLen : Message(Fiq, k, TRUE)
  /\ Goto(Fiq, "char")

FiqEntry ==
  /\ ~FiqRuns
  /\ Pending
  /\ FiqPrint("iar")
  /\ UNCHANGED <<tx, rx, active, iar>>

(* gic_read_iar(): acknowledges the interrupt if it is still pending       *)
ReadIar ==
  /\ pc[Fiq] = "iar"
  /\ iar' = Pending
  /\ active' = (active \/ Pending)
  /\ Goto(Fiq, "rx")
  /\ UNCHANGED <<tx, rx, left, nl, next>>

(* Mutant: uart_have_rx_data() without its negation.                       *)
ReadRx_Inverted ==
  /\ pc[Fiq] = "rx"
  /\ IF ~RXFE
     THEN Goto(Fiq, "eoir") /\ UNCHANGED <<rx, left, nl, next>>
     ELSE rx' = rx /\ FiqPrint("rx")
  /\ UNCHANGED <<tx, active, iar>>

(* while (uart_have_rx_data()) kprintf("got 0x%x\n", uart_getchar())       *)
ReadRx ==
  /\ pc[Fiq] = "rx"
  /\ IF RXFE
     THEN Goto(Fiq, "eoir") /\ UNCHANGED <<rx, left, nl, next>>
     ELSE rx' = rx - 1 /\ FiqPrint("rx")
  /\ UNCHANGED <<tx, active, iar>>

(* Mutant: the interrupt is never ended.                                   *)
WriteEoir_Missing ==
  /\ pc[Fiq] = "eoir"
  /\ FiqPrint("exit")
  /\ UNCHANGED <<tx, rx, active, iar>>

(* gic_write_eoir(iar)                                                     *)
WriteEoir ==
  /\ pc[Fiq] = "eoir"
  /\ active' = (active /\ ~iar)
  /\ FiqPrint("exit")
  /\ UNCHANGED <<tx, rx, iar>>

FiqExit ==
  /\ pc[Fiq] = "exit"
  /\ Goto(Fiq, "idle")
  /\ iar' = FALSE
  /\ UNCHANGED <<tx, rx, active, left, nl, next>>

Output(x) ==
  PutcWait(x) \/ PutcChar(x) \/ PutcNewline(x) \/ PutcReturn(x) \/ Flush(x)

FiqStep == Output(Fiq) \/ ReadIar \/ ReadRx \/ WriteEoir \/ FiqExit

Next ==
  \/ Transmit \/ Receive
  \/ \E x \in CPU : Kprintf(x) \/ Output(x)
  \/ FiqEntry \/ FiqStep

Spec == Init /\ [][Next]_vars

(* The wire takes what is sent, an FIQ that is pending is taken, and code  *)
(* that runs goes on; FIQs may hold up the code below them over and over.  *)
Fairness ==
  /\ WF_vars(Transmit)
  /\ WF_vars(FiqEntry) /\ WF_vars(FiqStep)
  /\ \A x \in CPU : SF_vars(Output(x))

(***************************************************************************)
(* Properties                                                              *)
(***************************************************************************)
(* Types.                                                                  *)
TypeOK ==
  /\ tx \in 0 .. TxDepth /\ rx \in 0 .. RxDepth
  /\ active \in BOOLEAN /\ iar \in BOOLEAN
  /\ pc \in [Context -> {"idle", "flush"} \cup Putc \cup Writing \cup FiqPlace]
  /\ left \in [Context -> 0 .. MaxLen]
  /\ nl \in [Context -> BOOLEAN]
  /\ next \in FiqPlace

(* uart.c:115 waits until there is space in the FIFO before the write to   *)
(* the data register.  An FIQ between the two prints as well: there is     *)
(* still space when it has returned, and no character is lost, because     *)
(* each of its messages ends in a newline and output() flushes at it.      *)
NoCharLost == \A x \in Context : pc[x] \in Writing /\ Running(x) => ~TXFF

(* main_fiq() never looks at the interrupt it acknowledged: it is always   *)
(* the UART's, and active from its acknowledge to its end and not longer,  *)
(* or no further FIQ would ever be signalled.                              *)
AckedAndEnded ==
  /\ pc[Fiq] \in {"rx", "eoir"} => iar /\ active
  /\ ~FiqRuns => ~active

(* If the line falls silent, what was received is read once it reaches the *)
(* trigger level (fewer characters raise no interrupt), and the handler    *)
(* returns to the interrupted code.  Without silence it may read for ever. *)
Silence == <>[][~Receive]_vars
ReceivedIsRead == Silence => (rx >= RxTrigger ~> (rx < RxTrigger /\ ~FiqRuns))

================================================================================
