-------------------------------- MODULE Resmem --------------------------------
(***************************************************************************)
(* The reserved memory of kern/resmem.c: permanent allocations from the    *)
(* memory between the image and the end of RAM, used before there is a     *)
(* heap.  Addresses and sizes are machine words: sums wrap around, and the *)
(* comparisons of the code are there to notice it.                         *)
(***************************************************************************)
EXTENDS Naturals

CONSTANTS Width,  \* number of values of a uintptr_t and of a size_t
          Align   \* RESMEM_ALIGN

ASSUME WidthAssumption ==
  /\ Width \in Nat \ {0}
  /\ Align \in Nat \ {0}
  /\ Width % Align = 0

Word == 0 .. Width - 1

VARIABLES
  begin, end, disabled,  \* resmem
  low,                   \* history: begin as given to resmem_init
  blocks,                \* history: the allocations, [at, size]
  refused                \* history: the last request refused, or none

vars == <<begin, end, disabled, low, blocks, refused>>

(* What a sum is in a machine word                                         *)
Wrap(x) == x % Width

(* ROUNDUP: the mask clears the low bits of a sum that may have wrapped    *)
Roundup(v) ==
  LET x == Wrap(v + (Align - 1))
  IN  x - (x % Align)

(* resmem_init, called once, by main_init                                  *)
Init ==
  /\ low \in Word
  /\ end \in Word
  /\ begin = Roundup(low)
  /\ disabled = (begin < low)
  /\ blocks = {}
  /\ refused = {}

(* Mutant: a size that wraps in ROUNDUP goes unnoticed.                    *)
Refuses_NoSizeCheck(s, size, new_begin) ==
  disabled \/ new_begin < begin \/ new_begin > end

(* Mutant: the last bytes are never given out.                             *)
Refuses_OffByOne(s, size, new_begin) ==
  disabled \/ s < size \/ new_begin < begin \/ new_begin >= end

Refuses(s, size, new_begin) ==
  disabled \/ s < size \/ new_begin < begin \/ new_begin > end

(* resmem_alloc                                                            *)
Alloc ==
  \E size \in Word :
    LET s == Roundup(size)
        new_begin == Wrap(begin + s)
    IN  \/ /\ Refuses(s, size, new_begin)
           /\ refused' = {size}
           /\ UNCHANGED <<begin, blocks>>
        \/ /\ ~Refuses(s, size, new_begin)
           /\ begin' = new_begin
           /\ blocks' = blocks \cup {[at |-> begin, size |-> size]}
           /\ refused' = {}
  /\ UNCHANGED <<end, disabled, low>>

(* resmem_disable                                                          *)
Disable ==
  /\ disabled' = TRUE
  /\ UNCHANGED <<begin, end, low, blocks, refused>>

Next == Alloc \/ Disable

Spec == Init /\ [][Next]_vars

(***************************************************************************)
(* Properties                                                              *)
(***************************************************************************)
(* Types; what resmem_alloc returns next is aligned.                       *)
TypeOK ==
  /\ begin \in Word /\ begin % Align = 0
  /\ end \in Word
  /\ low \in Word
  /\ disabled \in BOOLEAN
  /\ blocks \subseteq [at : Word, size : Word]
  /\ refused \subseteq Word

(* Allocations lie, whole and apart from each other, in the memory given   *)
(* to resmem_init, also for sizes and limits near the top of the address   *)
(* space.                                                                  *)
Apart(x, y) == x.at + x.size <= y.at \/ y.at + y.size <= x.at
BlocksApart ==
  /\ \A x \in blocks : low <= x.at /\ x.at + x.size <= end
  /\ \A x, y \in blocks : x = y \/ Apart(x, y)

(* A request is refused only when it does not fit, in exact arithmetic, or *)
(* after resmem_disable: "it will fail once resmem_disable has been called *)
(* or we've run out of reserved memory" (resmem.h).                        *)
RefusedForGood ==
  \A size \in refused :
    disabled \/ \A n \in Word : n % Align = 0 /\ size <= n => begin + n > end
================================================================================
