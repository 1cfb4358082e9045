-------------------------------- MODULE MCParts --------------------------------
(***************************************************************************)
(* The parts of the system that nobody else's state gets into, for TLC:    *)
(* the reserved memory (Resmem), formatted output (Kvprintf) and the       *)
(* exceptions of threads (Exceptions).  A behaviour is one of the three's, *)
(* as part says, while the other two stay in an initial state.             *)
(***************************************************************************)
EXTENDS Resmem, Integers, TLC

CONSTANTS CharBits, ShortBits, IntBits, MaxBits, Values, Radixes, Widths, StrLen,
          Thread, Code, Tag, Returning

\* char, short and int fit into intmax_t; code is addressed by numbers.
ASSUME PartsAssumption ==
  /\ {CharBits, ShortBits, IntBits, MaxBits} \subseteq Nat \ {0}
  /\ CharBits <= MaxBits /\ ShortBits <= MaxBits /\ IntBits <= MaxBits
  /\ Values \subseteq Int /\ Radixes \subseteq Int /\ Widths \subseteq Int
  /\ StrLen \subseteq Nat
  /\ Code \subseteq Int

\* at the bounds of every type: char 2, short 3, int 4, intmax_t 5 bits
MCValues == {-16, -8, -5, -1, 0, 1, 3, 7, 15}
MCWidths == {-3, 0, 4}
MCRadixes == {1, 2, 37}

Symmetry == Permutations(Thread)

VARIABLES
  part,                                                               \* who moves
  pc, flags, padc, width, dwidth, radix, took, lost, out, d, arg,     \* of Kvprintf
  cur, reg, svc, abt, ctx, frames, broken, halted                     \* of Exceptions

printVars == <<pc, flags, padc, width, dwidth, radix, took, lost, out, d, arg>>
excVars == <<cur, reg, svc, abt, ctx, frames, broken, halted>>

K == INSTANCE Kvprintf
E == INSTANCE Exceptions

PartsInit ==
  /\ part \in {"resmem", "kvprintf", "exceptions"}
  /\ Init /\ K!Init /\ E!Init
  /\ part # "resmem" => low = 0 /\ end = 0
  /\ part # "kvprintf" => radix = 2
  /\ part # "exceptions" => \A t \in Thread : ctx[t]["cpsr"] = E!USR

PartsNext ==
  \/ part = "resmem" /\ Next /\ UNCHANGED <<part, printVars, excVars>>
  \/ part = "kvprintf" /\ K!Next /\ UNCHANGED <<part, vars, excVars>>
  \/ part = "exceptions" /\ E!Next /\ UNCHANGED <<part, vars, printVars>>

PartsSpec == PartsInit /\ [][PartsNext]_<<part, vars, printVars, excVars>>

(* What Kvprintf says of what is printed, and of the arguments it takes.   *)
PrintsAsPrintf == K!PrintsAsPrintf
ArgsInStep == K!ArgsInStep

(* What Exceptions says: what was interrupted goes on as it was.           *)
ExceptionsSound == E!ExceptionsSound
================================================================================
