------------------------------- MODULE Kvprintf -------------------------------
(***************************************************************************)
(* kvprintf() (kern/kvprintf.c), one character of the format per step.     *)
(* The environment picks the characters: any text with any directives that *)
(* are well formed, the directives kvprintf() does not know included.      *)
(* What is printed for a directive is a record of its parts, not a string. *)
(*                                                                         *)
(* Beside the function's own variables runs the meaning of the directive   *)
(* according to printf(3): d, and what that prints, Reference.             *)
(*                                                                         *)
(* Types are scaled down: CharBits < ShortBits < IntBits = bits of long,   *)
(* size_t, ptrdiff_t and pointers < MaxBits = bits of uint64_t, intmax_t.  *)
(***************************************************************************)
EXTENDS Integers, Sequences

CONSTANTS CharBits, ShortBits, IntBits, MaxBits,
          Values,   \* arguments of conversions
          Radixes,  \* radix arguments
          Widths,   \* widths and precisions, as digits or as arguments
          StrLen    \* lengths of strings

VARIABLES
  pc,                            \* "text", or "reswitch" inside a directive
  flags, padc, width, dwidth,    \* kvprintf()'s variables
  radix,                         \* its argument
  took,                          \* what va_arg() took for this directive
  lost,                          \* history: a directive was not known
  out,                           \* what was printed last
  d, arg                         \* the directive as printf(3) reads it, its argument

vars == <<pc, flags, padc, width, dwidth, radix, took, lost, out, d, arg>>

(* enum flag: bits of flags, here a set of bit numbers                     *)
LFLAG == 0
QFLAG == 1
SHARPFLAG == 2
NEG == 3
SIGN == 4
DOT == 5
CFLAG == 7
HFLAG == 8
JFLAG == 9
TFLAG == 10
ZFLAG == 11
STOP == 12
LADJUST == 13

(* FLAG_INV(): flags ^= (1 << flags), whatever flag is asked for.  The     *)
(* shift takes the low byte of its count; nothing is left of a 1 that is   *)
(* shifted by 32 or more.                                                  *)
Toggle(S, b) == (S \ {b}) \cup ({b} \ S)
Bit(S, b, weight) == IF b \in S THEN weight ELSE 0
LowByte(S) == Bit(S, 0, 1) + Bit(S, 1, 2) + Bit(S, 2, 4) + Bit(S, 3, 8)
              + Bit(S, 4, 16) + Bit(S, 5, 32) + Bit(S, 6, 64) + Bit(S, 7, 128)
Inverted(S, flag) == IF LowByte(S) < 32 THEN Toggle(S, LowByte(S)) ELSE S

Pow2[k \in Nat] == IF k = 0 THEN 1 ELSE 2 * Pow2[k - 1]
Unsigned(x, bits) == x % Pow2[bits]
Signed(x, bits) ==
  IF Unsigned(x, bits) >= Pow2[bits - 1] THEN Unsigned(x, bits) - Pow2[bits] ELSE Unsigned(x, bits)
Larger(x, y) == IF x > y THEN x ELSE y

(* ksprintn(): the digits of num are counted; nbuf has MaxBits + 1 places, *)
(* the first for the terminating zero.                                     *)
Ksprintn(num, base) ==
  LET digits[k \in Nat] == IF k < base THEN 1 ELSE 1 + digits[k \div base] IN digits[num]
MAXNBUF == MaxBits + 1

(***************************************************************************)
(* printf(3)                                                               *)
(***************************************************************************)
NoPrec == -1
Plain == [stage |-> "flags", left |-> FALSE, zero |-> FALSE, sharp |-> FALSE, plus |-> FALSE,
          width |-> 0, prec |-> NoPrec, len |-> "none", stars |-> 0,
          negwidth |-> FALSE, negprec |-> FALSE, conv |-> "none"]

BitsOf(len) ==
  CASE len = "hh" -> CharBits
    [] len = "h" -> ShortBits
    [] len \in {"ll", "j"} -> MaxBits
    [] OTHER -> IntBits
TypeOf(len) == IF len \in {"ll", "j"} THEN "dword" ELSE "word"

SignedConv == {"d", "i"}
Base(conv) == CASE conv \in {"d", "i", "u"} -> 10 [] conv \in {"x", "X", "p"} -> 16 [] conv = "o" -> 8

Number(left, neg, prefix, zeros, digits, num, right) ==
  [kind |-> "number", left |-> left, neg |-> neg, prefix |-> prefix, zeros |-> zeros,
   digits |-> digits, num |-> num, right |-> right]
Str(left, n, right) == [kind |-> "string", left |-> left, n |-> n, right |-> right]
Nothing == [kind |-> "nothing"]

Reference ==
  LET value  == IF d.conv \in SignedConv THEN Signed(arg, BitsOf(d.len)) ELSE Unsigned(arg, BitsOf(d.len))
      neg    == value < 0
      num    == IF neg THEN -value ELSE value
      base   == Base(d.conv)
      n      == Ksprintn(num, base)
      sharp  == IF d.conv = "p" THEN d.width = 0 ELSE d.sharp
      prefix == IF sharp /\ num # 0 THEN (CASE base = 16 -> 2 [] base = 8 -> 1 [] OTHER -> 0) ELSE 0
      used   == prefix + n + (IF neg THEN 1 ELSE 0)
      zeros  == IF d.zero /\ ~d.left /\ d.prec = NoPrec
                THEN Larger(d.width - used, 0) ELSE Larger(d.prec - n, 0)
      pad    == Larger(d.width - used - zeros, 0)
  IN  Number(IF d.left THEN 0 ELSE pad, neg, prefix, zeros, n, num, IF d.left THEN pad ELSE 0)

StrReference ==
  LET n   == IF d.prec # NoPrec /\ d.prec < arg THEN d.prec ELSE arg
      pad == Larger(d.width - n, 0)
  IN  Str(IF d.left THEN 0 ELSE pad, n, IF d.left THEN pad ELSE 0)

(***************************************************************************)
(* The format                                                              *)
(***************************************************************************)
Init ==
  /\ pc = "text"
  /\ flags = {} /\ padc = "blank" /\ width = 0 /\ dwidth = 0
  /\ \E r \in Radixes : radix = IF r < 2 \/ r > 36 THEN 10 ELSE r
  /\ took = <<>> /\ out = Nothing /\ lost = FALSE
  /\ d = Plain /\ arg = 0

(* Text is copied up to the next directive, after FLAG_STOP to the end.    *)
Percent ==
  /\ pc = "text" /\ STOP \notin flags
  /\ pc' = "reswitch"
  /\ padc' = "blank" /\ width' = 0
  /\ flags' = {} /\ dwidth' = 0
  /\ took' = <<>> /\ out' = Nothing
  /\ d' = Plain /\ arg' = 0
  /\ UNCHANGED <<radix, lost>>

(* The end of the format, and another call.                                *)
Return ==
  /\ pc = "text"
  /\ flags' = {} /\ padc' = "blank" /\ width' = 0 /\ dwidth' = 0
  /\ \E r \in Radixes : radix' = IF r < 2 \/ r > 36 THEN 10 ELSE r
  /\ took' = <<>> /\ out' = Nothing /\ lost' = FALSE
  /\ d' = Plain /\ arg' = 0
  /\ UNCHANGED pc

(* A character of a directive that printf(3) allows at this stage.         *)
At(stages) == pc = "reswitch" /\ d.stage \in stages

Sharp ==
  /\ At({"flags"})
  /\ flags' = flags \cup {SHARPFLAG}
  /\ d' = [d EXCEPT !.sharp = TRUE]
  /\ UNCHANGED <<pc, padc, width, dwidth, radix, took, out, arg, lost>>

Plus ==
  /\ At({"flags"})
  /\ flags' = flags \cup {SIGN}
  /\ d' = [d EXCEPT !.plus = TRUE]
  /\ UNCHANGED <<pc, padc, width, dwidth, radix, took, out, arg, lost>>

Minus ==
  /\ At({"flags"})
  /\ flags' = flags \cup {LADJUST}
  /\ d' = [d EXCEPT !.left = TRUE]
  /\ UNCHANGED <<pc, padc, width, dwidth, radix, took, out, arg, lost>>

Zero ==
  /\ At({"flags"})
  /\ padc' = "0"
  /\ d' = [d EXCEPT !.zero = TRUE]
  /\ UNCHANGED <<pc, flags, width, dwidth, radix, took, out, arg, lost>>

Dot ==
  /\ At({"flags", "width"})
  /\ flags' = flags \cup {DOT}
  /\ d' = [d EXCEPT !.stage = "prec", !.prec = 0]
  /\ UNCHANGED <<pc, padc, width, dwidth, radix, took, out, arg, lost>>

Digits ==
  \E n \in Widths :
    \/ /\ At({"flags"}) /\ n > 0 /\ DOT \notin flags
       /\ width' = n
       /\ d' = [d EXCEPT !.stage = "width", !.width = n]
       /\ UNCHANGED <<pc, flags, padc, dwidth, radix, took, out, arg, lost>>
    \/ /\ At({"prec"}) /\ n >= 0 /\ DOT \in flags
       /\ dwidth' = n
       /\ d' = [d EXCEPT !.stage = "length", !.prec = n]
       /\ UNCHANGED <<pc, flags, padc, width, radix, took, out, arg, lost>>

(* A negative width is a flag and a width; a negative precision is none.   *)
StarWidth ==
  /\ At({"flags"}) /\ DOT \notin flags
  /\ \E n \in Widths :
       /\ width' = IF n < 0 THEN -n ELSE n
       /\ flags' = IF n < 0 THEN Inverted(flags, LADJUST) ELSE flags
       /\ d' = [d EXCEPT !.stage = "width", !.width = IF n < 0 THEN -n ELSE n,
                         !.left = @ \/ n < 0, !.negwidth = n < 0, !.stars = @ + 1]
  /\ took' = Append(took, "word")
  /\ UNCHANGED <<pc, padc, dwidth, radix, out, arg, lost>>

StarPrec ==
  /\ At({"prec"}) /\ DOT \in flags
  /\ \E n \in Widths :
       /\ dwidth' = n
       /\ d' = [d EXCEPT !.stage = "length", !.prec = IF n < 0 THEN NoPrec ELSE n,
                         !.negprec = n < 0, !.stars = @ + 1]
  /\ took' = Append(took, "word")
  /\ UNCHANGED <<pc, padc, width, flags, radix, out, arg, lost>>

Modifier(c, set) ==
  /\ At({"flags", "width", "prec", "length"})
  /\ flags' = set
  /\ d' = [d EXCEPT !.stage = c, !.len = c]
  /\ UNCHANGED <<pc, padc, width, dwidth, radix, took, out, arg, lost>>

Jzt == \/ Modifier("j", flags \cup {JFLAG})
       \/ Modifier("z", flags \cup {ZFLAG})
       \/ Modifier("t", flags \cup {TFLAG})

HSet == IF HFLAG \in flags THEN (flags \ {HFLAG}) \cup {CFLAG} ELSE flags \cup {HFLAG}
H == \/ Modifier("h", HSet)
     \/ /\ At({"h"})
        /\ flags' = HSet
        /\ d' = [d EXCEPT !.stage = "hh", !.len = "hh"]
        /\ UNCHANGED <<pc, padc, width, dwidth, radix, took, out, arg, lost>>

LSet == Inverted(IF LFLAG \in flags THEN flags \cup {QFLAG} ELSE flags, LFLAG)
L == \/ Modifier("l", LSet)
     \/ /\ At({"l"})
        /\ flags' = LSet
        /\ d' = [d EXCEPT !.stage = "ll", !.len = "ll"]
        /\ UNCHANGED <<pc, padc, width, dwidth, radix, took, out, arg, lost>>

(***************************************************************************)
(* The conversions                                                         *)
(***************************************************************************)
Done(conv, a) == d' = [d EXCEPT !.stage = "done", !.conv = conv] /\ arg' = a

(* Mutant: no case for intmax_t.                                           *)
Taken_NoIntmax(conv) == IF QFLAG \in flags /\ conv # "p" THEN "dword" ELSE "word"

Taken(conv) == IF flags \cap {JFLAG, QFLAG} # {} /\ conv # "p" THEN "dword" ELSE "word"

(* What va_arg() and the conversion to uintmax_t make of the argument; a   *)
(* char is unsigned.                                                       *)
HandleNosign(a) ==
  CASE flags \cap {JFLAG, QFLAG} # {}      -> Unsigned(a, MaxBits)
    [] flags \cap {JFLAG, QFLAG} = {} /\ TFLAG \in flags -> Unsigned(Signed(a, IntBits), MaxBits)
    [] flags \cap {JFLAG, QFLAG, TFLAG} = {} /\ flags \cap {LFLAG, ZFLAG} # {} -> Unsigned(a, IntBits)
    [] flags \cap {JFLAG, QFLAG, TFLAG, LFLAG, ZFLAG} = {} ->
         Unsigned(a, IF HFLAG \in flags THEN ShortBits ELSE IF CFLAG \in flags THEN CharBits ELSE IntBits)

HandleSign(a) ==
  CASE flags \cap {JFLAG, QFLAG} # {} -> Unsigned(a, MaxBits)
    [] flags \cap {JFLAG, QFLAG} = {} /\ flags \cap {TFLAG, LFLAG, ZFLAG} # {} ->
         Unsigned(Signed(a, IntBits), MaxBits)
    [] flags \cap {JFLAG, QFLAG, TFLAG, LFLAG, ZFLAG} = {} ->
         Unsigned(IF HFLAG \in flags THEN Signed(a, ShortBits)
                  ELSE IF CFLAG \in flags THEN Unsigned(a, CharBits) ELSE Signed(a, IntBits), MaxBits)

Prefix(S, base, num) ==
  IF SHARPFLAG \notin S \/ num = 0 THEN 0
  ELSE CASE base = 8 -> 1 [] base = 16 -> 2 [] OTHER -> 0

(* Mutant: the sign does not count.                                        *)
PrintNumber_NoSign(S, value, base) ==
  LET negative == SIGN \in S /\ Signed(value, MaxBits) < 0
      num    == IF negative THEN Unsigned(-value, MaxBits) ELSE value
      n      == Ksprintn(num, base)
      tmp    == Prefix(S, base, num)
      precis == IF LADJUST \notin S /\ padc = "0" THEN width - tmp ELSE dwidth
      pad    == Larger(width - (tmp + Larger(precis, n)), 0)
  IN  Number(IF LADJUST \in S THEN 0 ELSE pad, negative \/ NEG \in S, Prefix(S, base, num),
             Larger(precis - n, 0), n, num, IF LADJUST \in S THEN pad ELSE 0)

(* number: with the flags S                                                *)
PrintNumber(S, value, base) ==
  LET negative == SIGN \in S /\ Signed(value, MaxBits) < 0
      num    == IF negative THEN Unsigned(-value, MaxBits) ELSE value
      n      == Ksprintn(num, base)
      tmp    == Prefix(S, base, num) + (IF negative \/ NEG \in S THEN 1 ELSE 0)
      precis == IF LADJUST \notin S /\ padc = "0" THEN width - tmp ELSE dwidth
      pad    == Larger(width - (tmp + Larger(precis, n)), 0)
  IN  Number(IF LADJUST \in S THEN 0 ELSE pad, negative \/ NEG \in S, Prefix(S, base, num),
             Larger(precis - n, 0), n, num, IF LADJUST \in S THEN pad ELSE 0)

Converted(conv, a) ==
  CASE conv \in {"d", "i"} -> PrintNumber(flags \cup {SIGN}, HandleSign(a), 10)
    [] conv = "y"          -> PrintNumber(flags \cup {SIGN}, HandleSign(a), 16)
    [] conv = "r"          -> PrintNumber(flags, IF SIGN \in flags THEN HandleSign(a) ELSE HandleNosign(a), radix)
    [] conv = "u"          -> PrintNumber(flags \ {SIGN}, HandleNosign(a), 10)
    [] conv \in {"x", "X"} -> PrintNumber(flags \ {SIGN}, HandleNosign(a), 16)
    [] conv = "o"          -> PrintNumber(flags \ {SIGN}, HandleNosign(a), 8)
    [] conv = "p"          -> PrintNumber((IF width = 0 THEN flags \cup {SHARPFLAG} ELSE flags \ {SHARPFLAG}) \ {SIGN},
                                          Unsigned(a, IntBits), 16)

ConvertNumber(conv) ==
  /\ pc = "reswitch" /\ (conv = "p" => d.len = "none")
  /\ \E a \in Values : out' = Converted(conv, a) /\ Done(conv, a)
  /\ took' = Append(took, Taken(conv))
  /\ pc' = "text"
  /\ UNCHANGED <<flags, padc, width, dwidth, radix, lost>>

(* The pad character is '0' as well if the flag was given.                 *)
ConvertString ==
  /\ pc = "reswitch" /\ d.len = "none"
  /\ \E a \in StrLen :
       LET n   == IF DOT \notin flags THEN a ELSE IF dwidth < a THEN Larger(dwidth, 0) ELSE a
           pad == Larger(width - n, 0)
       IN  /\ out' = IF LADJUST \in flags THEN Str(0, n, pad) ELSE Str(pad, n, 0)
           /\ Done("s", a)
  /\ took' = Append(took, "word")
  /\ pc' = "text"
  /\ UNCHANGED <<flags, padc, width, dwidth, radix, lost>>

ConvertChar ==
  /\ pc = "reswitch" /\ d.len = "none"
  /\ took' = Append(took, "word")
  /\ Done("c", 0)
  /\ pc' = "text"
  /\ UNCHANGED <<flags, padc, width, dwidth, radix, out, lost>>

ConvertPercent ==
  /\ pc = "reswitch"
  /\ Done("%", 0)
  /\ pc' = "text"
  /\ UNCHANGED <<flags, padc, width, dwidth, radix, took, out, lost>>

Unknown ==
  /\ pc = "reswitch"
  /\ flags' = flags \cup {STOP}
  /\ lost' = TRUE
  /\ Done("?", 0)
  /\ pc' = "text"
  /\ UNCHANGED <<padc, width, dwidth, radix, took, out>>

Conversions == {"d", "i", "y", "r", "u", "x", "X", "o", "p"}
Reswitch ==
  \/ Sharp \/ Plus \/ Minus \/ Zero \/ Dot \/ Digits \/ StarWidth \/ StarPrec
  \/ Jzt \/ H \/ L
  \/ \E conv \in Conversions : ConvertNumber(conv)
  \/ ConvertString \/ ConvertChar \/ ConvertPercent \/ Unknown

Next == Percent \/ Return \/ Reswitch

Spec == Init /\ [][Next]_vars

(***************************************************************************)
(* Properties                                                              *)
(***************************************************************************)
(* Types; a width is never negative.                                       *)
TypeOK ==
  /\ pc \in {"text", "reswitch"}
  /\ flags \subseteq 0 .. 31
  /\ padc \in {"blank", "0"}
  /\ width \in Nat /\ dwidth \in Int
  /\ radix \in 2 .. 36
  /\ took \in Seq({"word", "dword"})
  /\ lost \in BOOLEAN

(* kvprintf.c:67 "The buffer pointed to by `nbuf' must have length >=      *)
(* MAXNBUF": no number in any base has more digits than fit.               *)
BufferFits == out.kind = "number" => out.digits + 1 <= MAXNBUF

(* kvprintf.c:366 and following: after a directive it does not know,       *)
(* kvprintf() obeys no other, because arguments would no longer match.     *)
StopsAtUnknown == lost => pc = "text"

(* va_arg() takes what the caller passed for the directive, or everything  *)
(* after it in the argument list is read from the wrong place.             *)
Wanted ==
  [k \in 1 .. d.stars |-> "word"] \o
  (IF d.conv \in {"%", "?"} THEN <<>> ELSE << IF d.conv = "p" THEN "word" ELSE TypeOf(d.len) >>)
ArgsMatch == d.conv # "none" => took = Wanted

(* The same but for the directives that FLAG_INV() spoils.                 *)
ArgsInStep == d.len # "ll" /\ ~d.negwidth => ArgsMatch

(* What is printed for a number is what printf(3) prints, for any flags,   *)
(* width, precision, length and value.  Left out is what "scaled down"     *)
(* (kvprintf.c:108) leaves out or does its own way: '+', '0' together with *)
(* a precision, '#' with a precision for octals, no digits for zero with   *)
(* precision zero, signed char (char is unsigned here), unsigned ptrdiff_t *)
(* (sign-extended); and the two uses of FLAG_INV().                        *)
IsSigned == d.conv \in SignedConv
Ordinary ==
  /\ out.kind = "number" /\ d.conv \notin {"r", "y"} /\ ~d.plus
  /\ ~(d.len = "hh" /\ IsSigned) /\ ~(d.len = "t" /\ ~IsSigned)
  /\ ~(d.zero /\ ~d.left /\ d.prec # NoPrec)
  /\ ~(d.prec = 0 /\ out.num = 0)
  /\ ~(d.sharp /\ d.conv = "o" /\ d.prec # NoPrec)
NumbersAsPrintf == Ordinary /\ d.len # "ll" /\ ~d.negwidth => out = Reference

(* Likewise for strings; a '0' flag, a negative precision are left out.    *)
StringsAsPrintf ==
  out.kind = "string" /\ ~d.zero /\ ~d.negwidth /\ ~d.negprec => out = StrReference

(* All of these, which relate what is printed to what printf(3) prints.    *)
PrintsAsPrintf == TypeOK /\ BufferFits /\ StopsAtUnknown /\ NumbersAsPrintf /\ StringsAsPrintf
================================================================================
