------------------------------ MODULE PrintfIso -----------------------------
(***************************************************************************)
(* What ISO C asks of a conversion specification (C23 7.23.6.1), written   *)
(* down without the digit buffer, and what Printf makes of it.             *)
(***************************************************************************)
EXTENDS Printf

(* A short is no longer than an int.                                       *)
ASSUME IsoAssumption == Two(BITS["h"]) <= Two(BITS["int"])

(* The value of the argument; "hh" with a signed conversion is a signed    *)
(* char.                                                                   *)
IsoValue(d) == IF Signed(d.conv) THEN TwosComplement(d.arg, BITS[d.mod])
               ELSE Unsigned(d.arg, BITS[d.mod])

IsoMagnitude(d) == IF IsoValue(d) < 0 THEN -IsoValue(d) ELSE IsoValue(d)

(* A negative precision is taken as if it were omitted.                    *)
IsoPrec(d) == IF d.prec < 0 THEN NoPrec ELSE d.prec

(* The digits of n, at least one.                                          *)
Numeral(n, base, upper) ==
  LET numeral[m \in 0..n] ==
        IF m < base THEN <<Digit(m, upper)>>
        ELSE Append(numeral[m \div base], Digit(m % base, upper))
  IN  numeral[n]

(* The digits, brought to the precision; `#o' makes the first one a zero.  *)
IsoDigits(d) ==
  LET n == IsoMagnitude(d)
      m == IF n = 0 /\ IsoPrec(d) = 0 THEN <<>>
           ELSE Numeral(n, Base(d.conv), d.conv = "X")
      z == Repeat("0", IsoPrec(d) - Len(m)) \o m
  IN  IF d.conv = "o" /\ "#" \in d.flags /\ (z = <<>> \/ z[1] # "0")
      THEN <<"0">> \o z ELSE z

IsoPrefix(d) ==
  IF IsoValue(d) < 0 THEN <<"-">>
  ELSE IF Signed(d.conv) /\ "+" \in d.flags THEN <<"+">>
  ELSE IF Signed(d.conv) /\ " " \in d.flags THEN <<" ">>
  ELSE IF "#" \in d.flags /\ d.conv \in {"x", "X", "b"} /\ IsoValue(d) # 0
  THEN <<"0", d.conv>>
  ELSE <<>>

IsoNumber(d) ==
  LET left == "-" \in d.flags \/ d.width < 0
      width == IF d.width < 0 THEN -d.width ELSE d.width
      gap == width - Len(IsoPrefix(d)) - Len(IsoDigits(d))
  IN  IF left THEN IsoPrefix(d) \o IsoDigits(d) \o Repeat(" ", gap)
      ELSE IF "0" \in d.flags /\ IsoPrec(d) = NoPrec
      THEN IsoPrefix(d) \o Repeat("0", gap) \o IsoDigits(d)
      ELSE Repeat(" ", gap) \o IsoPrefix(d) \o IsoDigits(d)

IsText(d) == d.conv \in {"text", "c", "s"}

(* A character, or the characters of a string up to the precision.         *)
IsoString(d) ==
  LET shown == IF d.conv = "s" /\ IsoPrec(d) # NoPrec
               THEN SubSeq(d.arg, 1, MinOf(IsoPrec(d), Len(d.arg))) ELSE d.arg
      gap == Repeat(" ", MaxOf(d.width, -d.width) - Len(shown))
  IN  IF "-" \in d.flags \/ d.width < 0 THEN shown \o gap ELSE gap \o shown

IsoText(d) == IF IsText(d) THEN IsoString(d) ELSE IsoNumber(d)

-----------------------------------------------------------------------------
(* Where Printf departs from ISO C.                                        *)

OctalHash(d) == d.conv = "o" /\ "#" \in d.flags
LeftAligned(d) == "-" \in d.flags \/ d.width < 0
Columns(d) == MaxOf(d.width, -d.width)
ZeroPadded(d) == "0" \in d.flags /\ ~LeftAligned(d) /\ d.prec = NoPrec

(* The digits _ntoa_long makes: none for a zero with a precision.          *)
MadeDigits(d) ==
  IF IsoValue(d) = 0 /\ d.prec # NoPrec THEN 0
  ELSE Len(Numeral(IsoMagnitude(d), Base(d.conv), FALSE))

(* %hhd of a negative value: plain char is unsigned.                       *)
CharUnsigned(d) == d.mod = "hh" /\ IsoValue(d) < 0

(* A negative `*' precision counts as an explicit zero: a string is lost   *)
(* (not that it shows where the padding replaces blanks), or the digit of  *)
(* a 0, or the zero padding.                                               *)
NegativePrecString(d) ==
  /\ d.conv = "s" /\ d.prec < 0 /\ d.prec # NoPrec
  /\ Len(d.arg) > Columns(d) \/ \E i \in DOMAIN d.arg : d.arg[i] # " "

NegativePrec(d) ==
  /\ d.prec < 0 /\ d.prec # NoPrec
  /\ \/ IsoValue(d) = 0
     \/ /\ "0" \in d.flags /\ ~LeftAligned(d)
        /\ Columns(d) > Len(IsoPrefix(d)) + Len(IsoDigits(d))

(* No room for the ` ' of a positive number, but a blank of the padding     *)
(* comes in its place.                                                     *)
BlankFromPadding(d) ==
  /\ IsoPrefix(d) = <<" ">> /\ Len(IsoDigits(d)) = BUFSZ
  /\ ~LeftAligned(d) /\ Columns(d) > BUFSZ

(* The number does not fit the digit buffer and is cut on the left.        *)
BufferShort(d) ==
  \/ Len(IsoPrefix(d)) + Len(IsoDigits(d)) > BUFSZ /\ ~BlankFromPadding(d)
  \/ ZeroPadded(d) /\ Columns(d) > BUFSZ

(* `-' with a precision: the leading zeros are left out.                   *)
LeftLosesZeros(d) ==
  LeftAligned(d) /\ d.prec > MadeDigits(d)
                             + (IF OctalHash(d) /\ IsoValue(d) # 0 THEN 1 ELSE 0)

(* `#' with a field as wide as the digits: the prefix overwrites digits    *)
(* (or, in base 2, makes the field one too wide).                          *)
PrefixTakesDigits(d) ==
  LET len == IF ZeroPadded(d) THEN MaxOf(MadeDigits(d), Columns(d))
             ELSE MadeDigits(d)
      spare == len - MadeDigits(d)
  IN  /\ "#" \in d.flags /\ Base(d.conv) # 10 /\ IsoValue(d) # 0
      /\ d.prec = NoPrec /\ len = Columns(d)
      /\ CASE Base(d.conv) = 16 -> spare < 2
           [] Base(d.conv) = 8 -> spare < 1
           [] Base(d.conv) = 2 -> spare # 1

(* `#o' with a precision: a zero too many, if the buffer has room for it,  *)
(* or, for 0 with precision 0, one too few.                                *)
OctalPrec(d) ==
  /\ OctalHash(d)
  /\ \/ /\ IsoValue(d) # 0 /\ ~LeftAligned(d)
        /\ d.prec > MadeDigits(d) /\ d.prec < BUFSZ
     \/ IsoValue(d) = 0 /\ d.prec = 0

Departs(d) ==
  IF IsText(d) THEN NegativePrecString(d)
  ELSE \/ CharUnsigned(d) \/ NegativePrec(d) \/ BufferShort(d)
       \/ LeftLosesZeros(d) \/ PrefixTakesDigits(d) \/ OctalPrec(d)

(* DepartsExactly: an integer, string or character comes out as ISO C has  *)
(* it unless one of the six departures applies, and then it does not: for  *)
(* every combination of flags, width, precision, length and base the run   *)
(* enumerates.                                                             *)
DepartsExactly ==
  pc = "done" => (text = IsoText(fmt[1]) <=> ~Departs(fmt[1]))

=============================================================================
