-------------------------------- MODULE Printf ------------------------------
(***************************************************************************)
(* The console and string formatter, kern/printf.c as printf_config.h      *)
(* builds it (no floating point).                                          *)
(*                                                                         *)
(* A format string is the sequence of its directives, each with the        *)
(* argument va_arg delivers for it: parsing is abstracted, what is done    *)
(* with the parsed fields is not.  Integers are turned into digits in a    *)
(* small buffer on the stack, least significant digit first, to which      *)
(* padding, prefix and sign are appended before it is written in reverse.  *)
(***************************************************************************)
EXTENDS Integers, SequencesExt

CONSTANTS
  BUFSZ,       \* PRINTF_NTOA_BUFFER_SIZE
  BITS,        \* length modifier, "int" for none -> bits of the integer type
  FORMATS,     \* format strings, each with its arguments
  SINKS,       \* "char" (printf), "fct" (fctprintf), "buffer" (snprintf and
               \* sprintf), "null" (a buffer that is NULL)
  MAXLENS,     \* snprintf's count; sprintf's is the largest size_t
  CELLS        \* bytes of memory at the buffer, the ones after it included

Two(n) == 2 ^ n

ASSUME PrintfAssumption ==
  /\ BUFSZ \in Nat \ {0}
  /\ BITS \in [{"hh", "h", "int", "l"} -> Nat \ {0}]
  /\ MAXLENS \subseteq 0..Two(BITS["l"])-1
  /\ SINKS \subseteq {"char", "fct", "buffer", "null"}
  /\ CELLS \in Nat

(* Facts of arithmetic that the proofs need: powers of two are positive,   *)
(* and twice the one before.                                               *)
ASSUME TwoAssumption ==
  \A m \in DOMAIN BITS : /\ Two(BITS[m] - 1) \in Nat \ {0}
                         /\ Two(BITS[m]) = 2 * Two(BITS[m] - 1)

(* What the caller of printf promises: each argument has the type its      *)
(* directive names, and a string is short enough for the unsigned int that *)
(* _strnlen_s returns: no memory holds a longer one (PZ_MEM_SIZE).         *)
TextConversions == {"text", "c", "s"}
IsSeq(s) == s \in Seq({s[i] : i \in DOMAIN s})
Matches(d) ==
  /\ d.width \in Int /\ d.prec \in Int
  /\ IF d.conv \in TextConversions
     THEN IsSeq(d.arg) /\ (d.conv = "s" => Len(d.arg) < Two(BITS["int"]))
     ELSE /\ d.conv \in {"d", "i", "u", "x", "X", "o", "b", "p"}
          /\ d.mod \in DOMAIN BITS /\ d.arg \in Int
ArgumentsMatch(f) == IsSeq(f) /\ \A i \in DOMAIN f : Matches(f[i])

ASSUME FormatsAssumption == \A f \in FORMATS : ArgumentsMatch(f)

VARIABLES
  fmt, sink, maxlen,   \* the call
  pos,         \* the next directive
  pc,          \* "format", "digits", "ntoa", "out" or "done"
  conv,        \* the integer conversion at work: see Conversion
  value,       \* what is left of the integer to convert
  buf,         \* the digit buffer, as far as it is filled
  todo,        \* characters about to be passed to out()
  idx,         \* characters passed to out() so far
  text,        \* these characters (history)
  sent,        \* how many of them reached _putchar
  cells,       \* the caller's buffer and what follows it
  result       \* what the call returns, an int

callVars == <<fmt, sink, maxlen>>
numberVars == <<conv, value>>
outVars == <<idx, text, sent, cells, result>>
printfVars == <<callVars, pos, pc, numberVars, buf, todo, outVars>>

NUL == "\\0"

(* No precision in the directive: a number below those an int can hold.    *)
NoPrec == -Two(BITS["int"])

-----------------------------------------------------------------------------
MinOf(a, b) == IF a < b THEN a ELSE b
MaxOf(a, b) == IF a < b THEN b ELSE a
Repeat(c, n) == [i \in 1..MaxOf(n, 0) |-> c]

Base(c) == CASE c \in {"x", "X", "p"} -> 16 [] c = "o" -> 8 [] c = "b" -> 2
             [] c \in {"d", "i", "u"} -> 10
Signed(c) == c \in {"d", "i"}

Digit(n, upper) ==
  LET lower == <<"0", "1", "2", "3", "4", "5", "6", "7", "8", "9",
                 "a", "b", "c", "d", "e", "f">>
      capital == <<"A", "B", "C", "D", "E", "F">>
  IN  IF upper /\ n >= 10 THEN capital[n - 9] ELSE lower[n + 1]

(* The argument as the C type names it.                                    *)
Unsigned(v, bits) == v % Two(bits)
TwosComplement(v, bits) ==
  LET u == Unsigned(v, bits)
  IN  IF u >= Two(bits - 1) THEN u - Two(bits) ELSE u

(* A directive: its flags, width (a negative one comes from a `*'),        *)
(* precision or NoPrec, length modifier, conversion and argument.          *)
Directive(fl, w, pr, mod, c, arg) ==
  [flags |-> fl, width |-> w, prec |-> pr, mod |-> mod, conv |-> c,
   arg |-> arg]

(* The fields as the parser leaves them: "P" is FLAGS_PRECISION, and a     *)
(* negative `*' precision counts as zero.                                  *)
Fields(d) ==
  [flags |-> d.flags \union (IF d.width < 0 THEN {"-"} ELSE {})
                     \union (IF d.prec = NoPrec THEN {} ELSE {"P"}),
   width |-> IF d.width < 0 THEN -d.width ELSE d.width,
   prec |-> IF d.prec > 0 THEN d.prec ELSE 0]

(* The integer that is read from the argument list.  A plain char is       *)
(* unsigned on RISC-V.                                                     *)
ArgValue(d) ==
  IF d.conv = "p" THEN Unsigned(d.arg, BITS["l"])
  ELSE IF Signed(d.conv) /\ d.mod # "hh"
  THEN TwosComplement(d.arg, BITS[d.mod])
  ELSE Unsigned(d.arg, BITS[d.mod])

(* What the integer cases of _vsnprintf pass to _ntoa_long: base, sign,    *)
(* precision, width and the flags that apply.                              *)
Conversion(d) ==
  LET f == Fields(d)
      v == ArgValue(d)
      dropped == (IF Base(d.conv) = 10 \/ v = 0 THEN {"#"} ELSE {})
                   \union (IF Signed(d.conv) THEN {} ELSE {"+", " "})
                   \union (IF "P" \in f.flags THEN {"0"} ELSE {})
  IN  IF d.conv = "p"
      THEN [base |-> 16, negative |-> FALSE, prec |-> f.prec,
            width |-> BITS["l"] \div 4,
            flags |-> (f.flags \ (IF v = 0 THEN {"#"} ELSE {}))
                        \union {"0", "U"}]
      ELSE [base |-> Base(d.conv), negative |-> v < 0, prec |-> f.prec,
            width |-> f.width,
            flags |-> (f.flags \ dropped)
                        \union (IF d.conv = "X" THEN {"U"} ELSE {})]

(* A bug MCPrintf finds: the sign is not taken off.                        *)
MagnitudeSigned(d) == ArgValue(d)

(* 0 - value in the argument's type, then unsigned.                        *)
Magnitude(d) ==
  LET bits == IF d.conv = "p" \/ d.mod = "l" THEN BITS["l"] ELSE BITS["int"]
      v == ArgValue(d)
  IN  IF v > 0 THEN v ELSE Unsigned(0 - v, bits)

-----------------------------------------------------------------------------
(* A bug MCPrintf finds: nobody asks whether there is room.                *)
PushUnchecked(b, c) == Append(b, c)

(* buf[len++] = c, where the code first asks len < BUFSZ.                  *)
Push(b, c) == IF Len(b) < BUFSZ THEN Append(b, c) ELSE b

(* Zeros up to n, or to the end of the buffer.                             *)
ZerosTo(b, n) == b \o Repeat("0", MinOf(n, BUFSZ) - Len(b))

(* A bug MCPrintf finds: the sign gets no column of its own.               *)
PadWidthNoSign(k) == k.width

(* _ntoa_format's width, one less when the sign will take a column.        *)
PadWidth(k) ==
  IF /\ "-" \notin k.flags /\ "0" \in k.flags /\ k.width > 0
     /\ k.negative \/ k.flags \intersect {"+", " "} # {}
  THEN k.width - 1 ELSE k.width

WithZeros(k, b) ==
  IF "-" \in k.flags THEN b
  ELSE LET z == ZerosTo(b, k.prec)
       IN  IF "0" \in k.flags THEN ZerosTo(z, PadWidth(k)) ELSE z

(* The `#' prefix; without a precision it takes the place of the last      *)
(* characters when the buffer is as long as the width.                     *)
WithPrefix(k, b) ==
  LET full == /\ "P" \notin k.flags
              /\ Len(b) > 0
              /\ Len(b) \in {k.prec, PadWidth(k)}
      n == Len(b) - (IF ~full THEN 0 ELSE IF k.base = 16 THEN 2 ELSE 1)
      cut == SubSeq(b, 1, MaxOf(n, 0))
      letter == CASE k.base = 16 -> IF "U" \in k.flags THEN <<"X">> ELSE <<"x">>
                  [] k.base = 2 -> <<"b">>
                  [] OTHER -> <<>>
      lettered == IF letter = <<>> THEN cut ELSE Push(cut, letter[1])
  IN  IF "#" \in k.flags THEN Push(lettered, "0") ELSE b

WithSign(k, b) ==
  IF k.negative THEN Push(b, "-")
  ELSE IF "+" \in k.flags THEN Push(b, "+")
  ELSE IF " " \in k.flags THEN Push(b, " ")
  ELSE b

NtoaFormat(k, b) == WithSign(k, WithPrefix(k, WithZeros(k, b)))

(* _out_rev: the buffer in reverse, with blanks on one side.               *)
OutRev(k, b) ==
  LET blanks == Repeat(" ", PadWidth(k) - Len(b))
  IN  IF "-" \in k.flags THEN Reverse(b) \o blanks
      ELSE IF "0" \in k.flags THEN Reverse(b)
      ELSE blanks \o Reverse(b)

(* The %s and %c cases: s, cut to the precision, with blanks on one side.  *)
OutString(d, s) ==
  LET f == Fields(d)
      shown == IF "P" \in f.flags /\ d.conv = "s"
               THEN SubSeq(s, 1, MinOf(Len(s), f.prec)) ELSE s
      blanks == Repeat(" ", f.width - Len(shown))
  IN  IF "-" \in f.flags THEN shown \o blanks ELSE blanks \o shown

-----------------------------------------------------------------------------
PrintfInit ==
  /\ fmt \in FORMATS /\ sink \in SINKS
  /\ maxlen \in (IF sink = "buffer" THEN MAXLENS ELSE {Two(BITS["l"]) - 1})
  /\ pos = 1 /\ pc = "format"
  /\ conv = [base |-> 10, negative |-> FALSE, prec |-> 0, width |-> 0,
             flags |-> {}]
  /\ value = 0
  /\ buf = <<>> /\ todo = <<>> /\ text = <<>>
  /\ idx = 0 /\ sent = 0 /\ result = 0
  /\ cells = [i \in 0..CELLS-1 |-> "?"]

(* A character outside any directive, and "%%"; %c; %s.                    *)
FormatText ==
  /\ pc = "format" /\ pos <= Len(fmt)
  /\ fmt[pos].conv \in TextConversions
  /\ todo' = IF fmt[pos].conv = "text" THEN fmt[pos].arg
             ELSE OutString(fmt[pos], fmt[pos].arg)
  /\ pc' = "out"
  /\ UNCHANGED <<callVars, pos, numberVars, buf, outVars>>

(* An integer; no digit at all for a zero with an explicit precision.      *)
FormatInt ==
  /\ pc = "format" /\ pos <= Len(fmt)
  /\ fmt[pos].conv \notin TextConversions
  /\ conv' = Conversion(fmt[pos])
  /\ value' = Magnitude(fmt[pos])
  /\ buf' = <<>>
  /\ pc' = IF "P" \in conv'.flags /\ value' = 0 THEN "ntoa" ELSE "digits"
  /\ UNCHANGED <<callVars, pos, todo, outVars>>

(* One turn of _ntoa_long's loop.                                          *)
NtoaDigit ==
  /\ pc = "digits"
  /\ buf' = Append(buf, Digit(value % conv.base, "U" \in conv.flags))
  /\ value' = value \div conv.base
  /\ pc' = IF value' # 0 /\ Len(buf') < BUFSZ THEN "digits" ELSE "ntoa"
  /\ UNCHANGED <<callVars, pos, conv, todo, outVars>>

Ntoa ==
  /\ pc = "ntoa"
  /\ buf' = NtoaFormat(conv, buf)
  /\ todo' = OutRev(conv, buf')
  /\ pc' = "out"
  /\ UNCHANGED <<callVars, pos, numberVars, outVars>>

(* The buffer after out() got the characters s for the indices from i on:  *)
(* _out_buffer stores those below maxlen.                                  *)
Stored(s, i) ==
  IF sink # "buffer" THEN cells
  ELSE [a \in DOMAIN cells |->
          IF i <= a /\ a < i + Len(s) /\ a < maxlen THEN s[a - i + 1]
          ELSE cells[a]]

(* out(), for one character after the other: _out_char and _out_fct pass   *)
(* on all but NUL, _out_null drops them.  idx is a size_t; the model does  *)
(* not wrap it, and nothing is claimed of texts that would.                *)
Out ==
  /\ pc = "out"
  /\ cells' = Stored(todo, idx)
  /\ sent' = IF sink \notin {"char", "fct"} THEN sent
             ELSE sent + Cardinality({i \in DOMAIN todo : todo[i] # NUL})
  /\ idx' = idx + Len(todo)
  /\ text' = text \o todo
  /\ todo' = <<>>
  /\ pos' = pos + 1
  /\ pc' = "format"
  /\ UNCHANGED <<callVars, numberVars, buf, result>>

(* A bug MCPrintfScan finds: the NUL of a cut text is dropped by out().    *)
NulIndexAtCount == MinOf(idx, maxlen)

(* Where the terminating NUL goes: maxlen - 1U is the largest size_t for a *)
(* maxlen of 0.                                                            *)
NulIndex == IF idx < maxlen THEN idx ELSE (maxlen - 1) % Two(BITS["l"])

(* The termination, through out() like any other character, and the return *)
(* of idx, converted from size_t to int.                                   *)
Terminate ==
  /\ pc = "format" /\ pos > Len(fmt)
  /\ cells' = Stored(<<NUL>>, NulIndex)
  /\ result' = TwosComplement(idx, BITS["int"])
  /\ pc' = "done"
  /\ UNCHANGED <<callVars, pos, numberVars, buf, todo, idx, text, sent>>

PrintfNext ==
  FormatText \/ FormatInt \/ NtoaDigit \/ Ntoa \/ Out \/ Terminate

PrintfSpec == PrintfInit /\ [][PrintfNext]_printfVars

-----------------------------------------------------------------------------
(* The types of the variables.                                             *)
PrintfTypeOK ==
  /\ sink \in SINKS /\ maxlen \in Nat
  /\ pos \in 1..Len(fmt) + 1
  /\ pc \in {"format", "digits", "ntoa", "out", "done"}
  /\ conv.base \in {2, 8, 10, 16} /\ conv.negative \in BOOLEAN
  /\ value \in Nat /\ idx \in Nat /\ sent \in Nat
  /\ DOMAIN cells = 0..CELLS-1
  /\ result \in -Two(BITS["int"] - 1)..Two(BITS["int"] - 1) - 1

(* NtoaBounded: no combination of precision, padding, prefix and sign      *)
(* writes behind the digit buffer, though each of them appends to it.      *)
NtoaBounded == Len(buf) <= BUFSZ

(* SnprintfContract: whatever the format and count, snprintf returns the   *)
(* length of the whole text where an int can hold it, and what is left of  *)
(* it in an int where it cannot; it leaves the text's first count - 1      *)
(* characters and a NUL in the buffer, and writes nothing at or after      *)
(* count, count 0 included.  (A text of 2^64 characters would wrap idx.)   *)
SnprintfContract ==
  pc = "done" /\ sink = "buffer" /\ Len(text) < Two(BITS["l"]) =>
    /\ Len(text) < Two(BITS["int"] - 1) => result = Len(text)
    /\ result = TwosComplement(Len(text), BITS["int"])
    /\ \A i \in DOMAIN cells :
         cells[i] = IF i >= maxlen THEN "?"
                    ELSE IF i < Len(text) /\ i < maxlen - 1 THEN text[i + 1]
                    ELSE IF i = MinOf(Len(text), maxlen - 1) THEN NUL
                    ELSE "?"

(* ReturnCountsWritten: printf.h says that printf returns the number of    *)
(* characters that are written, and fctprintf the number that are sent to  *)
(* the output function.                                                    *)
ReturnCountsWritten == pc = "done" /\ sink \in {"char", "fct"} => sent = result

(* BufferHoldsNumber: printf.c says that the digit buffer must be big      *)
(* enough for one converted number: the digits end before the buffer does. *)
BufferHoldsNumber == pc = "ntoa" => value = 0

=============================================================================
