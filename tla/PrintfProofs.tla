----------------------------- MODULE PrintfProofs ---------------------------
(***************************************************************************)
(* What is proved of Printf for every format, every count and every size   *)
(* of the digit buffer and of the integers: the buffers are never overrun  *)
(* (NtoaBounded) and snprintf's result and the caller's buffer are as the  *)
(* contract has them (SnprintfContract), whether the directives are given  *)
(* (Printf) or read off the format (PrintfScan).                           *)
(***************************************************************************)
EXTENDS PrintfScan, FiniteSetTheorems, TLAPS

-----------------------------------------------------------------------------
(* Every set of natural numbers that is not empty has a least element.     *)
LEMMA LeastNat ==
  ASSUME NEW T \in SUBSET Nat, T # {}
  PROVE  \E x \in T : \A y \in T : x <= y
<1> DEFINE R == {ss \in Nat \X Nat : ss[1] < ss[2]}
<1>1. OpToRel(<, Nat) = R  BY DEF OpToRel
<1>2. IsWellFoundedOn(R, Nat)  BY <1>1, NatLessThanWellFounded
<1> HIDE DEF R
<1>3. PICK x \in T : \A y \in T : ~(<<y, x>> \in R)  BY <1>2, WFMin
<1>4. ASSUME NEW y \in T
      PROVE  x <= y
  <2>1. <<y, x>> \in Nat \X Nat => (<<y, x>> \in R <=> y < x)  BY DEF R
  <2> QED  BY <2>1, <1>3
<1> QED  BY <1>4

(* Strings, whatever their characters.                                     *)

(* Facts about strings, whatever their characters are: a sequence is a     *)
(* string,                                                                 *)
LEMMA StringIs ==
  ASSUME NEW A, NEW s \in Seq(A)
  PROVE  IsSeq(s) /\ Len(s) \in Nat /\ DOMAIN s = 1..Len(s)
BY DEF IsSeq

(* a function on 1..n is one,                                              *)
LEMMA StringOf ==
  ASSUME NEW n \in Nat, NEW s, s = [i \in 1..n |-> s[i]]
  PROVE  IsSeq(s) /\ Len(s) = n
<1>1. s \in Seq({s[i] : i \in 1..n}) /\ Len(s) = n  OBVIOUS
<1> QED  BY <1>1, StringIs

(* two strings one after the other,                                        *)
LEMMA Concatenation ==
  ASSUME NEW s, NEW t, IsSeq(s), IsSeq(t)
  PROVE  /\ IsSeq(s \o t)
         /\ Len(s \o t) = Len(s) + Len(t)
         /\ \A i \in 1..Len(s) + Len(t) :
              (s \o t)[i] = IF i <= Len(s) THEN s[i] ELSE t[i - Len(s)]
<1> DEFINE A == {s[i] : i \in DOMAIN s} \union {t[i] : i \in DOMAIN t}
<1>1. s \in Seq(A) /\ t \in Seq(A)  BY DEF IsSeq
<1> HIDE DEF A
<1>2. s \o t \in Seq(A)  BY <1>1
<1>3. IsSeq(s \o t)  BY <1>2, StringIs
<1> QED  BY <1>1, <1>3

(* a string and a character,                                               *)
LEMMA Appending ==
  ASSUME NEW s, IsSeq(s), NEW c
  PROVE  IsSeq(Append(s, c)) /\ Len(Append(s, c)) = Len(s) + 1
<1> DEFINE A == {s[i] : i \in DOMAIN s} \union {c}
<1>1. s \in Seq(A) /\ c \in A  BY DEF IsSeq
<1> HIDE DEF A
<1>2. Append(s, c) \in Seq(A)  BY <1>1
<1>3. IsSeq(Append(s, c))  BY <1>2, StringIs
<1> QED  BY <1>1, <1>3

(* and the beginning of a string.                                          *)
LEMMA Beginning ==
  ASSUME NEW s, IsSeq(s), NEW n \in 0..Len(s)
  PROVE  IsSeq(SubSeq(s, 1, n)) /\ Len(SubSeq(s, 1, n)) = n
<1> DEFINE A == {s[i] : i \in DOMAIN s}
<1>1. s \in Seq(A)  BY DEF IsSeq
<1> HIDE DEF A
<1>2. SubSeq(s, 1, n) \in Seq(A)  BY <1>1
<1>3. IsSeq(SubSeq(s, 1, n))  BY <1>2, StringIs
<1>4. Len(s) \in Nat  BY <1>1
<1> QED  BY <1>1, <1>3, <1>4

(* Padding is as long as asked for, and empty when the field is full.      *)
LEMMA RepeatIs ==
  ASSUME NEW c, NEW n \in Int
  PROVE  IsSeq(Repeat(c, n)) /\ Len(Repeat(c, n)) = MaxOf(n, 0)
<1>1. MaxOf(n, 0) \in Nat  BY DEF MaxOf
<1> DEFINE r == Repeat(c, n)
<1>2. r = [i \in 1..MaxOf(n, 0) |-> r[i]]  BY DEF Repeat
<1> HIDE DEF r
<1>3. IsSeq(r) /\ Len(r) = MaxOf(n, 0)  BY <1>1, <1>2, StringOf
<1> QED  BY <1>3 DEF r

-----------------------------------------------------------------------------
(* Each step of a conversion returns a string, and those that fill the     *)
(* digit buffer keep within it.                                            *)

InBuffer(b) == IsSeq(b) /\ Len(b) \in 0..BUFSZ

(* One more character, where there is room for it.                         *)
LEMMA PushFits ==
  ASSUME NEW b, InBuffer(b), NEW c
  PROVE  InBuffer(Push(b, c))
BY PrintfAssumption, Appending DEF Push, InBuffer

(* Leading zeros, up to a number of digits or to the buffer's end.         *)
LEMMA ZerosFit ==
  ASSUME NEW b, InBuffer(b), NEW n \in Int
  PROVE  InBuffer(ZerosTo(b, n))
<1> DEFINE k == MinOf(n, BUFSZ) - Len(b)
           z == Repeat("0", k)
<1>1. k \in Int /\ Len(b) \in Nat /\ k <= BUFSZ - Len(b) /\ BUFSZ \in Nat
  BY PrintfAssumption DEF MinOf, InBuffer
<1> HIDE DEF k
<1>2. IsSeq(z) /\ Len(z) = MaxOf(k, 0)  BY <1>1, RepeatIs
<1> HIDE DEF z
<1>3. IsSeq(b \o z) /\ Len(b \o z) = Len(b) + Len(z)
  BY <1>2, Concatenation DEF InBuffer
<1>4. Len(b) + Len(z) \in 0..BUFSZ  BY <1>1, <1>2 DEF MaxOf, InBuffer
<1> QED  BY <1>3, <1>4 DEF ZerosTo, k, z, InBuffer

IsConversion(k) ==
  /\ k.base \in {2, 8, 10, 16} /\ k.negative \in BOOLEAN
  /\ k.prec \in Int /\ k.width \in Int

(* The width left for the digits and their padding is a number.            *)
LEMMA PadWidthInt ==
  ASSUME NEW k, IsConversion(k)
  PROVE  PadWidth(k) \in Int
<1>1. PadWidth(k) = k.width - 1 \/ PadWidth(k) = k.width
  BY Zenon DEF PadWidth
<1> QED  BY <1>1 DEF IsConversion

(* Zeros for precision and width stop at the end of the digit buffer.      *)
LEMMA WithZerosFits ==
  ASSUME NEW k, IsConversion(k), NEW b, InBuffer(b)
  PROVE  InBuffer(WithZeros(k, b))
<1>1. k.prec \in Int  BY DEF IsConversion
<1>2. PadWidth(k) \in Int  BY PadWidthInt
<1> DEFINE z == ZerosTo(b, k.prec)
<1>3. InBuffer(z)  BY <1>1, ZerosFit
<1>4. InBuffer(ZerosTo(z, PadWidth(k)))  BY <1>2, <1>3, ZerosFit
<1> QED  BY <1>3, <1>4 DEF WithZeros

(* The prefix: a part of the buffer, and what Push finds room for.         *)
LEMMA WithPrefixFits ==
  ASSUME NEW k, IsConversion(k), NEW b, InBuffer(b)
  PROVE  InBuffer(WithPrefix(k, b))
<1> DEFINE full == /\ "P" \notin k.flags
                   /\ Len(b) > 0
                   /\ Len(b) \in {k.prec, PadWidth(k)}
           n == Len(b) - (IF ~full THEN 0 ELSE IF k.base = 16 THEN 2 ELSE 1)
           cut == SubSeq(b, 1, MaxOf(n, 0))
           letter == CASE k.base = 16 ->
                            IF "U" \in k.flags THEN <<"X">> ELSE <<"x">>
                       [] k.base = 2 -> <<"b">>
                       [] OTHER -> <<>>
           lettered == IF letter = <<>> THEN cut ELSE Push(cut, letter[1])
<1>1. Len(b) \in Nat /\ BUFSZ \in Nat  BY PrintfAssumption DEF InBuffer
<1> HIDE DEF full
<1>2. n \in Int /\ n <= Len(b)  BY <1>1
<1> HIDE DEF n
<1>3. MaxOf(n, 0) \in 0..Len(b)  BY <1>1, <1>2 DEF MaxOf
<1>4. InBuffer(cut)  BY <1>1, <1>3, Beginning DEF InBuffer
<1> HIDE DEF cut, letter
<1>5. InBuffer(lettered)  BY <1>4, PushFits
<1> HIDE DEF lettered
<1>6. InBuffer(Push(lettered, "0"))  BY <1>5, PushFits
<1>7. WithPrefix(k, b) = IF "#" \in k.flags THEN Push(lettered, "0") ELSE b
  BY DEF WithPrefix, lettered, letter, cut, n, full
<1> QED  BY <1>6, <1>7

(* And so do the prefix and the sign.                                      *)
LEMMA NtoaFormatFits ==
  ASSUME NEW k, IsConversion(k), NEW b, InBuffer(b)
  PROVE  InBuffer(NtoaFormat(k, b))
<1> DEFINE c == WithPrefix(k, WithZeros(k, b))
<1>1. InBuffer(c)  BY WithZerosFits, WithPrefixFits
<1> HIDE DEF c
<1>2. InBuffer(WithSign(k, c))  BY <1>1, PushFits DEF WithSign
<1> QED  BY <1>2 DEF NtoaFormat, c

(* What is written of the buffer, and of a string.                         *)
LEMMA OutRevIs ==
  ASSUME NEW k, IsConversion(k), NEW b, IsSeq(b)
  PROVE  IsSeq(OutRev(k, b))
<1> DEFINE blanks == Repeat(" ", PadWidth(k) - Len(b))
           r == Reverse(b)
<1>1. Len(b) \in Nat  BY StringIs DEF IsSeq
<1>2. PadWidth(k) - Len(b) \in Int  BY <1>1, PadWidthInt
<1>3. IsSeq(blanks)  BY <1>2, RepeatIs
<1>4. r = [i \in 1..Len(b) |-> r[i]]  BY DEF Reverse
<1> HIDE DEF blanks, r
<1>5. IsSeq(r)  BY <1>1, <1>4, StringOf
<1>6. IsSeq(r \o blanks) /\ IsSeq(blanks \o r)
  BY <1>3, <1>5, Concatenation
<1> QED  BY <1>5, <1>6 DEF OutRev, blanks, r

(* What a text directive writes is a string.                               *)
LEMMA OutStringIs ==
  ASSUME NEW d, Matches(d), d.conv \in TextConversions
  PROVE  IsSeq(OutString(d, d.arg))
<1> DEFINE f == Fields(d)
           s == d.arg
           shown == IF "P" \in f.flags /\ d.conv = "s"
                    THEN SubSeq(s, 1, MinOf(Len(s), f.prec)) ELSE s
           blanks == Repeat(" ", f.width - Len(shown))
<1>1. IsSeq(s)  BY DEF Matches
<1>2. f.width \in Nat /\ f.prec \in Nat  BY DEF Fields, Matches
<1> HIDE DEF f, s
<1>3. Len(s) \in Nat  BY <1>1, StringIs DEF IsSeq
<1>4. MinOf(Len(s), f.prec) \in 0..Len(s)  BY <1>2, <1>3 DEF MinOf
<1>5. IsSeq(shown)  BY <1>1, <1>4, Beginning
<1> HIDE DEF shown
<1>6. Len(shown) \in Nat  BY <1>5, StringIs DEF IsSeq
<1>7. f.width - Len(shown) \in Int  BY <1>2, <1>6
<1>8. IsSeq(blanks)  BY <1>7, RepeatIs
<1> HIDE DEF blanks
<1>9. IsSeq(shown \o blanks) /\ IsSeq(blanks \o shown)
  BY <1>5, <1>8, Concatenation
<1> QED  BY <1>9 DEF OutString, f, s, shown, blanks

(* No precision is told by a number that is no precision.                  *)
LEMMA NoPrecIs == NoPrec \in Int /\ NoPrec < 0
BY PrintfAssumption, TwoAssumption DEF NoPrec

(* The conversion and the number that a directive asks for.                *)
LEMMA ArgValueInt ==
  ASSUME NEW d, Matches(d), d.conv \notin TextConversions
  PROVE  ArgValue(d) \in Int
<1>1. d.arg \in Int /\ d.mod \in DOMAIN BITS  BY DEF Matches
<1>2. "l" \in DOMAIN BITS  BY PrintfAssumption
<1>3. \A m \in DOMAIN BITS : /\ Unsigned(d.arg, BITS[m]) \in Int
                             /\ TwosComplement(d.arg, BITS[m]) \in Int
  BY <1>1, TwoAssumption DEF Unsigned, TwosComplement
<1> QED  BY <1>1, <1>2, <1>3 DEF ArgValue

(* An integer directive with an argument of its type is a conversion,      *)
LEMMA ConversionIs ==
  ASSUME NEW d, Matches(d), d.conv \notin TextConversions
  PROVE  IsConversion(Conversion(d))
<1>1. d.conv \in {"d", "i", "u", "x", "X", "o", "b", "p"}  BY DEF Matches
<1>2. Base(d.conv) \in {2, 8, 10, 16}  BY <1>1 DEF Base
<1>3. Fields(d).width \in Nat /\ Fields(d).prec \in Nat
  BY DEF Fields, Matches
<1>4. BITS["l"] \div 4 \in Int
  <2>1. BITS["l"] \in Nat  BY PrintfAssumption
  <2> QED  BY <2>1
<1>5. ArgValue(d) \in Int  BY ArgValueInt
<1>6. CASE d.conv = "p"  BY <1>3, <1>4, <1>6 DEF Conversion, IsConversion
<1>7. CASE d.conv # "p"
  BY <1>2, <1>3, <1>5, <1>7 DEF Conversion, IsConversion
<1> QED  BY <1>6, <1>7

(* and the number to convert is not negative.                              *)
LEMMA MagnitudeNat ==
  ASSUME NEW d, Matches(d), d.conv \notin TextConversions
  PROVE  Magnitude(d) \in Nat
<1>1. ArgValue(d) \in Int  BY ArgValueInt
<1>2. \A m \in {"l", "int"} : Two(BITS[m]) \in Nat \ {0}
  BY PrintfAssumption, TwoAssumption
<1>3. \A m \in {"l", "int"} : Unsigned(0 - ArgValue(d), BITS[m]) \in Nat
  BY <1>1, <1>2 DEF Unsigned
<1> QED  BY <1>1, <1>3 DEF Magnitude

-----------------------------------------------------------------------------
(* The inductive invariant: where the formatter is in the format; what the *)
(* integer at work looks like, with room for a digit while the loop runs;  *)
(* and, until the NUL is written, the caller's buffer holds as much of the *)
(* text as the count allows, and nothing else.                             *)
CallInv ==
  /\ sink \in SINKS /\ maxlen \in 0..Two(BITS["l"]) - 1
  /\ ArgumentsMatch(fmt) /\ pos \in 1..Len(fmt) + 1
  /\ pc \in {"format", "digits", "ntoa", "out", "done"}
  /\ pc \in {"digits", "ntoa", "out"} => pos <= Len(fmt)

NumberInv ==
  /\ IsConversion(conv) /\ value \in Nat
  /\ InBuffer(buf)
  /\ pc = "digits" => Len(buf) < BUFSZ

OutInv ==
  /\ IsSeq(todo) /\ IsSeq(text)
  /\ idx = Len(text) /\ sent \in Nat
  /\ cells = [i \in 0..CELLS-1 |-> cells[i]]
  /\ result \in -Two(BITS["int"] - 1)..Two(BITS["int"] - 1) - 1

StoredInv ==
  sink = "buffer" /\ pc # "done" =>
    \A i \in 0..CELLS-1 :
      cells[i] = IF i < maxlen /\ i < Len(text) THEN text[i + 1] ELSE "?"

PrintfIInv ==
  CallInv /\ NumberInv /\ OutInv /\ StoredInv /\ SnprintfContract

(* A number as an int is one that int holds, and the same where it can be. *)
LEMMA AsInt ==
  ASSUME NEW v \in Nat
  PROVE  /\ TwosComplement(v, BITS["int"])
               \in -Two(BITS["int"] - 1)..Two(BITS["int"] - 1) - 1
         /\ v < Two(BITS["int"] - 1) => TwosComplement(v, BITS["int"]) = v
<1> DEFINE h == Two(BITS["int"] - 1)
           m == Two(BITS["int"])
           u == v % m
<1>1. h \in Nat \ {0} /\ m = 2 * h  BY PrintfAssumption, TwoAssumption
<1> HIDE DEF h, m
<1>2. u \in 0..m - 1 /\ (v < m => u = v)  BY <1>1
<1> HIDE DEF u
<1>3. TwosComplement(v, BITS["int"]) = IF u >= h THEN u - m ELSE u
  BY DEF TwosComplement, Unsigned, h, m, u
<1>4. (IF u >= h THEN u - m ELSE u) \in -h..h - 1  BY <1>1, <1>2
<1>5. v < h => (IF u >= h THEN u - m ELSE u) = v  BY <1>1, <1>2
<1> QED  BY <1>3, <1>4, <1>5 DEF h

(* The digits of the largest number of a base.                             *)
LEMMA QuotientNat ==
  ASSUME NEW v \in Nat, NEW b \in {2, 8, 10, 16}
  PROVE  v \div b \in Nat
<1>1. CASE b = 2  BY <1>1
<1>2. CASE b = 8  BY <1>2
<1>3. CASE b = 10  BY <1>3
<1>4. CASE b = 16  BY <1>4
<1> QED  BY <1>1, <1>2, <1>3, <1>4

(* A call starts with the invariant.                                       *)
LEMMA PrintfInitially == PrintfInit => PrintfIInv
<1> SUFFICES ASSUME PrintfInit PROVE PrintfIInv
  OBVIOUS
<1>1. BUFSZ \in Nat \ {0} /\ CELLS \in Nat
  BY PrintfAssumption
<1>2. Two(BITS["l"]) \in Nat \ {0}  BY PrintfAssumption, TwoAssumption
<1>3. maxlen \in 0..Two(BITS["l"]) - 1
  BY <1>2, PrintfAssumption DEF PrintfInit
<1>4. IsSeq(<<>>) /\ Len(<<>>) = 0  BY StringIs DEF IsSeq
<1>5. CallInv
  <2>1. ArgumentsMatch(fmt)  BY FormatsAssumption DEF PrintfInit
  <2>2. Len(fmt) \in Nat  BY <2>1, StringIs DEF ArgumentsMatch, IsSeq
  <2> QED  BY <1>3, <2>1, <2>2 DEF CallInv, PrintfInit
<1>6. NumberInv
  BY <1>1, <1>4 DEF NumberInv, IsConversion, InBuffer, PrintfInit
<1>7. OutInv
  <2>1. Two(BITS["int"] - 1) \in Nat \ {0}
    BY PrintfAssumption, TwoAssumption
  <2> QED  BY <1>1, <1>4, <2>1 DEF OutInv, PrintfInit
<1>8. StoredInv  BY <1>1, <1>4 DEF StoredInv, PrintfInit
<1>9. SnprintfContract  BY DEF SnprintfContract, PrintfInit
<1> QED  BY <1>5, <1>6, <1>7, <1>8, <1>9 DEF PrintfIInv

(* The directive at work and its argument.                                 *)
LEMMA DirectiveMatches ==
  ASSUME CallInv, pos <= Len(fmt)
  PROVE  Matches(fmt[pos])
<1>1. DOMAIN fmt = 1..Len(fmt)
  BY StringIs DEF CallInv, ArgumentsMatch, IsSeq
<1> QED  BY <1>1 DEF CallInv, ArgumentsMatch

(* The steps one by one: a text directive,                                 *)
LEMMA FormatTextStep ==
  ASSUME PrintfIInv, FormatText
  PROVE  PrintfIInv'
<1> USE DEF callVars, numberVars, outVars
<1>1. Matches(fmt[pos])  BY DirectiveMatches DEF PrintfIInv, FormatText
<1>2. CallInv'  BY DEF PrintfIInv, CallInv, FormatText
<1>3. NumberInv'  BY DEF PrintfIInv, NumberInv, FormatText
<1>4. IsSeq(todo')
  <2>1. fmt[pos].conv = "text" => IsSeq(fmt[pos].arg)
    BY <1>1 DEF Matches, TextConversions
  <2>2. IsSeq(OutString(fmt[pos], fmt[pos].arg))
    BY <1>1, OutStringIs DEF FormatText
  <2> QED  BY <2>1, <2>2 DEF FormatText
<1>5. OutInv'  BY <1>4 DEF PrintfIInv, OutInv, FormatText
<1>6. StoredInv'  BY DEF PrintfIInv, StoredInv, FormatText
<1>7. SnprintfContract'  BY DEF SnprintfContract, FormatText
<1> QED  BY <1>2, <1>3, <1>5, <1>6, <1>7 DEF PrintfIInv

(* the start of an integer directive,                                      *)
LEMMA FormatIntStep ==
  ASSUME PrintfIInv, FormatInt
  PROVE  PrintfIInv'
<1> USE DEF callVars, numberVars, outVars
<1>1. Matches(fmt[pos])  BY DirectiveMatches DEF PrintfIInv, FormatInt
<1>2. pc' \in {"digits", "ntoa"}  BY DEF FormatInt
<1>3. CallInv'  BY <1>2 DEF PrintfIInv, CallInv, FormatInt
<1>4. NumberInv'
  <2>1. IsConversion(conv')  BY <1>1, ConversionIs DEF FormatInt
  <2>2. value' \in Nat  BY <1>1, MagnitudeNat DEF FormatInt
  <2>3. IsSeq(<<>>) /\ Len(<<>>) = 0  BY StringIs DEF IsSeq
  <2>4. InBuffer(buf') /\ Len(buf') < BUFSZ
    BY <2>3, PrintfAssumption DEF FormatInt, InBuffer
  <2> QED  BY <2>1, <2>2, <2>4 DEF NumberInv
<1>5. OutInv'  BY DEF PrintfIInv, OutInv, FormatInt
<1>6. StoredInv'  BY <1>2 DEF PrintfIInv, StoredInv, FormatInt
<1>7. SnprintfContract'  BY <1>2 DEF SnprintfContract
<1> QED  BY <1>3, <1>4, <1>5, <1>6, <1>7 DEF PrintfIInv

(* a turn of the digit loop,                                               *)
LEMMA NtoaDigitStep ==
  ASSUME PrintfIInv, NtoaDigit
  PROVE  PrintfIInv'
<1> USE DEF callVars, numberVars, outVars
<1>1. pc' \in {"digits", "ntoa"}  BY DEF NtoaDigit
<1>2. CallInv'  BY <1>1 DEF PrintfIInv, CallInv, NtoaDigit
<1>3. NumberInv'
  <2>1. IsConversion(conv') /\ value' \in Nat
    BY QuotientNat DEF PrintfIInv, NumberInv, IsConversion, NtoaDigit
  <2>2. IsSeq(buf') /\ Len(buf') = Len(buf) + 1
    BY Appending DEF PrintfIInv, NumberInv, InBuffer, NtoaDigit
  <2>3. InBuffer(buf')
    BY <2>2, PrintfAssumption
    DEF PrintfIInv, NumberInv, InBuffer, NtoaDigit
  <2>4. pc' = "digits" => Len(buf') < BUFSZ  BY DEF NtoaDigit
  <2> QED  BY <2>1, <2>3, <2>4 DEF NumberInv
<1>4. OutInv'  BY DEF PrintfIInv, OutInv, NtoaDigit
<1>5. StoredInv'  BY <1>1 DEF PrintfIInv, StoredInv, NtoaDigit
<1>6. SnprintfContract'  BY <1>1 DEF SnprintfContract
<1> QED  BY <1>2, <1>3, <1>4, <1>5, <1>6 DEF PrintfIInv

(* the padding, prefix and sign,                                           *)
LEMMA NtoaStep ==
  ASSUME PrintfIInv, Ntoa
  PROVE  PrintfIInv'
<1> USE DEF callVars, numberVars, outVars
<1>1. CallInv'  BY DEF PrintfIInv, CallInv, Ntoa
<1>2. IsConversion(conv) /\ InBuffer(buf)  BY DEF PrintfIInv, NumberInv
<1>3. InBuffer(buf')  BY <1>2, NtoaFormatFits DEF Ntoa
<1>4. NumberInv'  BY <1>3 DEF PrintfIInv, NumberInv, Ntoa
<1>5. IsSeq(todo')  BY <1>2, <1>3, OutRevIs DEF Ntoa, InBuffer
<1>6. OutInv'  BY <1>5 DEF PrintfIInv, OutInv, Ntoa
<1>7. StoredInv'  BY DEF PrintfIInv, StoredInv, Ntoa
<1>8. SnprintfContract'  BY DEF SnprintfContract, Ntoa
<1> QED  BY <1>1, <1>4, <1>6, <1>7, <1>8 DEF PrintfIInv

(* The buffer gets the characters of todo behind those of text.            *)
LEMMA OutStep ==
  ASSUME PrintfIInv, Out
  PROVE  PrintfIInv'
<1> USE DEF callVars, numberVars, outVars
<1>1. /\ IsSeq(todo) /\ IsSeq(text) /\ idx = Len(text)
      /\ cells = [i \in 0..CELLS-1 |-> cells[i]] /\ sent \in Nat
  BY DEF PrintfIInv, OutInv
<1>2. Len(todo) \in Nat /\ DOMAIN todo = 1..Len(todo) /\ Len(text) \in Nat
  BY <1>1, StringIs DEF IsSeq
<1>3. /\ IsSeq(text') /\ Len(text') = Len(text) + Len(todo)
      /\ \A i \in 1..Len(text) + Len(todo) :
           text'[i] = IF i <= Len(text) THEN text[i] ELSE todo[i - Len(text)]
  BY <1>1, Concatenation DEF Out
<1>4. CallInv'
  <2>1. Len(fmt) \in Nat
    BY StringIs DEF PrintfIInv, CallInv, ArgumentsMatch, IsSeq
  <2> QED  BY <2>1 DEF PrintfIInv, CallInv, Out
<1>5. NumberInv'  BY DEF PrintfIInv, NumberInv, Out
<1>6. OutInv'
  <2>1. IsSeq(todo')  BY StringIs DEF Out, IsSeq
  <2>2. idx' = Len(text')  BY <1>1, <1>3 DEF Out
  <2>3. sent' \in Nat
    <3>1. IsFiniteSet(1..Len(todo))  BY <1>2, FS_Interval
    <3>2. {i \in DOMAIN todo : todo[i] # NUL} \subseteq 1..Len(todo)
      BY <1>2
    <3>3. IsFiniteSet({i \in DOMAIN todo : todo[i] # NUL})
      BY <3>1, <3>2, FS_Subset
    <3>4. Cardinality({i \in DOMAIN todo : todo[i] # NUL}) \in Nat
      BY <3>3, FS_CardinalityType
    <3> QED  BY <1>1, <3>4 DEF Out
  <2>4. cells' = [i \in 0..CELLS-1 |-> cells'[i]]
    BY <1>1 DEF Out, Stored
  <2> QED  BY <1>3, <2>1, <2>2, <2>3, <2>4 DEF PrintfIInv, OutInv, Out
<1>7. StoredInv'
  <2> SUFFICES ASSUME sink = "buffer", NEW i \in 0..CELLS-1
               PROVE  cells'[i] = IF i < maxlen /\ i < Len(text')
                                  THEN text'[i + 1] ELSE "?"
    BY DEF StoredInv, Out
  <2>1. cells[i] = IF i < maxlen /\ i < Len(text) THEN text[i + 1] ELSE "?"
    BY DEF PrintfIInv, StoredInv, Out
  <2>2. cells'[i] = IF /\ Len(text) <= i /\ i < Len(text) + Len(todo)
                       /\ i < maxlen
                    THEN todo[i - Len(text) + 1] ELSE cells[i]
    BY <1>1 DEF Out, Stored
  <2>3. maxlen \in Int  BY DEF PrintfIInv, CallInv
  <2>4. CELLS \in Nat  BY PrintfAssumption
  <2>5. CASE i < Len(text)
    BY <1>2, <1>3, <2>1, <2>2, <2>3, <2>4, <2>5
  <2>6. CASE Len(text) <= i /\ i < Len(text) + Len(todo)
    BY <1>2, <1>3, <2>1, <2>2, <2>3, <2>4, <2>6
  <2>7. CASE Len(text) + Len(todo) <= i
    BY <1>2, <1>3, <2>1, <2>2, <2>3, <2>4, <2>7
  <2> QED  BY <1>2, <2>4, <2>5, <2>6, <2>7
<1>8. SnprintfContract'  BY DEF SnprintfContract, Out
<1> QED  BY <1>4, <1>5, <1>6, <1>7, <1>8 DEF PrintfIInv

(* The NUL goes behind the text, or, where the text is too long, over its  *)
(* last character that fits; nowhere for a count of 0.                     *)
LEMMA TerminateStep ==
  ASSUME PrintfIInv, Terminate
  PROVE  PrintfIInv'
<1> USE DEF callVars, numberVars, outVars
<1>1. /\ IsSeq(todo) /\ IsSeq(text) /\ idx = Len(text)
      /\ cells = [i \in 0..CELLS-1 |-> cells[i]]
  BY DEF PrintfIInv, OutInv
<1>2. Len(text) \in Nat  BY <1>1, StringIs DEF IsSeq
<1>3. CallInv'  BY DEF PrintfIInv, CallInv, Terminate
<1>4. NumberInv'  BY DEF PrintfIInv, NumberInv, Terminate
<1>5. OutInv'
  <2>1. cells' = [i \in 0..CELLS-1 |-> cells'[i]]
    BY <1>1 DEF Terminate, Stored
  <2>2. result' \in -Two(BITS["int"] - 1)..Two(BITS["int"] - 1) - 1
    BY <1>1, <1>2, AsInt DEF Terminate
  <2> QED  BY <2>1, <2>2 DEF PrintfIInv, OutInv, Terminate
<1>6. StoredInv'  BY DEF StoredInv, Terminate
<1>7. SnprintfContract'
  <2> SUFFICES ASSUME sink = "buffer", NEW i \in 0..CELLS-1
               PROVE  cells'[i] =
                        IF i >= maxlen THEN "?"
                        ELSE IF i < Len(text) /\ i < maxlen - 1 THEN text[i + 1]
                        ELSE IF i = MinOf(Len(text), maxlen - 1) THEN NUL
                        ELSE "?"
    <3>1. /\ Len(text') < Two(BITS["int"] - 1) => result' = Len(text')
          /\ result' = TwosComplement(Len(text'), BITS["int"])
      BY <1>1, <1>2, AsInt DEF Terminate
    <3>2. DOMAIN cells' = 0..CELLS-1  BY <1>5 DEF OutInv
    <3> QED  BY <3>1, <3>2 DEF SnprintfContract, Terminate
  <2>1. cells[i] = IF i < maxlen /\ i < Len(text) THEN text[i + 1] ELSE "?"
    BY DEF PrintfIInv, StoredInv, Terminate
  <2>2. cells'[i] = IF /\ NulIndex <= i /\ i < NulIndex + 1 /\ i < maxlen
                    THEN <<NUL>>[i - NulIndex + 1] ELSE cells[i]
    BY <1>1 DEF Terminate, Stored
  <2>3. CELLS \in Nat /\ Two(BITS["l"]) \in Nat \ {0}
    BY PrintfAssumption, TwoAssumption
  <2>4. maxlen \in 0..Two(BITS["l"]) - 1  BY DEF PrintfIInv, CallInv
  <2>5. NulIndex \in Int
    BY <1>1, <1>2, <2>3, <2>4 DEF NulIndex
  <2>6. CASE maxlen = 0  BY <1>2, <2>1, <2>2, <2>3, <2>6
  <2>7. CASE maxlen > 0
    <3>1. NulIndex = MinOf(Len(text), maxlen - 1)
      <4>1. (maxlen - 1) % Two(BITS["l"]) = maxlen - 1
        BY <2>3, <2>4, <2>7
      <4> QED  BY <1>1, <1>2, <2>4, <2>7, <4>1 DEF NulIndex, MinOf
    <3>2. cells'[i] = IF i = NulIndex /\ i < maxlen THEN NUL ELSE cells[i]
      BY <2>2, <2>3, <2>5
    <3> QED  BY <1>2, <2>1, <2>3, <2>4, <2>7, <3>1, <3>2 DEF MinOf
  <2> QED  BY <2>4, <2>6, <2>7
<1> QED  BY <1>3, <1>4, <1>5, <1>6, <1>7 DEF PrintfIInv

(* and no step at all.                                                     *)
LEMMA PrintfStutters ==
  ASSUME PrintfIInv, UNCHANGED printfVars
  PROVE  PrintfIInv'
BY DEF PrintfIInv, CallInv, NumberInv, OutInv, StoredInv, SnprintfContract,
       printfVars, callVars, numberVars, outVars

(* PrintfInvariance: a conversion stays inside its digit buffer, and what  *)
(* is in the caller's buffer is the text so far, cut at the count.         *)
THEOREM PrintfInvariance == PrintfSpec => []PrintfIInv
<1>1. PrintfInit => PrintfIInv  BY PrintfInitially
<1>2. PrintfIInv /\ [PrintfNext]_printfVars => PrintfIInv'
  BY FormatTextStep, FormatIntStep, NtoaDigitStep, NtoaStep, OutStep,
     TerminateStep, PrintfStutters DEF PrintfNext
<1> QED  BY <1>1, <1>2, PTL DEF PrintfSpec

-----------------------------------------------------------------------------
(* What the invariant says of the properties.                              *)
LEMMA InvImplies ==
  PrintfIInv => PrintfTypeOK /\ NtoaBounded /\ SnprintfContract
<1> SUFFICES ASSUME PrintfIInv PROVE PrintfTypeOK /\ NtoaBounded
  BY DEF PrintfIInv
<1>1. NtoaBounded
  BY PrintfAssumption DEF PrintfIInv, NumberInv, InBuffer, NtoaBounded
<1>2. idx \in Nat  BY StringIs DEF PrintfIInv, OutInv, IsSeq
<1>3. maxlen \in Nat
  <2>1. Two(BITS["l"]) \in Nat  BY PrintfAssumption, TwoAssumption
  <2> QED  BY <2>1 DEF PrintfIInv, CallInv
<1>4. DOMAIN cells = 0..CELLS-1  BY DEF PrintfIInv, OutInv
<1> QED
  BY <1>1, <1>2, <1>3, <1>4
  DEF PrintfIInv, CallInv, NumberInv, OutInv, IsConversion, PrintfTypeOK

(* PrintfTypes: the types of the formatter's variables, for every format   *)
(* whose arguments have the types its directives name.                     *)
THEOREM PrintfTypes == PrintfSpec => []PrintfTypeOK
BY PrintfInvariance, InvImplies, PTL

(* BufferTheorem: whatever the format, the arguments and the sizes of the  *)
(* integers and of the digit buffer, a conversion stays inside its buffer. *)
THEOREM BufferTheorem == PrintfSpec => []NtoaBounded
BY PrintfInvariance, InvImplies, PTL

(* SnprintfTheorem: whatever the format, the arguments and the count,      *)
(* snprintf leaves the buffer as its contract says, and returns the length *)
(* of the text, or what an int keeps of it.                                *)
THEOREM SnprintfTheorem == PrintfSpec => []SnprintfContract
BY PrintfInvariance, InvImplies, PTL

-----------------------------------------------------------------------------
(* The same while the format is read: what is read is appended to the      *)
(* directives, when all of these are done with.                            *)
LEMMA ScanReads ==
  ASSUME PrintfIInv, ArgumentsMatch(fmt)', Reading,
         NEW d, fmt' = Append(fmt, d),
         UNCHANGED <<sink, maxlen, pos, pc, numberVars, buf, todo, outVars>>
  PROVE  PrintfIInv'
<1> USE DEF numberVars, outVars
<1>1. CallInv'
  <2>1. Len(fmt) \in Nat /\ Len(fmt') = Len(fmt) + 1
    BY StringIs, Appending DEF PrintfIInv, CallInv, ArgumentsMatch, IsSeq
  <2> QED  BY <2>1 DEF PrintfIInv, CallInv, Reading
<1>2. NumberInv'  BY DEF PrintfIInv, NumberInv
<1>3. OutInv'  BY DEF PrintfIInv, OutInv
<1>4. StoredInv'  BY DEF PrintfIInv, StoredInv
<1>5. SnprintfContract'  BY DEF Reading, SnprintfContract
<1> QED  BY <1>1, <1>2, <1>3, <1>4, <1>5 DEF PrintfIInv

(* ScanTheorem: snprintf keeps its contract and its digit buffer with      *)
(* every format it can read, character by character, as long as each       *)
(* directive it finds gets an argument of its type                        *)
THEOREM ScanTheorem ==
  ScanSpec /\ []ArgumentsMatch(fmt) => [](SnprintfContract /\ NtoaBounded)
<1>1. ScanInit => PrintfIInv  BY PrintfInitially DEF ScanInit
<1>2. ASSUME PrintfIInv, ArgumentsMatch(fmt)',
             [ScanNext]_<<printfVars, scanVars>>
      PROVE  PrintfIInv'
  <2>1. CASE ScanChar  BY <1>2, <2>1, ScanReads DEF ScanChar
  <2>2. CASE ScanDirective  BY <1>2, <2>2, ScanReads DEF ScanDirective
  <2>3. CASE Format
    BY <1>2, <2>3, FormatTextStep, FormatIntStep, NtoaDigitStep, NtoaStep,
       OutStep DEF Format
  <2>4. CASE ScanEnd  BY <1>2, <2>4, TerminateStep DEF ScanEnd
  <2>5. CASE UNCHANGED <<printfVars, scanVars>>  BY <1>2, <2>5, PrintfStutters
  <2> QED  BY <1>2, <2>1, <2>2, <2>3, <2>4, <2>5 DEF ScanNext
<1>3. PrintfIInv => SnprintfContract /\ NtoaBounded  BY InvImplies
<1> QED  BY <1>1, <1>2, <1>3, PTL DEF ScanSpec

=============================================================================
