----------------------------- MODULE PrintfGrammar --------------------------
(***************************************************************************)
(* The formats PrintfScan is checked with: every way to spell a directive, *)
(* and the grammar of conversion specifications as a set of words.         *)
(***************************************************************************)
EXTENDS PrintfScan, PrintfIso

CONSTANT
  WRAPS        \* how often at most an unsigned int wraps on a number in a format

ASSUME WrapsAssumption == WRAPS \in Nat

(* A piece of a call: characters of the format and arguments.              *)
Piece(c, a) == [chars |-> c, args |-> a]
Nothing == Piece(<<>>, <<>>)
p ++ q == Piece(p.chars \o q.chars, p.args \o q.args)

(* Flags in any order, once or twice.                                      *)
FlagPieces(d) ==
  UNION {{Piece(s, <<>>), Piece(s \o s, <<>>)} : s \in SetToSeqs(d.flags)}

(* A `*' takes its number from an argument, an int.                        *)
StarPiece(n) == Piece(<<"*">>, <<n>>)
StarPieces(n) ==
  IF n \in -Two(BITS["int"] - 1)..Two(BITS["int"] - 1) - 1 THEN {StarPiece(n)}
  ELSE {}

(* The numbers that _atoi reads as n: n itself, and those it wraps to n.   *)
ReadAs(n) ==
  IF n < 0 THEN {} ELSE {n + k * Two(BITS["int"]) : k \in 0..WRAPS}

(* A width that begins with a zero would be a flag and a width.            *)
WidthPieces(d) ==
  StarPieces(d.width)
    \union (IF d.width = 0 THEN {Nothing} ELSE {})
    \union {Piece(Numeral(n, 10, FALSE), <<>>) : n \in ReadAs(d.width) \ {0}}

PrecPieces(d) ==
  LET after == StarPieces(d.prec)
                 \union (IF d.prec = 0 THEN {Nothing} ELSE {})
                 \union UNION {LET s == Numeral(n, 10, FALSE)
                               IN  {Piece(s, <<>>), Piece(<<"0">> \o s, <<>>)} :
                                 n \in ReadAs(d.prec)}
  IN  IF d.prec = NoPrec THEN {Nothing} ELSE {Piece(<<".">>, <<>>) ++ q : q \in after}

LengthPieces(d) ==
  CASE d.mod = "int" -> {Nothing}
    [] d.mod = "h" -> {Piece(<<"h">>, <<>>)}
    [] d.mod = "hh" -> {Piece(<<"h", "h">>, <<>>)}
    [] d.mod = "l" -> {Piece(l, <<>>) :
                         l \in {<<"l">>, <<"l", "l">>, <<"t">>, <<"j">>, <<"z">>}}

(* Every way to write d.                                                   *)
Spellings(d) ==
  IF d.conv = "text"
  THEN {Piece(IF d.arg = <<"%">> THEN <<"%", "%">> ELSE d.arg, <<>>)}
  ELSE {Piece(<<"%">>, <<>>) ++ f ++ w ++ p ++ l ++ Piece(<<d.conv>>, <<d.arg>>) :
          f \in FlagPieces(d), w \in WidthPieces(d), p \in PrecPieces(d),
          l \in LengthPieces(d)}

Call(piece, means) ==
  [chars |-> piece.chars, args |-> piece.args, means |-> means]

-----------------------------------------------------------------------------
(* The string t stands in s from place i on.                               *)
Here(s, i, t) ==
  i + Len(t) <= Len(s) + 1 /\ \A k \in 1..Len(t) : s[i + k - 1] = t[k]

(* What can be written in a format: a character, or a specification whose  *)
(* numbers an unsigned int holds.                                          *)
IsSpecification(d) ==
  /\ d = Directive(d.flags, d.width, d.prec, d.mod, d.conv, d.arg)
  /\ d.conv \in Conversions /\ d.flags \subseteq FlagChars
  /\ d.mod \in {"int", "h", "hh", "l"}
  /\ d.width \in Int /\ d.width < Two(BITS["int"])
  /\ d.prec \in Int /\ d.prec < Two(BITS["int"])
Writable(d) == (\E c : d = Plain(c)) \/ IsSpecification(d)

(* The directive d is spelled in the call c: its characters from i up to j,*)
(* its arguments behind the first u, up to v.                              *)
SpellingAt(c, i, u, d, j, v) ==
  \E p \in Spellings(d) :
    /\ Here(c.chars, i, p.chars) /\ Here(c.args, u + 1, p.args)
    /\ j = i + Len(p.chars) /\ v = u + Len(p.args)

(* The directives c means are spelled one behind the other, the i-th from  *)
(* the character st[i] on and behind the first us[i] arguments, and nothing*)
(* else is in c.                                                           *)
SpelledBy(c, st, us) ==
  LET n == Len(c.means)
  IN  /\ st \in [1..n + 1 -> Nat \ {0}] /\ us \in [1..n + 1 -> Nat]
      /\ st[1] = 1 /\ us[1] = 0
      /\ st[n + 1] = Len(c.chars) + 1 /\ us[n + 1] = Len(c.args)
      /\ \A i \in 1..n :
           SpellingAt(c, st[i], us[i], c.means[i], st[i + 1], us[i + 1])

(* c is a call that was written directive by directive.                    *)
SpelledOut(c) ==
  /\ IsSeq(c.chars) /\ IsSeq(c.args) /\ IsSeq(c.means)
  /\ \A i \in 1..Len(c.means) : Writable(c.means[i])
  /\ \E st, us : SpelledBy(c, st, us)

-----------------------------------------------------------------------------
(* s may stand between a `%' and a conversion.                             *)
IsNumber(s) == s = <<"*">> \/ Range(s) \subseteq DigitChars
IsFields(s) ==
  \E i \in 0..Len(s), j \in 0..Len(s), k \in 0..Len(s) :
    /\ i <= j /\ j <= k
    /\ Range(SubSeq(s, 1, i)) \subseteq FlagChars
    /\ IsNumber(SubSeq(s, i + 1, j))
    /\ \/ j = k
       \/ s[j + 1] = "." /\ IsNumber(SubSeq(s, j + 2, k))
    /\ SubSeq(s, k + 1, Len(s)) \in
         {<<>>, <<"l">>, <<"l", "l">>, <<"h">>, <<"h", "h">>,
          <<"t">>, <<"j">>, <<"z">>}

(* The end of the longest fields behind the `%' at i.                      *)
FieldsEnd(s, i) ==
  CHOOSE j \in i..Len(s) :
    /\ IsFields(SubSeq(s, i + 1, j))
    /\ \A k \in j+1..Len(s) : ~IsFields(SubSeq(s, i + 1, k))

(* Reading s as a format, from position i on, does the end of s cut a      *)
(* specification short?                                                    *)
CutFrom(s) ==
  LET n == Len(s)
      cut[i \in 1..n+1] ==
        IF i = n + 1 THEN FALSE
        ELSE IF s[i] # "%" THEN cut[i + 1]
        ELSE IF FieldsEnd(s, i) = n THEN TRUE
        ELSE cut[FieldsEnd(s, i) + 2]
  IN  cut

CutShort(s) == CutFrom(s)[1]

(* LeavesFormatExactly: printf reads beyond the NUL that ends its format   *)
(* just when the format ends within a conversion specification, and ends   *)
(* in all other cases.                                                     *)
LeavesFormatExactly ==
  /\ at > Len(call.chars) + 1 => CutShort(call.chars)
  /\ pc = "done" => ~CutShort(call.chars)

=============================================================================
