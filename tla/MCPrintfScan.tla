----------------------------- MODULE MCPrintfScan ---------------------------
(***************************************************************************)
(* PrintfScan on every spelling of some directives, alone and before or    *)
(* behind another one, and on all short strings over the characters the    *)
(* scanner tells apart.  The integers have the sizes of MCPrintf.          *)
(***************************************************************************)
EXTENDS PrintfGrammar

MCBits == [m \in {"hh", "h", "int", "l"} |->
             CASE m = "hh" -> 3 [] m = "h" -> 4 [] m = "int" -> 6 [] m = "l" -> 12]

(* Nothing has been read when printf is called.                            *)
NothingRead == {<<>>}

Spelled ==
  {Directive({"0", "+"}, 12, NoPrec, "l", "d", -7),
   Directive({"#", "-", " "}, -4, NoPrec, "int", "x", 27),
   Directive({}, 0, 0, "hh", "u", 3),
   Directive({"-"}, 3, -2, "h", "i", 5),
   Directive({}, 0, 10, "int", "o", 8),
   Directive({}, 4, 1, "int", "s", <<"o", "k">>),
   Directive({"-"}, -3, NoPrec, "int", "s", <<"o", "k">>),
   Directive({"-"}, 0, NoPrec, "int", "c", <<NUL>>),
   Directive({}, 3, NoPrec, "int", "c", <<"c">>),
   Directive({"#"}, 0, NoPrec, "l", "p", 200),
   Plain("k"), Plain("%")}

After == {Directive({}, 0, NoPrec, "int", "d", 9), Plain("%"), Plain("7")}

(* Texts longer than 31, the largest int, and than 64.                     *)
Wide(n) == Directive({}, n, NoPrec, "int", "c", <<"k">>)

SpelledCalls ==
  {Call(Nothing, <<>>)}
  \union
  {Call(p, <<Wide(40)>>) : p \in Spellings(Wide(40))}
  \union
  {Call(p ++ q, <<Wide(40), Wide(30)>>) :
     p \in Spellings(Wide(40)), q \in Spellings(Wide(30))}
  \union
  UNION {{Call(p, <<d>>) : p \in Spellings(d)} : d \in Spelled}
  \union
  UNION {{Call(p ++ q, <<d, e>>) : p \in Spellings(d), q \in Spellings(e)} :
               d \in Spelled, e \in After}
  \union
  UNION {{Call(q ++ p, <<e, d>>) : p \in Spellings(d), q \in Spellings(e)} :
               d \in Spelled, e \in After}

(* All strings of up to four characters, and those of five that start with *)
(* a `%'.  The arguments are numbers.                                      *)
Alphabet == {"%", "0", "7", "-", "*", ".", "l", "d", "k"}
RawStrings == UNION {[1..n -> Alphabet] : n \in 0..4}
                \union {<<"%">> \o s : s \in [1..4 -> Alphabet]}
RawCalls == {[chars |-> s, args |-> <<2, -3, 0, 5, 1>>, means |-> <<>>] :
               s \in RawStrings}

=============================================================================
