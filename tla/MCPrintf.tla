------------------------------- MODULE MCPrintf -----------------------------
(***************************************************************************)
(* Printf with integers of 3, 4, 6 and 12 bits and a digit buffer of 6:    *)
(* an int in binary just fits, a long does not, as with 32 and 64 bits and *)
(* a buffer of 32.                                                         *)
(***************************************************************************)
EXTENDS PrintfIso

MCBits == [m \in {"hh", "h", "int", "l"} |->
             CASE m = "hh" -> 3 [] m = "h" -> 4 [] m = "int" -> 6 [] m = "l" -> 12]

(* One integer with every set of flags; widths and precisions below, at    *)
(* and above the number of digits and the buffer; the smallest int and     *)
(* long among the values.                                                  *)
Values == {<<"hh", -3>>, <<"hh", 3>>, <<"int", -32>>, <<"int", 0>>, <<"int", 27>>,
           <<"l", -2048>>, <<"l", 200>>}

OneInteger ==
  {<<Directive(fl, w, pr, v[1], c, v[2])>> :
     fl \in SUBSET {"0", "-", "+", " ", "#"},
     w \in {-4, 0, 2, 3, 7},
     pr \in {NoPrec, -2, 0, 1, 3, 6, 7},
     c \in {"d", "u", "x", "X", "o", "b"},
     v \in Values}

(* One string or character.                                                *)
OneText ==
  {<<Directive(fl, w, pr, "int", "s", s)>> :
     fl \in SUBSET {"-"}, w \in {-4, 0, 2, 3, 7}, pr \in {NoPrec, -2, 0, 1, 3},
     s \in {<<>>, <<" ">>, <<"k">>, <<"o", "k">>}}
  \union
  {<<Directive(fl, w, NoPrec, "int", "c", <<"k">>)>> :
     fl \in SUBSET {"-"}, w \in {-4, 0, 2, 3, 7}}
  \union {<<Directive({}, 0, NoPrec, "int", "text", <<"k">>)>>}

OneDirective == OneInteger \union OneText

(* Up to two directives of every kind.                                     *)
Text(s) == Directive({}, 0, NoPrec, "int", "text", s)

Directives ==
  {Text(<<"k">>),
   Directive({}, 3, NoPrec, "int", "c", <<"k">>),
   Directive({"-"}, 0, NoPrec, "int", "c", <<NUL>>),
   Directive({}, -3, 1, "int", "s", <<"o", "k">>),
   Directive({}, 0, NoPrec, "int", "s", <<"o", "k">>),
   Directive({"0", "+"}, 4, NoPrec, "h", "d", -7),
   Directive({" "}, 0, 2, "l", "i", 12),
   Directive({"#"}, 0, NoPrec, "l", "p", 200)}

Short == {<<>>} \union {<<d>> : d \in Directives}
                \union {<<d, e>> : d \in Directives, e \in Directives}

(* A long in binary.                                                       *)
LongBinary == {<<Directive({}, 0, NoPrec, "l", "b", 200)>>}

=============================================================================
