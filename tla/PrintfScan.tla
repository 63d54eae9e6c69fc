------------------------------ MODULE PrintfScan ----------------------------
(***************************************************************************)
(* printf from the characters of its format on: the loop of _vsnprintf     *)
(* reads ordinary characters and conversion specifications                 *)
(* %[flags][width][.precision][length]conversion off the string, takes the *)
(* arguments a `*' or a conversion asks for, and hands what it has read to *)
(* the formatting of Printf before it reads on.                            *)
(***************************************************************************)
EXTENDS Printf

CONSTANT
  CALLS        \* calls: the format's chars, the args, and what the caller
               \* means, a sequence of directives

(* A format is a string.                                                   *)
ASSUME CallsAssumption == \A c \in CALLS : IsSeq(c.chars)

VARIABLES
  call,        \* the call at work
  at,          \* the local `format', an index into the characters
  used         \* how many arguments va_arg has taken

scanVars == <<call, at, used>>

FlagChars == {"0", "-", "+", " ", "#"}
DigitChars == {"0", "1", "2", "3", "4", "5", "6", "7", "8", "9"}
Conversions == {"d", "i", "u", "x", "X", "o", "b", "c", "s", "p"}

Plain(c) == Directive({}, 0, NoPrec, "int", "text", <<c>>)

-----------------------------------------------------------------------------
(* The string ends with a NUL.                                             *)
CharAt(i) == IF i <= Len(call.chars) THEN call.chars[i] ELSE NUL

(* The end of the run of characters from S that starts at i.               *)
RunEnd(i, S) ==
  CHOOSE j \in i..Len(call.chars)+1 :
    CharAt(j) \notin S /\ \A k \in i..j-1 : CharAt(k) \in S

DigitValue(c) == CHOOSE n \in 0..9 : Digit(n, FALSE) = c

(* A bug MCPrintfScan finds: the number is kept in a wider type.           *)
AtoiUnwrapped(s) ==
  LET atoi[n \in 0..Len(s)] ==
        IF n = 0 THEN 0 ELSE atoi[n - 1] * 10 + DigitValue(s[n])
  IN  atoi[Len(s)]

(* _atoi: an unsigned int, which wraps.                                    *)
Atoi(s) ==
  LET atoi[n \in 0..Len(s)] ==
        IF n = 0 THEN 0
        ELSE (atoi[n - 1] * 10 + DigitValue(s[n])) % Two(BITS["int"])
  IN  atoi[Len(s)]

(* A width or a precision: digits, a `*' for the next argument, or none.   *)
Number(i, u) ==
  IF CharAt(i) = "*"
  THEN [at |-> i + 1, used |-> u + 1, val |-> call.args[u + 1]]
  ELSE LET j == RunEnd(i, DigitChars)
       IN  [at |-> j, used |-> u, val |-> Atoi(SubSeq(call.chars, i, j - 1))]

(* The fields of a specification, each read from where the last one ended. *)
(* What becomes of a negative number is up to Fields.                      *)
ScanFlags(i) ==
  LET j == RunEnd(i, FlagChars)
  IN  [at |-> j, used |-> used, flags |-> {CharAt(k) : k \in i..j-1},
       width |-> 0, prec |-> NoPrec, mod |-> "int"]

ScanWidth(c) ==
  LET n == Number(c.at, c.used)
  IN  [c EXCEPT !.at = n.at, !.used = n.used, !.width = n.val]

(* A bug MCPrintfScan finds: `.' without a number leaves no precision.     *)
ScanPrecNeedsNumber(c) ==
  LET n == Number(c.at + 1, c.used)
  IN  IF CharAt(c.at) # "." THEN c
      ELSE [c EXCEPT !.at = n.at, !.used = n.used,
                     !.prec = IF n.at = c.at + 1 THEN NoPrec ELSE n.val]

ScanPrec(c) ==
  LET n == Number(c.at + 1, c.used)
  IN  IF CharAt(c.at) # "." THEN c
      ELSE [c EXCEPT !.at = n.at, !.used = n.used, !.prec = n.val]

(* A bug MCPrintfRaw finds: a second `l' is skipped without a look at it.  *)
ScanLengthBlind(c) ==
  IF CharAt(c.at) = "l" THEN [c EXCEPT !.at = @ + 2, !.mod = "l"] ELSE c

(* long, long long, ptrdiff_t, intmax_t and size_t all have 64 bits.       *)
ScanLength(c) ==
  LET l == CharAt(c.at)
      twice == l \in {"l", "h"} /\ CharAt(c.at + 1) = l
  IN  IF l \notin {"l", "h", "t", "j", "z"} THEN c
      ELSE [c EXCEPT !.at = @ + (IF twice THEN 2 ELSE 1),
                     !.mod = IF l # "h" THEN "l" ELSE IF twice THEN "hh" ELSE "h"]

(* The conversion: one of those above takes an argument, "%" and every     *)
(* other character, the terminating NUL included, stands for itself.       *)
Specifier(c) ==
  IF CharAt(c.at) \in Conversions
  THEN Directive(c.flags, c.width, c.prec, c.mod, CharAt(c.at),
                 call.args[c.used + 1])
  ELSE Plain(CharAt(c.at))

-----------------------------------------------------------------------------
ScanInit ==
  /\ PrintfInit
  /\ call \in CALLS
  /\ at = 1 /\ used = 0

(* The loop goes on: everything read so far is written, and the format     *)
(* does not end here.  Behind its end the loop reads what the memory holds;*)
(* the model stops there.                                                  *)
Reading == pc = "format" /\ pos > Len(fmt) /\ at <= Len(call.chars)

ScanChar ==
  /\ Reading /\ CharAt(at) # "%"
  /\ fmt' = Append(fmt, Plain(CharAt(at)))
  /\ at' = at + 1
  /\ UNCHANGED <<call, used, sink, maxlen, pos, pc, numberVars, buf, todo,
                 outVars>>

ScanDirective ==
  /\ Reading /\ CharAt(at) = "%"
  /\ LET c == ScanLength(ScanPrec(ScanWidth(ScanFlags(at + 1))))
     IN  /\ fmt' = Append(fmt, Specifier(c))
         /\ at' = c.at + 1
         /\ used' = c.used + (IF CharAt(c.at) \in Conversions THEN 1 ELSE 0)
  /\ UNCHANGED <<call, sink, maxlen, pos, pc, numberVars, buf, todo, outVars>>

(* The formatting of what was read.                                        *)
Format ==
  /\ FormatText \/ FormatInt \/ NtoaDigit \/ Ntoa \/ Out
  /\ UNCHANGED scanVars

ScanEnd ==
  /\ at = Len(call.chars) + 1
  /\ Terminate
  /\ UNCHANGED scanVars

ScanNext == ScanChar \/ ScanDirective \/ Format \/ ScanEnd

ScanSpec == ScanInit /\ [][ScanNext]_<<printfVars, scanVars>>

-----------------------------------------------------------------------------
MeantFormats == {c.means : c \in CALLS}

Meant == INSTANCE Printf WITH fmt <- call.means, FORMATS <- MeantFormats

(* ImplementsDirectives: for every spelling of a sequence of directives,   *)
(* printf reads these directives and no others, each with its argument,    *)
(* and formats like Printf on the sequence.                                *)
ImplementsDirectives == Meant!PrintfSpec

=============================================================================
