-------------------------- MODULE PrintfIsoProofs ---------------------------
(***************************************************************************)
(* Printf against ISO C, for every directive, every size of the digit      *)
(* buffer and of the integers (DepartsExactly).                            *)
(*                                                                         *)
(* What is printed and what ISO C asks for are brought to the same form:   *)
(* blanks, a core of other characters, blanks.  Such a form is unique      *)
(* (FormUnique), so two texts are the same when their blanks and cores     *)
(* are.  Where Printf conforms, sign, zeros and digits of the cores are    *)
(* the same; where it departs, the cores differ in length, in a `-' or in  *)
(* their first character, or the blanks in front of them do.               *)
(***************************************************************************)
EXTENDS PrintfIso, PrintfProofs

-----------------------------------------------------------------------------
(* Strings.                                                                *)

(* Strings are the same if their characters are.                           *)
LEMMA SameString ==
  ASSUME NEW s, NEW t, IsSeq(s), IsSeq(t), Len(s) = Len(t),
         \A i \in 1..Len(s) : s[i] = t[i]
  PROVE  s = t
<1>1. /\ s = [i \in 1..Len(s) |-> s[i]]
      /\ t = [i \in 1..Len(t) |-> t[i]]
  BY DEF IsSeq
<1> QED  BY <1>1

(* No character, and one.                                                  *)
LEMMA ShortStrings ==
  /\ IsSeq(<<>>) /\ Len(<<>>) = 0
  /\ \A c : IsSeq(<<c>>) /\ Len(<<c>>) = 1 /\ <<c>>[1] = c
<1>1. IsSeq(<<>>) /\ Len(<<>>) = 0  BY StringIs DEF IsSeq
<1>2. ASSUME NEW c
      PROVE  IsSeq(<<c>>) /\ Len(<<c>>) = 1 /\ <<c>>[1] = c
  <2>1. <<c>> \in Seq({c})  OBVIOUS
  <2> QED  BY <2>1, StringIs
<1> QED  BY <1>1, <1>2

(* A string of length 0 is empty.                                          *)
LEMMA EmptyString ==
  ASSUME NEW s, IsSeq(s), Len(s) = 0
  PROVE  s = <<>>
BY SameString, ShortStrings

(* Concatenation is associative.                                           *)
LEMMA ConcatAssoc ==
  ASSUME NEW s, NEW t, NEW u, IsSeq(s), IsSeq(t), IsSeq(u)
  PROVE  (s \o t) \o u = s \o (t \o u)
<1> DEFINE l == (s \o t) \o u
           r == s \o (t \o u)
           ls == Len(s)
           lt == Len(t)
           lu == Len(u)
<1>0. ls \in Nat /\ lt \in Nat /\ lu \in Nat  BY StringIs DEF IsSeq
<1>1. /\ IsSeq(s \o t) /\ Len(s \o t) = ls + lt
      /\ \A i \in 1..ls + lt :
           (s \o t)[i] = IF i <= ls THEN s[i] ELSE t[i - ls]
      /\ IsSeq(t \o u) /\ Len(t \o u) = lt + lu
      /\ \A i \in 1..lt + lu :
           (t \o u)[i] = IF i <= lt THEN t[i] ELSE u[i - lt]
  BY Concatenation
<1>2. /\ IsSeq(l) /\ Len(l) = (ls + lt) + lu
      /\ \A i \in 1..(ls + lt) + lu :
           l[i] = IF i <= ls + lt THEN (s \o t)[i] ELSE u[i - (ls + lt)]
  <2> DEFINE a == s \o t
  <2>1. IsSeq(a) /\ Len(a) = ls + lt  BY <1>1
  <2> HIDE DEF a
  <2>2. /\ IsSeq(a \o u) /\ Len(a \o u) = Len(a) + Len(u)
        /\ \A i \in 1..Len(a) + Len(u) :
             (a \o u)[i] = IF i <= Len(a) THEN a[i] ELSE u[i - Len(a)]
    BY <2>1, Concatenation
  <2> QED  BY <2>1, <2>2 DEF a
<1>3. /\ IsSeq(r) /\ Len(r) = ls + (lt + lu)
      /\ \A i \in 1..ls + (lt + lu) :
           r[i] = IF i <= ls THEN s[i] ELSE (t \o u)[i - ls]
  <2> DEFINE a == t \o u
  <2>1. IsSeq(a) /\ Len(a) = lt + lu  BY <1>1
  <2> HIDE DEF a
  <2>2. /\ IsSeq(s \o a) /\ Len(s \o a) = Len(s) + Len(a)
        /\ \A i \in 1..Len(s) + Len(a) :
             (s \o a)[i] = IF i <= Len(s) THEN s[i] ELSE a[i - Len(s)]
    BY <2>1, Concatenation
  <2> QED  BY <2>1, <2>2 DEF a
<1> HIDE DEF l, r, ls, lt, lu
<1>4. ASSUME NEW i \in 1..(ls + lt) + lu
      PROVE  l[i] = r[i]
  <2>1. i \in 1..ls + (lt + lu)  BY <1>0
  <2>2. CASE i <= ls
    <3>1. i \in 1..ls + lt /\ i <= ls + lt  BY <1>0, <2>2
    <3> QED  BY <1>0, <1>1, <1>2, <1>3, <2>1, <2>2, <3>1
  <2>3. CASE ls < i /\ i <= ls + lt
    <3>1. i \in 1..ls + lt /\ i - ls \in 1..lt + lu /\ i - ls <= lt /\ ~(i <= ls)
      BY <1>0, <2>3
    <3> QED  BY <1>1, <1>2, <1>3, <2>1, <2>3, <3>1
  <2>4. CASE ls + lt < i
    <3>1. /\ i - ls \in 1..lt + lu /\ ~(i - ls <= lt) /\ ~(i <= ls)
          /\ ~(i <= ls + lt) /\ (i - ls) - lt = i - (ls + lt)
      BY <1>0, <2>4
    <3> QED  BY <1>1, <1>2, <1>3, <2>1, <3>1
  <2> QED  BY <1>0, <2>2, <2>3, <2>4
<1>5. Len(l) = Len(r)  BY <1>0, <1>2, <1>3
<1>6. l = r  BY <1>2, <1>3, <1>4, <1>5, SameString
<1> QED  BY <1>6 DEF l, r

(* Nothing, in front or behind.                                            *)
LEMMA ConcatEmpty ==
  ASSUME NEW s, IsSeq(s)
  PROVE  <<>> \o s = s /\ s \o <<>> = s
<1>1. s \in Seq({s[i] : i \in DOMAIN s})  BY DEF IsSeq
<1> QED  BY <1>1

(* A character in front.                                                   *)
LEMMA InFront ==
  ASSUME NEW s, IsSeq(s), NEW c
  PROVE  /\ IsSeq(<<c>> \o s) /\ Len(<<c>> \o s) = Len(s) + 1
         /\ (<<c>> \o s)[1] = c
         /\ \A i \in 1..Len(s) : (<<c>> \o s)[i + 1] = s[i]
<1>0. Len(s) \in Nat  BY StringIs DEF IsSeq
<1>1. IsSeq(<<c>>) /\ Len(<<c>>) = 1 /\ <<c>>[1] = c  BY ShortStrings
<1> DEFINE u == <<c>>
           t == u \o s
<1> HIDE DEF u
<1>2. /\ IsSeq(t) /\ Len(t) = Len(u) + Len(s)
      /\ \A i \in 1..Len(u) + Len(s) :
           t[i] = IF i <= Len(u) THEN u[i] ELSE s[i - Len(u)]
  BY <1>1, Concatenation DEF u
<1> HIDE DEF t
<1>3. Len(t) = Len(s) + 1 /\ t[1] = c
  BY <1>0, <1>1, <1>2 DEF u
<1>4. ASSUME NEW i \in 1..Len(s)
      PROVE  t[i + 1] = s[i]
  <2>1. i + 1 \in 1..1 + Len(s) /\ ~(i + 1 <= 1) /\ (i + 1) - 1 = i  BY <1>0
  <2> QED  BY <1>1, <1>2, <2>1 DEF u
<1> QED  BY <1>2, <1>3, <1>4 DEF t, u

(* Padding.                                                                *)
LEMMA RepeatHas ==
  ASSUME NEW c, NEW n \in Int
  PROVE  /\ IsSeq(Repeat(c, n)) /\ Len(Repeat(c, n)) = MaxOf(n, 0)
         /\ \A i \in 1..MaxOf(n, 0) : Repeat(c, n)[i] = c
BY RepeatIs DEF Repeat

(* Padding of no width.                                                    *)
LEMMA RepeatNone ==
  ASSUME NEW c, NEW n \in Int, n <= 0
  PROVE  Repeat(c, n) = <<>>
BY RepeatHas, EmptyString DEF MaxOf

(* One character of padding.                                               *)
LEMMA RepeatOne ==
  ASSUME NEW c
  PROVE  Repeat(c, 1) = <<c>>
<1>1. MaxOf(1, 0) = 1  BY DEF MaxOf
<1> DEFINE r == Repeat(c, 1)
           u == <<c>>
<1>2. IsSeq(r) /\ Len(r) = 1 /\ r[1] = c
  <2>1. /\ IsSeq(r) /\ Len(r) = MaxOf(1, 0)
        /\ \A i \in 1..MaxOf(1, 0) : r[i] = c
    BY RepeatHas
  <2> HIDE DEF r
  <2> QED  BY <1>1, <2>1
<1>3. IsSeq(u) /\ Len(u) = 1 /\ u[1] = c  BY ShortStrings
<1> HIDE DEF r, u
<1>4. r = u  BY <1>2, <1>3, SameString
<1> QED  BY <1>4 DEF r, u

(* Padding behind padding.                                                 *)
LEMMA RepeatTwice ==
  ASSUME NEW c, NEW m \in Nat, NEW n \in Nat
  PROVE  Repeat(c, m) \o Repeat(c, n) = Repeat(c, m + n)
<1> DEFINE a == Repeat(c, m)
           b == Repeat(c, n)
           r == Repeat(c, m + n)
<1>1. MaxOf(m, 0) = m /\ MaxOf(n, 0) = n /\ MaxOf(m + n, 0) = m + n
  BY DEF MaxOf
<1>2. /\ IsSeq(a) /\ Len(a) = m /\ \A i \in 1..m : a[i] = c
      /\ IsSeq(b) /\ Len(b) = n /\ \A i \in 1..n : b[i] = c
      /\ IsSeq(r) /\ Len(r) = m + n /\ \A i \in 1..m + n : r[i] = c
  <2>1. m + n \in Int  OBVIOUS
  <2> HIDE DEF a, b, r
  <2>2. /\ IsSeq(a) /\ Len(a) = m /\ \A i \in 1..m : a[i] = c
        /\ IsSeq(b) /\ Len(b) = n /\ \A i \in 1..n : b[i] = c
    BY <1>1, RepeatHas DEF a, b
  <2>3. IsSeq(r) /\ Len(r) = m + n /\ \A i \in 1..m + n : r[i] = c
    BY <1>1, <2>1, RepeatHas DEF r
  <2> QED  BY <2>2, <2>3
<1> HIDE DEF a, b, r
<1>3. /\ IsSeq(a \o b) /\ Len(a \o b) = m + n
      /\ \A i \in 1..m + n : (a \o b)[i] = IF i <= m THEN a[i] ELSE b[i - m]
  BY <1>2, Concatenation
<1>4. ASSUME NEW i \in 1..m + n
      PROVE  (a \o b)[i] = r[i]
  <2>1. i <= m \/ i - m \in 1..n  OBVIOUS
  <2> QED  BY <1>2, <1>3, <2>1
<1>5. a \o b = r  BY <1>2, <1>3, <1>4, SameString
<1> QED  BY <1>5 DEF a, b, r

(* The reverse of a string.                                                *)
LEMMA ReverseIs ==
  ASSUME NEW s, IsSeq(s)
  PROVE  /\ IsSeq(Reverse(s)) /\ Len(Reverse(s)) = Len(s)
         /\ \A i \in 1..Len(s) : Reverse(s)[i] = s[Len(s) - i + 1]
<1>0. Len(s) \in Nat  BY StringIs DEF IsSeq
<1> DEFINE r == Reverse(s)
<1>1. r = [i \in 1..Len(s) |-> r[i]]  BY DEF Reverse
<1>2. \A i \in 1..Len(s) : r[i] = s[Len(s) - i + 1]  BY DEF Reverse
<1> HIDE DEF r
<1>3. IsSeq(r) /\ Len(r) = Len(s)  BY <1>0, <1>1, StringOf
<1> QED  BY <1>2, <1>3 DEF r

(* What is appended comes first in the reverse,                            *)
LEMMA ReverseAppend ==
  ASSUME NEW s, IsSeq(s), NEW c
  PROVE  Reverse(Append(s, c)) = <<c>> \o Reverse(s)
<1> DEFINE a == Append(s, c)
           n == Len(s)
           l == Reverse(a)
           v == Reverse(s)
           r == <<c>> \o v
<1>0. n \in Nat /\ s \in Seq({s[i] : i \in DOMAIN s})  BY StringIs DEF IsSeq
<1>1. /\ IsSeq(a) /\ Len(a) = n + 1 /\ a[n + 1] = c
      /\ \A i \in 1..n : a[i] = s[i]
  BY <1>0, Appending
<1> HIDE DEF a
<1>2. /\ IsSeq(l) /\ Len(l) = n + 1
      /\ \A i \in 1..n + 1 : l[i] = a[(n + 1) - i + 1]
  BY <1>1, ReverseIs
<1>3. IsSeq(v) /\ Len(v) = n /\ \A i \in 1..n : v[i] = s[n - i + 1]
  BY ReverseIs
<1> HIDE DEF l, v
<1>4. /\ IsSeq(r) /\ Len(r) = n + 1 /\ r[1] = c
      /\ \A i \in 1..n : r[i + 1] = v[i]
  <2>1. IsSeq(v)  BY <1>3
  <2>2. /\ IsSeq(r) /\ Len(r) = Len(v) + 1 /\ r[1] = c
        /\ \A i \in 1..Len(v) : r[i + 1] = v[i]
    BY ONLY <2>1, InFront
  <2> HIDE DEF r, n
  <2> QED  BY <1>3, <2>2
<1> HIDE DEF r, n
<1>5. ASSUME NEW i \in 1..n + 1
      PROVE  l[i] = r[i]
  <2>1. CASE i = 1
    <3>1. (n + 1) - 1 + 1 = n + 1 /\ 1 \in 1..n + 1  BY <1>0
    <3> QED  BY <1>1, <1>2, <1>4, <2>1, <3>1
  <2>2. CASE i # 1
    <3>1. /\ i - 1 \in 1..n /\ (i - 1) + 1 = i
          /\ (n + 1) - i + 1 = n - (i - 1) + 1
          /\ n - (i - 1) + 1 \in 1..n
      BY <1>0, <2>2
    <3>2. l[i] = s[n - (i - 1) + 1]  BY <1>1, <1>2, <3>1
    <3>3. r[i] = v[i - 1]  BY <1>4, <3>1
    <3> QED  BY <1>3, <3>1, <3>2, <3>3
  <2> QED  BY <2>1, <2>2
<1>6. l = r  BY <1>2, <1>4, <1>5, SameString
<1> QED  BY <1>6 DEF l, r, a, v

(* and so do zeros.                                                        *)
LEMMA ReverseZeros ==
  ASSUME NEW s, IsSeq(s), NEW n \in Int
  PROVE  Reverse(s \o Repeat("0", n)) = Repeat("0", n) \o Reverse(s)
<1> DEFINE z == Repeat("0", n)
           m == MaxOf(n, 0)
           k == Len(s)
           a == s \o z
           l == Reverse(a)
           v == Reverse(s)
           r == z \o v
<1>0. k \in Nat /\ m \in Nat  BY StringIs DEF IsSeq, MaxOf
<1>1. IsSeq(z) /\ Len(z) = m /\ \A i \in 1..m : z[i] = "0"  BY RepeatHas
<1> HIDE DEF z, m
<1>2. /\ IsSeq(a) /\ Len(a) = k + m
      /\ \A i \in 1..k + m : a[i] = IF i <= k THEN s[i] ELSE z[i - k]
  BY <1>1, Concatenation
<1> HIDE DEF a
<1>3. /\ IsSeq(l) /\ Len(l) = k + m
      /\ \A i \in 1..k + m : l[i] = a[(k + m) - i + 1]
  BY <1>2, ReverseIs
<1>4. IsSeq(v) /\ Len(v) = k /\ \A i \in 1..k : v[i] = s[k - i + 1]
  BY ReverseIs
<1> HIDE DEF l, v
<1>5. /\ IsSeq(r) /\ Len(r) = m + k
      /\ \A i \in 1..m + k : r[i] = IF i <= m THEN z[i] ELSE v[i - m]
  <2> HIDE DEF k
  <2>1. /\ IsSeq(r) /\ Len(r) = Len(z) + Len(v)
        /\ \A i \in 1..Len(z) + Len(v) :
             r[i] = IF i <= Len(z) THEN z[i] ELSE v[i - Len(z)]
    BY <1>1, <1>4, Concatenation
  <2> HIDE DEF r
  <2> QED  BY <1>1, <1>4, <2>1
<1> HIDE DEF r, k
<1>6. ASSUME NEW i \in 1..k + m
      PROVE  l[i] = r[i]
  <2>0. i \in 1..m + k /\ (k + m) - i + 1 \in 1..k + m  BY <1>0
  <2>1. CASE i <= m
    <3>1. /\ ~((k + m) - i + 1 <= k) /\ ((k + m) - i + 1) - k \in 1..m
          /\ i \in 1..m
      BY <1>0, <2>1
    <3> QED  BY <1>1, <1>2, <1>3, <1>5, <2>0, <2>1, <3>1
  <2>2. CASE ~(i <= m)
    <3>1. /\ (k + m) - i + 1 <= k /\ i - m \in 1..k
          /\ k - (i - m) + 1 = (k + m) - i + 1
      BY <1>0, <2>2
    <3>2. l[i] = s[(k + m) - i + 1]  BY <1>2, <1>3, <2>0, <3>1
    <3>3. r[i] = v[i - m]  BY <1>5, <2>0, <2>2
    <3> QED  BY <1>4, <3>1, <3>2, <3>3
  <2> QED  BY <2>1, <2>2
<1>7. Len(l) = Len(r)  BY <1>0, <1>3, <1>5
<1>8. l = r  BY <1>3, <1>5, <1>6, <1>7, SameString
<1> QED  BY <1>8 DEF l, r, a, v, z

-----------------------------------------------------------------------------
(* Digits and numerals.                                                    *)

(* A digit is neither a blank nor a sign, and only 0 is written "0".       *)
LEMMA DigitIs ==
  ASSUME NEW n \in 0..15, NEW up \in BOOLEAN
  PROVE  Digit(n, up) \notin {" ", "-"} /\ (n = 0 <=> Digit(n, up) = "0")
<1> DEFINE lower == <<"0", "1", "2", "3", "4", "5", "6", "7", "8", "9",
                      "a", "b", "c", "d", "e", "f">>
           capital == <<"A", "B", "C", "D", "E", "F">>
<1>1. Digit(n, up) = IF up /\ n >= 10 THEN capital[n - 9] ELSE lower[n + 1]
  BY DEF Digit
<1>2. \A i \in 1..16 : lower[i] \notin {" ", "-"} /\ (i = 1 <=> lower[i] = "0")
  <2>1. /\ lower[1] = "0" /\ lower[2] = "1" /\ lower[3] = "2" /\ lower[4] = "3"
        /\ lower[5] = "4" /\ lower[6] = "5" /\ lower[7] = "6" /\ lower[8] = "7"
        /\ lower[9] = "8" /\ lower[10] = "9" /\ lower[11] = "a" /\ lower[12] = "b"
        /\ lower[13] = "c" /\ lower[14] = "d" /\ lower[15] = "e" /\ lower[16] = "f"
    OBVIOUS
  <2> HIDE DEF lower
  <2> TAKE i \in 1..16
  <2>2. CASE i \in {1, 2, 3, 4, 5, 6, 7, 8}  BY <2>1, <2>2
  <2>3. CASE i \in {9, 10, 11, 12, 13, 14, 15, 16}  BY <2>1, <2>3
  <2>4. i \in {1, 2, 3, 4, 5, 6, 7, 8} \/ i \in {9, 10, 11, 12, 13, 14, 15, 16}
    OBVIOUS
  <2> QED  BY <2>2, <2>3, <2>4
<1>3. \A i \in 1..6 : capital[i] \notin {" ", "-", "0"}
  <2>1. /\ capital[1] = "A" /\ capital[2] = "B" /\ capital[3] = "C"
        /\ capital[4] = "D" /\ capital[5] = "E" /\ capital[6] = "F"
    OBVIOUS
  <2> HIDE DEF capital
  <2> TAKE i \in 1..6
  <2>2. i \in {1, 2, 3, 4, 5, 6}  OBVIOUS
  <2> QED  BY <2>1, <2>2
<1> HIDE DEF lower, capital
<1>4. CASE up /\ n >= 10
  <2>1. n - 9 \in 1..6 /\ n # 0  BY <1>4
  <2> QED  BY <1>1, <1>3, <1>4, <2>1
<1>5. CASE ~(up /\ n >= 10)
  <2>1. n + 1 \in 1..16 /\ (n = 0 <=> n + 1 = 1)  OBVIOUS
  <2> QED  BY <1>1, <1>2, <1>5, <2>1
<1> QED  BY <1>4, <1>5

(* Quotient and remainder in the bases there are.                          *)
LEMMA DivMod ==
  ASSUME NEW n \in Nat, NEW base \in {2, 8, 10, 16}
  PROVE  /\ n % base \in 0..base-1 /\ n % base \in 0..15
         /\ n \div base \in Nat
         /\ n >= base => n \div base > 0 /\ n \div base < n
         /\ n < base => n \div base = 0 /\ n % base = n
<1>1. CASE base = 2  BY <1>1
<1>2. CASE base = 8  BY <1>2
<1>3. CASE base = 10  BY <1>3
<1>4. CASE base = 16  BY <1>4
<1> QED  BY <1>1, <1>2, <1>3, <1>4

(* f is what Numeral is defined by, up to n.                               *)
NumeralStep(f, m, base, up) ==
  IF m < base THEN <<Digit(m, up)>>
  ELSE Append(f[m \div base], Digit(m % base, up))

IsNumeral(f, n, base, up) == f = [m \in 0..n |-> NumeralStep(f, m, base, up)]

(* There is such a function: the first n without one would have a          *)
(* predecessor with one.                                                   *)
LEMMA NumeralExists ==
  ASSUME NEW n \in Nat, NEW base \in {2, 8, 10, 16}, NEW up \in BOOLEAN
  PROVE  \E f : IsNumeral(f, n, base, up)
<1> DEFINE T == {k \in Nat : ~\E f : IsNumeral(f, k, base, up)}
<1> SUFFICES ASSUME T # {} PROVE FALSE
  OBVIOUS
<1>1. PICK k \in T : \A j \in T : k <= j
  <2>1. T \in SUBSET Nat  OBVIOUS
  <2> HIDE DEF T
  <2> QED  BY <2>1, LeastNat
<1>2. CASE k = 0
  <2> DEFINE f == [m \in 0..0 |-> <<Digit(m, up)>>]
  <2>1. \A m \in 0..0 : f[m] = NumeralStep(f, m, base, up)
    <3>1. \A m \in 0..0 : f[m] = <<Digit(m, up)>> /\ m < base  OBVIOUS
    <3> HIDE DEF f
    <3> QED  BY <3>1 DEF NumeralStep
  <2>2. f = [m \in 0..0 |-> f[m]]  OBVIOUS
  <2> HIDE DEF f
  <2>3. IsNumeral(f, k, base, up)  BY <1>2, <2>1, <2>2 DEF IsNumeral
  <2> QED  BY <2>3
<1>3. CASE k # 0
  <2>1. k - 1 \in Nat /\ ~(k <= k - 1)  BY <1>3
  <2>2. PICK f : IsNumeral(f, k - 1, base, up)  BY <1>1, <2>1
  <2> DEFINE g == [m \in 0..k |-> IF m = k THEN NumeralStep(f, k, base, up)
                                  ELSE f[m]]
  <2>3. \A m \in 0..k-1 : g[m] = f[m]  BY <2>1
  <2>4. g[k] = NumeralStep(f, k, base, up)  OBVIOUS
  <2>5. g = [m \in 0..k |-> g[m]]  OBVIOUS
  <2> HIDE DEF g
  <2>6. ASSUME NEW m \in 0..k
        PROVE  g[m] = NumeralStep(g, m, base, up)
    <3>1. NumeralStep(g, m, base, up) = NumeralStep(f, m, base, up)
      <4>1. CASE m < base  BY <4>1 DEF NumeralStep
      <4>2. CASE m >= base
        <5>1. m \div base \in 0..k-1  BY <4>2, DivMod
        <5> QED  BY <2>3, <5>1 DEF NumeralStep
      <4> QED  BY <4>1, <4>2
    <3>2. CASE m = k  BY <2>4, <3>1, <3>2
    <3>3. CASE m # k
      <4>1. m \in 0..k-1  BY <3>3
      <4>2. f[m] = NumeralStep(f, m, base, up)  BY <2>2, <4>1 DEF IsNumeral
      <4> QED  BY <2>3, <3>1, <4>1, <4>2
    <3> QED  BY <3>2, <3>3
  <2>7. IsNumeral(g, k, base, up)  BY <2>5, <2>6 DEF IsNumeral
  <2> QED  BY <2>7
<1> QED  BY <1>2, <1>3

(* Two such functions agree where both are defined.                        *)
LEMMA NumeralUnique ==
  ASSUME NEW base \in {2, 8, 10, 16}, NEW up \in BOOLEAN,
         NEW n \in Nat, NEW f, IsNumeral(f, n, base, up),
         NEW k \in 0..n, NEW g, IsNumeral(g, k, base, up)
  PROVE  f[k] = g[k]
<1> DEFINE T == {m \in 0..k : f[m] # g[m]}
<1> SUFFICES ASSUME T # {} PROVE FALSE
  OBVIOUS
<1>1. PICK m \in T : \A j \in T : m <= j
  <2>1. T \in SUBSET Nat  OBVIOUS
  <2> HIDE DEF T
  <2> QED  BY <2>1, LeastNat
<1>2. /\ f[m] = NumeralStep(f, m, base, up)
      /\ g[m] = NumeralStep(g, m, base, up)
  <2>1. m \in 0..k /\ m \in 0..n  OBVIOUS
  <2> HIDE DEF T
  <2>2. f[m] = NumeralStep(f, m, base, up)  BY <2>1 DEF IsNumeral
  <2>3. g[m] = NumeralStep(g, m, base, up)  BY <2>1 DEF IsNumeral
  <2> QED  BY <2>2, <2>3
<1>3. NumeralStep(f, m, base, up) = NumeralStep(g, m, base, up)
  <2>1. CASE m < base  BY <2>1 DEF NumeralStep
  <2>2. CASE m >= base
    <3>1. m \div base \in 0..k /\ ~(m <= m \div base)  BY <2>2, DivMod
    <3>2. f[m \div base] = g[m \div base]  BY <1>1, <3>1
    <3> QED  BY <3>2 DEF NumeralStep
  <2> QED  BY <2>1, <2>2
<1> QED  BY <1>2, <1>3

(* So a numeral is that of the quotient and the last digit.                *)
LEMMA NumeralUnfolds ==
  ASSUME NEW n \in Nat, NEW base \in {2, 8, 10, 16}, NEW up \in BOOLEAN
  PROVE  Numeral(n, base, up) =
           IF n < base THEN <<Digit(n, up)>>
           ELSE Append(Numeral(n \div base, base, up), Digit(n % base, up))
<1>1. ASSUME NEW k \in Nat
      PROVE  \E f : IsNumeral(f, k, base, up) /\ Numeral(k, base, up) = f[k]
  <2> DEFINE f == CHOOSE f : IsNumeral(f, k, base, up)
  <2>1. Numeral(k, base, up) = f[k]  BY DEF Numeral, IsNumeral, NumeralStep
  <2>2. IsNumeral(f, k, base, up)  BY NumeralExists, Zenon
  <2> HIDE DEF f
  <2> QED  BY <2>1, <2>2
<1>2. PICK f : IsNumeral(f, n, base, up) /\ Numeral(n, base, up) = f[n]
  BY <1>1
<1>3. f[n] = NumeralStep(f, n, base, up)  BY <1>2 DEF IsNumeral
<1>4. CASE n < base  BY <1>2, <1>3, <1>4 DEF NumeralStep
<1>5. CASE n >= base
  <2>1. n \div base \in 0..n /\ n \div base \in Nat  BY <1>5, DivMod
  <2>2. PICK g : /\ IsNumeral(g, n \div base, base, up)
                 /\ Numeral(n \div base, base, up) = g[n \div base]
    BY <1>1, <2>1
  <2>3. f[n \div base] = g[n \div base]
    BY <1>2, <2>1, <2>2, NumeralUnique
  <2>4. ~(n < base)  BY <1>5
  <2> QED  BY <1>2, <1>3, <2>2, <2>3, <2>4 DEF NumeralStep
<1> QED  BY <1>4, <1>5

(* Strings without blanks and minus signs; all digits are of this kind.    *)
Digital(s) == IsSeq(s) /\ \A i \in 1..Len(s) : s[i] \notin {" ", "-"}

(* One more digit.                                                         *)
LEMMA DigitalAppend ==
  ASSUME NEW s, Digital(s), NEW c, c \notin {" ", "-"}
  PROVE  /\ Digital(Append(s, c)) /\ Len(Append(s, c)) = Len(s) + 1
         /\ Len(s) > 0 => Append(s, c)[1] = s[1]
<1> DEFINE a == Append(s, c)
           n == Len(s)
<1>1. IsSeq(s) /\ \A i \in 1..n : s[i] \notin {" ", "-"}  BY DEF Digital
<1>2. n \in Nat  BY <1>1, StringIs DEF IsSeq
<1>3. s \in Seq({s[i] : i \in DOMAIN s})  BY <1>1 DEF IsSeq
<1>4. a[n + 1] = c /\ \A i \in 1..n : a[i] = s[i]  BY ONLY <1>3
<1>5. IsSeq(a) /\ Len(a) = n + 1  BY <1>1, Appending
<1> HIDE DEF a, n
<1>6. \A i \in 1..n + 1 : i \in 1..n \/ i = n + 1  BY ONLY <1>2
<1>7. \A i \in 1..n + 1 : a[i] \notin {" ", "-"}
  BY <1>1, <1>4, <1>6
<1>8. Digital(a)  BY <1>5, <1>7 DEF Digital
<1>9. n > 0 => 1 \in 1..n  BY ONLY <1>2
<1> QED  BY <1>4, <1>5, <1>8, <1>9 DEF a, n

(* A numeral consists of digits, as many in capitals as not; it starts     *)
(* with a 0 for 0 only.                                                    *)
NumeralOf(s, m) ==
  Digital(s) /\ Len(s) \in Nat \ {0} /\ (m = 0 <=> s[1] = "0")

(* The numerals are such strings, whatever the number and the base.        *)
LEMMA NumeralIs ==
  ASSUME NEW n \in Nat, NEW base \in {2, 8, 10, 16}, NEW up \in BOOLEAN
  PROVE  /\ NumeralOf(Numeral(n, base, up), n)
         /\ Len(Numeral(n, base, up)) = Len(Numeral(n, base, FALSE))
<1> DEFINE N(m, u) == Numeral(m, base, u)
           Good(m) == /\ NumeralOf(N(m, up), m) /\ NumeralOf(N(m, FALSE), m)
                      /\ Len(N(m, up)) = Len(N(m, FALSE))
           T == {m \in Nat : ~Good(m)}
<1>1. ASSUME NEW m \in Nat, m < base, NEW u \in BOOLEAN
      PROVE  NumeralOf(N(m, u), m) /\ Len(N(m, u)) = 1
  <2> DEFINE d == Digit(m, u)
             s == <<d>>
  <2>1. N(m, u) = s  BY <1>1, NumeralUnfolds
  <2>2. m \in 0..15  BY <1>1
  <2>3. d \notin {" ", "-"} /\ (m = 0 <=> d = "0")  BY <2>2, DigitIs
  <2> HIDE DEF d
  <2>4. IsSeq(s) /\ Len(s) = 1 /\ s[1] = d  BY ShortStrings
  <2> HIDE DEF s
  <2>5. \A i \in 1..Len(s) : i = 1  BY ONLY <2>4
  <2>6. Digital(s)  BY <2>3, <2>4, <2>5 DEF Digital
  <2>7. Len(s) \in Nat \ {0}  BY ONLY <2>4
  <2>8. m = 0 <=> s[1] = "0"  BY ONLY <2>3, <2>4
  <2>9. NumeralOf(s, m)  BY ONLY <2>6, <2>7, <2>8 DEF NumeralOf
  <2> HIDE DEF N
  <2> QED  BY <2>1, <2>4, <2>9
<1>2. ASSUME NEW m \in Nat, m >= base, NEW u \in BOOLEAN,
             NumeralOf(N(m \div base, u), m \div base)
      PROVE  NumeralOf(N(m, u), m) /\ Len(N(m, u)) = Len(N(m \div base, u)) + 1
  <2> DEFINE q == N(m \div base, u)
             d == Digit(m % base, u)
             s == Append(q, d)
  <2>1. ~(m < base)  BY <1>2
  <2>2. N(m, u) = s  BY <2>1, NumeralUnfolds
  <2>3. d \notin {" ", "-"}  BY DivMod, DigitIs
  <2>4. Digital(q) /\ Len(q) \in Nat \ {0} /\ q[1] # "0"
    <3>1. m \div base # 0 /\ m \div base \in Nat  BY <1>2, DivMod
    <3> QED  BY <1>2, <3>1 DEF NumeralOf
  <2> HIDE DEF N, q, d
  <2>5. Digital(s) /\ Len(s) = Len(q) + 1 /\ (Len(q) > 0 => s[1] = q[1])
    BY <2>3, <2>4, DigitalAppend
  <2> HIDE DEF s
  <2>6. m # 0  BY <1>2
  <2>7. Len(s) \in Nat \ {0} /\ Len(q) > 0  BY <2>4, <2>5
  <2>8. NumeralOf(s, m)  BY <2>4, <2>5, <2>6, <2>7 DEF NumeralOf
  <2> QED  BY <2>2, <2>5, <2>8 DEF q
<1> HIDE DEF N
<1>3. T = {}
  <2> SUFFICES ASSUME T # {} PROVE FALSE
    OBVIOUS
  <2>1. PICK m \in T : \A j \in T : m <= j
    <3>1. T \in SUBSET Nat  OBVIOUS
    <3> HIDE DEF T
    <3> QED  BY <3>1, LeastNat
  <2>2. CASE m < base
    <3>1. Good(m)  BY <1>1, <2>2
    <3> QED  BY <3>1
  <2>3. CASE m >= base
    <3>1. m \div base \in Nat /\ ~(m <= m \div base)  BY <2>3, DivMod
    <3>2. Good(m \div base)  BY <2>1, <3>1
    <3>3. NumeralOf(N(m, up), m) /\ Len(N(m, up)) = Len(N(m \div base, up)) + 1
      BY <1>2, <2>3, <3>2
    <3>4. /\ NumeralOf(N(m, FALSE), m)
          /\ Len(N(m, FALSE)) = Len(N(m \div base, FALSE)) + 1
      BY <1>2, <2>3, <3>2
    <3>5. Good(m)  BY <3>2, <3>3, <3>4
    <3> QED  BY <3>5
  <2> QED  BY <2>2, <2>3
<1>4. Good(n)  BY <1>3
<1> QED  BY <1>4 DEF N

-----------------------------------------------------------------------------
(* Blanks, a core without blanks, blanks.                                  *)

Blanks(n) == Repeat(" ", n)
Zeros(n) == Repeat("0", n)
Solid(s) == IsSeq(s) /\ \A i \in 1..Len(s) : s[i] # " "
Form(a, c, e) == (Blanks(a) \o c) \o Blanks(e)

(* So many blanks, or zeros.                                               *)
LEMMA PaddingHas ==
  ASSUME NEW n \in Nat
  PROVE  /\ IsSeq(Blanks(n)) /\ Len(Blanks(n)) = n
         /\ \A i \in 1..n : Blanks(n)[i] = " "
         /\ IsSeq(Zeros(n)) /\ Len(Zeros(n)) = n
         /\ \A i \in 1..n : Zeros(n)[i] = "0"
<1>1. MaxOf(n, 0) = n /\ n \in Int  BY DEF MaxOf
<1>2. ASSUME NEW c
      PROVE  /\ IsSeq(Repeat(c, n)) /\ Len(Repeat(c, n)) = n
             /\ \A i \in 1..n : Repeat(c, n)[i] = c
  <2>1. /\ IsSeq(Repeat(c, n)) /\ Len(Repeat(c, n)) = MaxOf(n, 0)
        /\ \A i \in 1..MaxOf(n, 0) : Repeat(c, n)[i] = c
    BY <1>1, RepeatHas
  <2> QED  BY ONLY <1>1, <2>1
<1>3. /\ IsSeq(Repeat(" ", n)) /\ Len(Repeat(" ", n)) = n
      /\ \A i \in 1..n : Repeat(" ", n)[i] = " "
  BY ONLY <1>2
<1>4. /\ IsSeq(Repeat("0", n)) /\ Len(Repeat("0", n)) = n
      /\ \A i \in 1..n : Repeat("0", n)[i] = "0"
  BY ONLY <1>2
<1> QED  BY ONLY <1>3, <1>4 DEF Blanks, Zeros

(* None and one of them.                                                   *)
LEMMA ShortPadding ==
  /\ Blanks(0) = <<>> /\ Blanks(1) = <<" ">>
  /\ Zeros(0) = <<>> /\ Zeros(1) = <<"0">>
<1>0. 0 \in Int /\ 0 <= 0  OBVIOUS
<1>a. \A c : Repeat(c, 0) = <<>>  BY ONLY <1>0, RepeatNone
<1>1. Repeat(" ", 0) = <<>>  BY ONLY <1>a
<1>2. Repeat("0", 0) = <<>>  BY ONLY <1>a
<1>3. Repeat(" ", 1) = <<" ">> /\ Repeat("0", 1) = <<"0">>  BY RepeatOne
<1> QED  BY ONLY <1>1, <1>2, <1>3 DEF Blanks, Zeros

(* What is at which place of such a form.                                  *)
LEMMA FormHas ==
  ASSUME NEW a \in Nat, NEW c, IsSeq(c), NEW e \in Nat
  PROVE  /\ IsSeq(Form(a, c, e)) /\ Len(Form(a, c, e)) = a + Len(c) + e
         /\ \A i \in 1..a + Len(c) + e :
              Form(a, c, e)[i] = IF a < i /\ i <= a + Len(c) THEN c[i - a]
                                 ELSE " "
<1> DEFINE n == Len(c)
           x == Blanks(a)
           y == Blanks(e)
           u == x \o c
           f == u \o y
<1>0. n \in Nat  BY StringIs DEF IsSeq
<1>1. /\ IsSeq(x) /\ Len(x) = a /\ \A i \in 1..a : x[i] = " "
      /\ IsSeq(y) /\ Len(y) = e /\ \A i \in 1..e : y[i] = " "
  BY PaddingHas
<1> HIDE DEF x, y, n
<1>2. /\ IsSeq(u) /\ Len(u) = a + n
      /\ \A i \in 1..a + n : u[i] = IF i <= a THEN x[i] ELSE c[i - a]
  BY <1>1, Concatenation DEF n
<1> HIDE DEF u
<1>3. /\ IsSeq(f) /\ Len(f) = (a + n) + e
      /\ \A i \in 1..(a + n) + e :
           f[i] = IF i <= a + n THEN u[i] ELSE y[i - (a + n)]
  <2>1. /\ IsSeq(f) /\ Len(f) = Len(u) + Len(y)
        /\ \A i \in 1..Len(u) + Len(y) :
             f[i] = IF i <= Len(u) THEN u[i] ELSE y[i - Len(u)]
    BY <1>1, <1>2, Concatenation
  <2> HIDE DEF f
  <2> QED  BY ONLY <1>1, <1>2, <2>1
<1> HIDE DEF f
<1>4. ASSUME NEW i \in 1..(a + n) + e
      PROVE  f[i] = IF a < i /\ i <= a + n THEN c[i - a] ELSE " "
  <2>1. CASE i <= a
    <3>1. i \in 1..a /\ i \in 1..a + n /\ i <= a + n /\ ~(a < i)
      BY ONLY <1>0, <2>1, a \in Nat, i \in 1..(a + n) + e
    <3> QED  BY <1>1, <1>2, <1>3, <2>1, <3>1
  <2>2. CASE a < i /\ i <= a + n
    <3>1. i \in 1..a + n /\ ~(i <= a)
      BY ONLY <1>0, <2>2, a \in Nat, i \in 1..(a + n) + e
    <3> QED  BY <1>2, <1>3, <2>2, <3>1
  <2>3. CASE a + n < i
    <3>1. i - (a + n) \in 1..e /\ ~(i <= a + n)
      BY ONLY <1>0, <2>3, a \in Nat, e \in Nat, i \in 1..(a + n) + e
    <3> QED  BY <1>1, <1>3, <3>1
  <2>4. i <= a \/ (a < i /\ i <= a + n) \/ a + n < i
    BY ONLY <1>0, a \in Nat, i \in 1..(a + n) + e
  <2> QED  BY <2>1, <2>2, <2>3, <2>4
<1> QED  BY <1>3, <1>4 DEF Form, f, u, x, y, n

(* Two such forms that are the same have the same parts, the place of an   *)
(* empty core excepted.                                                    *)
LEMMA FormUnique ==
  ASSUME NEW a \in Nat, NEW c, Solid(c), NEW e \in Nat,
         NEW h \in Nat, NEW g, Solid(g), NEW j \in Nat,
         Form(a, c, e) = Form(h, g, j)
  PROVE  Len(c) = Len(g) /\ (Len(c) > 0 => a = h /\ c = g)
<1>a. IsSeq(c) /\ IsSeq(g)  BY DEF Solid
<1>b. /\ Len(Form(a, c, e)) = a + Len(c) + e
      /\ \A i \in 1..a + Len(c) + e :
           Form(a, c, e)[i] = IF a < i /\ i <= a + Len(c) THEN c[i - a] ELSE " "
  BY ONLY ZenonT(60), <1>a, a \in Nat, e \in Nat, FormHas
<1>c. /\ Len(Form(h, g, j)) = h + Len(g) + j
      /\ \A i \in 1..h + Len(g) + j :
           Form(h, g, j)[i] = IF h < i /\ i <= h + Len(g) THEN g[i - h] ELSE " "
  BY ONLY ZenonT(60), <1>a, h \in Nat, j \in Nat, FormHas
<1> DEFINE m == Len(c)
           n == Len(g)
           f == Form(a, c, e)
           N == a + m + e
<1>0. m \in Nat /\ n \in Nat  BY StringIs DEF IsSeq, Solid
<1>1. /\ Len(f) = N
      /\ \A i \in 1..N : f[i] = IF a < i /\ i <= a + m THEN c[i - a] ELSE " "
  BY ONLY <1>b
<1>2. /\ Len(f) = h + n + j
      /\ \A i \in 1..h + n + j :
           f[i] = IF h < i /\ i <= h + n THEN g[i - h] ELSE " "
  BY ONLY <1>c, Form(a, c, e) = Form(h, g, j)
<1>3. \A i \in 1..m : c[i] # " "  BY DEF Solid
<1>4. \A i \in 1..n : g[i] # " "  BY DEF Solid
<1> HIDE DEF f, m, n
<1>5. ASSUME NEW i \in 1..N
      PROVE  a < i /\ i <= a + m <=> h < i /\ i <= h + n
  <2>1. i \in 1..h + n + j  BY <1>1, <1>2
  <2>2. ASSUME a < i, i <= a + m PROVE f[i] # " "
    <3>1. i - a \in 1..m  BY <1>0, <2>2
    <3> QED  BY <1>1, <1>3, <2>2, <3>1
  <2>3. ASSUME h < i, i <= h + n PROVE f[i] # " "
    <3>1. i - h \in 1..n  BY <1>0, <2>3
    <3> QED  BY <1>2, <1>4, <2>1, <2>3, <3>1
  <2>4. ASSUME ~(a < i /\ i <= a + m) PROVE f[i] = " "  BY <1>1, <2>4
  <2>5. ASSUME ~(h < i /\ i <= h + n) PROVE f[i] = " "  BY <1>2, <2>1, <2>5
  <2> QED  BY <2>2, <2>3, <2>4, <2>5
<1>6. N = h + n + j  BY <1>1, <1>2
<1>7. ASSUME m > 0
      PROVE  /\ h < a + 1 /\ a + 1 <= h + n
             /\ h < a + m /\ a + m <= h + n
  <2>1. a + 1 \in 1..N /\ a + m \in 1..N  BY <1>0, <1>7
  <2>2. a < a + 1 /\ a + 1 <= a + m /\ a < a + m /\ a + m <= a + m
    BY <1>0, <1>7
  <2> QED  BY <1>5, <2>1, <2>2
<1>8. ASSUME n > 0
      PROVE  /\ a < h + 1 /\ h + 1 <= a + m
             /\ a < h + n /\ h + n <= a + m
  <2>1. h + 1 \in 1..N /\ h + n \in 1..N  BY <1>0, <1>6, <1>8
  <2>2. h < h + 1 /\ h + 1 <= h + n /\ h < h + n /\ h + n <= h + n
    BY <1>0, <1>8
  <2> QED  BY <1>5, <2>1, <2>2
<1>9. m = n /\ (m > 0 => a = h)  BY <1>0, <1>7, <1>8
<1>10. ASSUME m > 0
       PROVE  c = g
  <2>1. ASSUME NEW i \in 1..m
        PROVE  c[i] = g[i]
    <3>1. /\ a + i \in 1..N /\ a < a + i /\ a + i <= a + m
          /\ (a + i) - a = i
      BY <1>0
    <3>2. f[a + i] = c[i]  BY <1>1, <3>1
    <3>3. a + i \in 1..h + n + j  BY <1>6, <3>1
    <3>4. f[a + i] = g[i]  BY <1>2, <1>9, <1>10, <3>1, <3>3
    <3> QED  BY <3>2, <3>4
  <2> QED  BY <1>9, <2>1, SameString DEF m, n, Solid
<1> QED  BY <1>9, <1>10 DEF m, n

(* A string without blanks: nothing, one character, zeros, digits, and two *)
(* such strings one after the other.                                       *)
LEMMA SolidConcat ==
  ASSUME NEW s, Solid(s), NEW t, Solid(t)
  PROVE  Solid(s \o t) /\ Len(s \o t) = Len(s) + Len(t)
<1>1. IsSeq(s) /\ IsSeq(t)  BY DEF Solid
<1>2. Len(s) \in Nat /\ Len(t) \in Nat  BY <1>1, StringIs DEF IsSeq
<1>3. /\ IsSeq(s \o t) /\ Len(s \o t) = Len(s) + Len(t)
      /\ \A i \in 1..Len(s) + Len(t) :
           (s \o t)[i] = IF i <= Len(s) THEN s[i] ELSE t[i - Len(s)]
  BY <1>1, Concatenation
<1>4. ASSUME NEW i \in 1..Len(s) + Len(t)
      PROVE  (s \o t)[i] # " "
  <2>1. (i <= Len(s) /\ i \in 1..Len(s)) \/ (~(i <= Len(s)) /\ i - Len(s) \in 1..Len(t))
    BY ONLY <1>2, i \in 1..Len(s) + Len(t)
  <2> QED  BY <1>3, <2>1 DEF Solid
<1> QED  BY <1>3, <1>4 DEF Solid

(* No blank is in nothing, in another character, in zeros or in digits.    *)
LEMMA SolidIs ==
  /\ Solid(<<>>)
  /\ \A c : c # " " => Solid(<<c>>)
  /\ \A n \in Nat : Solid(Zeros(n))
  /\ \A s : Digital(s) => Solid(s)
<1>1. Solid(<<>>)  BY ShortStrings DEF Solid
<1>2. ASSUME NEW c, c # " "
      PROVE  Solid(<<c>>)
  <2>1. IsSeq(<<c>>) /\ Len(<<c>>) = 1 /\ <<c>>[1] = c  BY ShortStrings
  <2>2. \A i \in 1..Len(<<c>>) : i = 1  BY ONLY <2>1
  <2>3. \A i \in 1..Len(<<c>>) : <<c>>[i] # " "  BY <1>2, <2>1, <2>2
  <2> QED  BY ONLY <2>1, <2>3 DEF Solid
<1>3. ASSUME NEW n \in Nat
      PROVE  Solid(Zeros(n))
  <2>1. /\ IsSeq(Zeros(n)) /\ Len(Zeros(n)) = n
        /\ \A i \in 1..n : Zeros(n)[i] = "0"
    BY PaddingHas
  <2> QED  BY <2>1 DEF Solid
<1>4. ASSUME NEW s, Digital(s)
      PROVE  Solid(s)
  BY <1>4 DEF Digital, Solid
<1> QED  BY <1>1, <1>2, <1>3, <1>4

(* Two characters are one and one.                                         *)
LEMMA TwoInFront ==
  ASSUME NEW c, NEW e, NEW s, IsSeq(s)
  PROVE  <<c, e>> \o s = <<c>> \o (<<e>> \o s)
<1>2. IsSeq(<<c>>) /\ IsSeq(<<e>>)  BY ShortStrings
<1>1. <<c, e>> = <<c>> \o <<e>>
  <2> DEFINE x == <<e>>
             l == <<c, e>>
             r == <<c>> \o x
  <2>1. IsSeq(x) /\ Len(x) = 1 /\ x[1] = e  BY ShortStrings
  <2>2. IsSeq(l) /\ Len(l) = 2 /\ l[1] = c /\ l[2] = e
    <3>1. l \in Seq({c, e})  OBVIOUS
    <3> QED  BY <3>1, StringIs
  <2> HIDE DEF x, l
  <2>3. /\ IsSeq(r) /\ Len(r) = Len(x) + 1 /\ r[1] = c
        /\ \A i \in 1..Len(x) : r[i + 1] = x[i]
    BY <2>1, InFront
  <2> HIDE DEF r
  <2>4. Len(r) = 2 /\ r[1] = c /\ r[2] = e
    <3>1. 1 \in 1..Len(x) /\ 1 + 1 = 2 /\ Len(r) = 2  BY ONLY <2>1, <2>3
    <3> QED  BY <2>1, <2>3, <3>1
  <2>5. \A i \in 1..Len(l) : i = 1 \/ i = 2  BY ONLY <2>2
  <2>6. \A i \in 1..Len(l) : l[i] = r[i]  BY ONLY <2>2, <2>4, <2>5
  <2>7. IsSeq(r)  BY <2>3
  <2>8. l = r  BY <2>2, <2>4, <2>6, <2>7, SameString
  <2> QED  BY ONLY <2>8 DEF l, r, x
<1>3. (<<c>> \o <<e>>) \o s = <<c>> \o (<<e>> \o s)  BY <1>2, ConcatAssoc
<1> QED  BY <1>1, <1>3

-----------------------------------------------------------------------------
(* What ISO C asks for, in this form.                                      *)

IntDirective(d) ==
  /\ Matches(d) /\ d.conv \in {"d", "i", "u", "x", "X", "o", "b"}
  /\ d.flags \subseteq FlagChars

Upper(d) == d.conv = "X"
IsoNumeral(d) == Numeral(IsoMagnitude(d), Base(d.conv), Upper(d))

(* The value and its magnitude; only a signed one is negative.             *)
LEMMA IsoValueIs ==
  ASSUME NEW d, IntDirective(d)
  PROVE  /\ IsoValue(d) \in Int /\ IsoMagnitude(d) \in Nat
         /\ IsoMagnitude(d) = 0 <=> IsoValue(d) = 0
         /\ IsoValue(d) < 0 => Signed(d.conv)
         /\ Base(d.conv) \in {2, 8, 10, 16} /\ Upper(d) \in BOOLEAN
         /\ d.width \in Int /\ d.prec \in Int /\ IsoPrec(d) \in Int
         /\ Columns(d) \in Nat
<1>1. d.arg \in Int /\ d.mod \in DOMAIN BITS /\ d.width \in Int /\ d.prec \in Int
  BY DEF IntDirective, Matches, TextConversions
<1>2. Two(BITS[d.mod]) \in Nat \ {0}  BY <1>1, TwoAssumption
<1>3. /\ Unsigned(d.arg, BITS[d.mod]) \in Nat
      /\ TwosComplement(d.arg, BITS[d.mod]) \in Int
  BY <1>1, <1>2 DEF Unsigned, TwosComplement
<1>4. IsoValue(d) \in Int /\ (~Signed(d.conv) => IsoValue(d) \in Nat)
  BY <1>3 DEF IsoValue
<1>5. /\ IsoMagnitude(d) \in Nat
      /\ IsoMagnitude(d) = 0 <=> IsoValue(d) = 0
  BY <1>4 DEF IsoMagnitude
<1>6. IsoValue(d) < 0 => Signed(d.conv)  BY <1>4
<1>7. Base(d.conv) \in {2, 8, 10, 16}  BY DEF IntDirective, Base
<1>8. Upper(d) \in BOOLEAN  BY DEF Upper
<1>9. IsoPrec(d) \in Int /\ Columns(d) \in Nat
  BY <1>1, NoPrecIs DEF IsoPrec, Columns, MaxOf
<1> QED  BY <1>1, <1>4, <1>5, <1>6, <1>7, <1>8, <1>9

(* Its digits.                                                             *)
LEMMA IsoNumeralIs ==
  ASSUME NEW d, IntDirective(d)
  PROVE  /\ NumeralOf(IsoNumeral(d), IsoMagnitude(d))
         /\ Digital(IsoNumeral(d)) /\ Len(IsoNumeral(d)) \in Nat \ {0}
         /\ MadeDigits(d) = IF IsoValue(d) = 0 /\ d.prec # NoPrec THEN 0
                            ELSE Len(IsoNumeral(d))
<1>1. /\ IsoMagnitude(d) \in Nat /\ Base(d.conv) \in {2, 8, 10, 16}
      /\ Upper(d) \in BOOLEAN
  BY IsoValueIs
<1>2. /\ NumeralOf(IsoNumeral(d), IsoMagnitude(d))
      /\ Len(IsoNumeral(d)) = Len(Numeral(IsoMagnitude(d), Base(d.conv), FALSE))
  BY <1>1, NumeralIs DEF IsoNumeral
<1> QED  BY ONLY <1>2 DEF NumeralOf, MadeDigits

(* The digits with their zeros: those made, brought to the precision, with *)
(* one zero at least for `#o', unless there are none to be made though     *)
(* ISO C has one.                                                          *)
MadeString(d) == IF IsoValue(d) = 0 /\ d.prec # NoPrec THEN <<>> ELSE IsoNumeral(d)

NoDigitMade(d) ==
  /\ IsoValue(d) = 0 /\ d.prec # NoPrec
  /\ d.prec < 0 \/ (OctalHash(d) /\ d.prec = 0)

IsoZeros(d) ==
  MaxOf(IsoPrec(d) - MadeDigits(d),
        IF OctalHash(d) /\ IsoValue(d) # 0 THEN 1 ELSE 0)

(* Padding to less than nothing is no padding.                             *)
LEMMA RepeatClipped ==
  ASSUME NEW n \in Int
  PROVE  /\ MaxOf(n, 0) \in Nat
         /\ Repeat("0", n) = Zeros(MaxOf(n, 0))
         /\ Repeat(" ", n) = Blanks(MaxOf(n, 0))
<1>1. MaxOf(n, 0) \in Nat /\ MaxOf(MaxOf(n, 0), 0) = MaxOf(n, 0)  BY DEF MaxOf
<1> QED  BY ONLY <1>1 DEF Repeat, Zeros, Blanks

(* A numeral with zeros in front.                                          *)
LEMMA ZerosInFront ==
  ASSUME NEW q \in Nat, NEW m, Solid(m)
  PROVE  /\ Solid(Zeros(q) \o m) /\ IsSeq(Zeros(q) \o m)
         /\ Len(Zeros(q) \o m) = q + Len(m) /\ Len(m) \in Nat
         /\ q > 0 => (Zeros(q) \o m)[1] = "0"
         /\ q = 0 => Zeros(q) \o m = m
         /\ q = 1 => Zeros(q) \o m = <<"0">> \o m
<1>1. Solid(Zeros(q)) /\ IsSeq(m)  BY SolidIs DEF Solid
<1>2. /\ IsSeq(Zeros(q)) /\ Len(Zeros(q)) = q
      /\ \A i \in 1..q : Zeros(q)[i] = "0"
  BY PaddingHas
<1>3. Solid(Zeros(q) \o m) /\ Len(Zeros(q) \o m) = Len(Zeros(q)) + Len(m)
  BY <1>1, SolidConcat
<1>4. Len(m) \in Nat  BY <1>1, StringIs DEF IsSeq
<1>5. ASSUME q > 0 PROVE (Zeros(q) \o m)[1] = "0"
  <2>1. \A i \in 1..Len(Zeros(q)) + Len(m) :
          (Zeros(q) \o m)[i] = IF i <= Len(Zeros(q)) THEN Zeros(q)[i]
                               ELSE m[i - Len(Zeros(q))]
    BY <1>1, <1>2, Concatenation
  <2>2. 1 \in 1..q + Len(m) /\ 1 <= q /\ 1 \in 1..q
    BY ONLY <1>4, <1>5, q \in Nat
  <2> QED  BY ONLY <1>2, <2>1, <2>2
<1>6. ASSUME q = 0 PROVE Zeros(q) \o m = m
  <2>1. Zeros(q) = <<>>  BY <1>2, <1>6, EmptyString
  <2> QED  BY <1>1, <2>1, ConcatEmpty
<1>7. ASSUME q = 1 PROVE Zeros(q) \o m = <<"0">> \o m
  BY <1>7, RepeatOne DEF Zeros
<1> QED  BY <1>2, <1>3, <1>4, <1>5, <1>6, <1>7 DEF Solid

(* The numeral of 0.                                                       *)
LEMMA NumeralZero ==
  ASSUME NEW base \in {2, 8, 10, 16}, NEW up \in BOOLEAN
  PROVE  Numeral(0, base, up) = <<"0">>
<1>1. Numeral(0, base, up) = <<Digit(0, up)>>
  <2>1. 0 < base /\ 0 \in Nat  OBVIOUS
  <2> QED  BY <2>1, NumeralUnfolds
<1>2. Digit(0, up) = "0"
  <2>1. 0 \in 0..15 /\ 0 = 0  OBVIOUS
  <2> QED  BY ONLY <2>1, up \in BOOLEAN, DigitIs
<1> QED  BY <1>1, <1>2

(* The digits ISO C asks for are those made with zeros in front.           *)
LEMMA IsoDigitsAre ==
  ASSUME NEW d, IntDirective(d)
  PROVE  /\ Solid(IsoDigits(d)) /\ Len(IsoDigits(d)) \in Nat
         /\ Solid(MadeString(d)) /\ Len(MadeString(d)) = MadeDigits(d)
         /\ MadeDigits(d) \in Nat /\ IsoZeros(d) \in Nat
         /\ NoDigitMade(d) => Len(IsoDigits(d)) > 0
         /\ ~NoDigitMade(d) =>
              /\ IsoDigits(d) = Zeros(IsoZeros(d)) \o MadeString(d)
              /\ Len(IsoDigits(d)) = IsoZeros(d) + MadeDigits(d)
<1> DEFINE n == IsoMagnitude(d)
           m == IF n = 0 /\ IsoPrec(d) = 0 THEN <<>> ELSE IsoNumeral(d)
           q == MaxOf(IsoPrec(d) - Len(m), 0)
           z == Zeros(q) \o m
           made == MadeString(d)
           first == OctalHash(d) /\ (z = <<>> \/ z[1] # "0")
           iso == IsoDigits(d)
<1>1. /\ n \in Nat /\ (n = 0 <=> IsoValue(d) = 0)
      /\ Base(d.conv) \in {2, 8, 10, 16} /\ Upper(d) \in BOOLEAN
      /\ d.prec \in Int /\ IsoPrec(d) \in Int
  BY IsoValueIs
<1>2. /\ Digital(IsoNumeral(d)) /\ Len(IsoNumeral(d)) \in Nat \ {0}
      /\ (n = 0 <=> IsoNumeral(d)[1] = "0")
      /\ MadeDigits(d) = IF IsoValue(d) = 0 /\ d.prec # NoPrec THEN 0
                         ELSE Len(IsoNumeral(d))
  BY IsoNumeralIs DEF NumeralOf
<1>3. Solid(IsoNumeral(d)) /\ Solid(<<>>) /\ Solid(<<"0">>)  BY <1>2, SolidIs
<1>4. Solid(m) /\ Len(m) \in Nat
  BY <1>2, <1>3, ShortStrings
<1>5. IsoPrec(d) - Len(m) \in Int  BY ONLY <1>1, <1>4
<1>6. q \in Nat /\ Repeat("0", IsoPrec(d) - Len(m)) = Zeros(q)
  BY ONLY <1>5, RepeatClipped
<1>7. iso = IF first THEN <<"0">> \o z ELSE z
  BY ONLY <1>6 DEF IsoDigits, IsoNumeral, Upper, OctalHash
<1>8. Solid(made) /\ Len(made) = MadeDigits(d) /\ MadeDigits(d) \in Nat
  BY <1>2, <1>3, ShortStrings DEF MadeString
<1>9. IsoZeros(d) \in Nat
  BY ONLY <1>1, <1>8 DEF IsoZeros, MaxOf
<1>10. (IsoPrec(d) = NoPrec /\ d.prec < 0) \/ (IsoPrec(d) = d.prec /\ d.prec >= 0)
  BY <1>1 DEF IsoPrec
<1>11. q = MaxOf(IsoPrec(d) - Len(m), 0)  OBVIOUS
<1>12. z = Zeros(q) \o m  OBVIOUS
<1>13. m = IF n = 0 /\ IsoPrec(d) = 0 THEN <<>> ELSE IsoNumeral(d)  OBVIOUS
<1>14. n = 0 => IsoNumeral(d) = <<"0">>
  BY <1>1, NumeralZero DEF IsoNumeral
<1> HIDE DEF q, n, m
<1>15. /\ Solid(z) /\ IsSeq(z) /\ Len(z) = q + Len(m)
       /\ q > 0 => z[1] = "0"
       /\ q = 0 => z = m
  BY <1>4, <1>6, ZerosInFront
<1>16. q = 1 => z = <<"0">> \o m  BY <1>4, <1>6, ZerosInFront
<1> HIDE DEF z
<1>17. Solid(<<"0">> \o z) /\ Len(<<"0">> \o z) = 1 + Len(z)
  <2>1. Solid(<<"0">> \o z) /\ Len(<<"0">> \o z) = Len(<<"0">>) + Len(z)
    BY <1>3, <1>15, SolidConcat
  <2>2. Len(<<"0">>) = 1  BY ShortStrings
  <2> QED  BY <2>1, <2>2
<1>18. Solid(iso) /\ Len(iso) \in Nat /\ Len(iso) >= Len(z)
  <2>1. Len(z) \in Nat  BY <1>4, <1>6, <1>15
  <2> HIDE DEF first, iso
  <2> QED  BY <1>7, <1>15, <1>17, <2>1
<1> HIDE DEF iso
<1>21. /\ Zeros(0) = <<>>
       /\ IsoZeros(d) = 1 =>
            Zeros(IsoZeros(d)) \o made = <<"0">> \o made
  <2>1. Zeros(0) = <<>>  BY RepeatNone DEF Zeros
  <2> HIDE DEF made
  <2> QED  BY ONLY <1>8, <1>9, <2>1, ZerosInFront
<1>19. CASE NoDigitMade(d)
  <2>1. IsoValue(d) = 0 /\ d.prec # NoPrec  BY <1>19 DEF NoDigitMade
  <2>2. n = 0  BY <1>1, <2>1
  <2>3. CASE d.prec < 0
    <3>1. IsoPrec(d) # 0  BY <1>10, <2>3, NoPrecIs
    <3>2. Len(m) > 0  BY <1>2, <1>13, <3>1
    <3>3. Len(z) > 0  BY <1>6, <1>4, <1>15, <3>2
    <3>4. Len(iso) > 0  BY <1>15, <1>4, <1>6, <1>18, <3>3
    <3> QED  BY <1>8, <1>9, <1>18, <1>19, <3>4 DEF iso, made
  <2>4. CASE OctalHash(d) /\ d.prec = 0
    <3>1. IsoPrec(d) = 0  BY <1>10, <2>4
    <3>2. m = <<>> /\ Len(m) = 0  BY <1>13, <2>2, <3>1, ShortStrings
    <3>3. q = 0
      <4>0. IsoPrec(d) = 0 /\ Len(m) = 0  BY ONLY <3>1, <3>2
      <4>1. IsoPrec(d) - Len(m) = 0  BY ONLY <4>0
      <4> QED  BY ONLY <1>11, <4>1 DEF MaxOf
    <3>4. z = <<>> /\ Len(z) = 0  BY <1>15, <3>2, <3>3
    <3>5. iso = <<"0">> \o z  BY <1>7, <2>4, <3>4
    <3>6. Len(iso) > 0  BY <1>17, <3>4, <3>5
    <3> QED  BY <1>8, <1>9, <1>18, <1>19, <3>6 DEF iso, made
  <2> QED  BY <1>19, <2>3, <2>4 DEF NoDigitMade
<1>20. CASE ~NoDigitMade(d)
  <2> DEFINE g == IsoZeros(d)
             t == Zeros(g) \o made
  <2>1. iso = t
    <3>1. CASE IsoValue(d) = 0 /\ d.prec # NoPrec
      <4>1. n = 0 /\ made = <<>> /\ MadeDigits(d) = 0
        BY <1>1, <1>2, <3>1 DEF MadeString
      <4>2. d.prec >= 0 /\ IsoPrec(d) = d.prec
        BY <1>1, <1>10, <1>20, <3>1 DEF NoDigitMade
      <4>3. g = d.prec
        BY <1>1, <3>1, <4>1, <4>2 DEF IsoZeros, MaxOf
      <4>4. t = Zeros(g)
        <5>1. IsSeq(Zeros(g))  BY <1>9, PaddingHas
        <5> QED  BY <4>1, <5>1, ConcatEmpty
      <4>5. CASE d.prec = 0
        <5>1. m = <<>> /\ Len(m) = 0  BY <1>13, <4>1, <4>2, <4>5, ShortStrings
        <5>2. q = 0
          <6>0. IsoPrec(d) = 0 /\ Len(m) = 0  BY ONLY <4>2, <4>5, <5>1
          <6>1. IsoPrec(d) - Len(m) = 0  BY ONLY <6>0
          <6> QED  BY ONLY <1>11, <6>1 DEF MaxOf
        <5>3. z = <<>>  BY <1>15, <5>1, <5>2
        <5>4. ~OctalHash(d)  BY <1>20, <3>1, <4>5 DEF NoDigitMade
        <5>5. iso = <<>>  BY <1>7, <5>3, <5>4
        <5>6. Zeros(g) = <<>>
          BY <1>21, <4>3, <4>5
        <5> QED  BY <4>4, <5>5, <5>6
      <4>6. CASE d.prec > 0
        <5>1. m = <<"0">> /\ Len(m) = 1
          BY <1>13, <1>14, <4>1, <4>2, <4>6, ShortStrings
        <5>2. q = d.prec - 1 /\ q \in Nat /\ q + 1 = g
          BY <1>1, <1>11, <4>2, <4>3, <4>6, <5>1 DEF MaxOf
        <5>3. z = Zeros(g)
          <6>1. <<"0">> = Repeat("0", 1)  BY RepeatOne
          <6>2. Repeat("0", q) \o Repeat("0", 1) = Repeat("0", q + 1)
            BY <5>2, RepeatTwice
          <6> QED  BY <1>12, <5>1, <5>2, <6>1, <6>2 DEF Zeros
        <5>4. z[1] = "0" /\ z # <<>>
          <6>1. /\ Len(Zeros(g)) = g /\ \A i \in 1..g : Zeros(g)[i] = "0"
            BY <1>9, PaddingHas
          <6>2. 1 \in 1..g /\ g # 0  BY <1>1, <4>3, <4>6
          <6> QED  BY <5>3, <6>1, <6>2, ShortStrings
        <5> QED  BY <1>7, <4>4, <5>3, <5>4
      <4> QED  BY <1>1, <4>2, <4>5, <4>6
    <3>2. CASE ~(IsoValue(d) = 0 /\ d.prec # NoPrec)
      <4>1. m = IsoNumeral(d) /\ made = IsoNumeral(d)
        <5>1. ~(n = 0 /\ IsoPrec(d) = 0)  BY <1>1, <1>10, <3>2, NoPrecIs
        <5> QED  BY <1>13, <3>2, <5>1 DEF MadeString
      <4>2. MadeDigits(d) = Len(m)  BY <1>2, <3>2, <4>1
      <4>3. z # <<>> /\ Len(m) > 0
        BY <1>2, <1>6, <1>15, <4>1, ShortStrings
      <4>4. z[1] = "0" <=> q > 0 \/ n = 0
        <5>1. CASE q > 0  BY <1>15, <5>1
        <5>2. CASE q = 0  BY <1>2, <1>15, <4>1, <5>2
        <5> QED  BY <1>6, <5>1, <5>2
      <4>5. CASE OctalHash(d) /\ n # 0 /\ q = 0
        <5>1. iso = <<"0">> \o m  BY <1>7, <1>15, <4>4, <4>5
        <5>2. g = 1
          BY <1>1, <1>4, <1>11, <4>2, <4>5 DEF IsoZeros, MaxOf
        <5>3. t = <<"0">> \o made  BY <5>2, <1>21
        <5> QED  BY <4>1, <5>1, <5>3
      <4>6. CASE ~(OctalHash(d) /\ n # 0 /\ q = 0)
        <5>1. iso = z  BY <1>6, <1>7, <4>3, <4>4, <4>6
        <5>2. g = q
          BY <1>1, <1>4, <1>6, <1>11, <4>2, <4>6 DEF IsoZeros, MaxOf
        <5> QED  BY <1>12, <4>1, <5>1, <5>2
      <4> QED  BY <4>5, <4>6
    <3> QED  BY <3>1, <3>2
  <2>2. Len(t) = g + Len(made)
    BY <1>8, <1>9, ZerosInFront
  <2> HIDE DEF t, g, made
  <2>3. /\ iso = t /\ Len(iso) = g + MadeDigits(d)
    BY <1>8, <2>1, <2>2
  <2> QED  BY <1>8, <1>9, <1>18, <1>20, <2>3 DEF t, g, made, iso
<1> QED  BY <1>19, <1>20

(* Sign or prefix, a blank for a sign apart.                               *)
IsoSign(d) == IF IsoPrefix(d) = <<" ">> THEN <<>> ELSE IsoPrefix(d)
IsoBlank(d) == IF IsoPrefix(d) = <<" ">> THEN 1 ELSE 0
IsoGap(d) == MaxOf(Columns(d) - Len(IsoPrefix(d)) - Len(IsoDigits(d)), 0)
IsoZeroed(d) == ~LeftAligned(d) /\ "0" \in d.flags /\ IsoPrec(d) = NoPrec

(* The parts of the form.                                                  *)
IsoCore(d) ==
  IsoSign(d) \o (Zeros(IF IsoZeroed(d) THEN IsoGap(d) ELSE 0) \o IsoDigits(d))
IsoLead(d) ==
  IsoBlank(d) + (IF LeftAligned(d) \/ IsoZeroed(d) THEN 0 ELSE IsoGap(d))
IsoTail(d) == IF LeftAligned(d) THEN IsoGap(d) ELSE 0

(* The prefix is the blank of the sign, if that is one, and the rest.      *)
LEMMA IsoPrefixIs ==
  ASSUME NEW d, IntDirective(d)
  PROVE  /\ Solid(IsoSign(d)) /\ IsSeq(IsoPrefix(d))
         /\ Len(IsoPrefix(d)) \in Nat /\ Len(IsoSign(d)) \in Nat
         /\ IsoBlank(d) \in {0, 1}
         /\ Len(IsoPrefix(d)) = IsoBlank(d) + Len(IsoSign(d))
         /\ \A s : IsSeq(s) =>
              IsoPrefix(d) \o s = Blanks(IsoBlank(d)) \o (IsoSign(d) \o s)
<1> DEFINE p == IsoPrefix(d)
           g == IsoSign(d)
           l == IsoBlank(d)
<1>0. \A c : IsSeq(<<c>>) /\ Len(<<c>>) = 1 /\ <<c>>[1] = c  BY ShortStrings
<1>1. CASE p = <<" ">>
  <2>1. g = <<>> /\ l = 1  BY <1>1 DEF IsoSign, IsoBlank
  <2>2. Solid(g) /\ Len(g) = 0  BY <2>1, SolidIs, ShortStrings
  <2>3. Len(p) = 1 /\ IsSeq(p)  BY <1>0, <1>1
  <2>4. ASSUME NEW s, IsSeq(s)
        PROVE  p \o s = Blanks(l) \o (g \o s)
    <3>1. g \o s = s  BY <2>1, <2>4, ConcatEmpty
    <3>2. Blanks(l) = p  BY <1>1, <2>1, ShortPadding
    <3> QED  BY <3>1, <3>2
  <2> HIDE DEF p, g, l
  <2> QED  BY <2>1, <2>2, <2>3, <2>4 DEF p, g, l
<1>2. CASE p # <<" ">>
  <2>1. g = p /\ l = 0  BY <1>2 DEF IsoSign, IsoBlank
  <2>2. Solid(p)
    <3>1. p \in {<<"-">>, <<"+">>, <<"0", d.conv>>, <<>>}
      BY <1>2 DEF IsoPrefix
    <3>2. Solid(<<"-">>) /\ Solid(<<"+">>) /\ Solid(<<>>)  BY SolidIs
    <3>3. Solid(<<"0", d.conv>>)
      <4>1. d.conv # " "  BY DEF IntDirective
      <4>2. Solid(<<d.conv>>) /\ Solid(<<"0">>)  BY <4>1, SolidIs
      <4>3. Solid(<<"0">> \o <<d.conv>>)  BY <4>2, SolidConcat
      <4>4. IsSeq(<<>>)  BY ShortStrings
      <4>5. /\ <<"0", d.conv>> \o <<>> = <<"0">> \o (<<d.conv>> \o <<>>)
            /\ <<d.conv>> \o <<>> = <<d.conv>>
            /\ <<"0", d.conv>> \o <<>> = <<"0", d.conv>>
        <5>1. <<"0", d.conv>> \o <<>> = <<"0">> \o (<<d.conv>> \o <<>>)
          BY <4>4, TwoInFront
        <5>2. IsSeq(<<"0", d.conv>>)
          <6>1. <<"0", d.conv>> \in Seq({"0", d.conv})  OBVIOUS
          <6> QED  BY <6>1, StringIs
        <5> QED  BY <1>0, <5>1, <5>2, ConcatEmpty
      <4> QED  BY <4>3, <4>5
    <3> HIDE DEF p
    <3> QED  BY <3>1, <3>2, <3>3
  <2>3. Len(p) \in Nat /\ IsSeq(p)  BY <2>2, StringIs DEF IsSeq, Solid
  <2>4. ASSUME NEW s, IsSeq(s)
        PROVE  p \o s = Blanks(l) \o (g \o s)
    <3>1. Blanks(l) = <<>>  BY <2>1, ShortPadding
    <3>2. IsSeq(p \o s)  BY <2>3, <2>4, Concatenation
    <3>3. <<>> \o (p \o s) = p \o s  BY <3>2, ConcatEmpty
    <3> QED  BY <2>1, <3>1, <3>3
  <2> HIDE DEF p, g, l
  <2> QED  BY <2>1, <2>2, <2>3, <2>4 DEF p, g, l
<1> QED  BY <1>1, <1>2

(* What ISO C asks for has the form.                                       *)
LEMMA IsoForm ==
  ASSUME NEW d, IntDirective(d)
  PROVE  /\ IsoNumber(d) = Form(IsoLead(d), IsoCore(d), IsoTail(d))
         /\ IsoLead(d) \in Nat /\ Solid(IsoCore(d)) /\ IsoTail(d) \in Nat
         /\ IsoGap(d) \in Nat
         /\ Len(IsoCore(d)) = Len(IsoSign(d))
              + (IF IsoZeroed(d) THEN IsoGap(d) ELSE 0) + Len(IsoDigits(d))
<1> DEFINE p == IsoPrefix(d)
           g == IsoSign(d)
           l == IsoBlank(d)
           t == IsoDigits(d)
           w == IsoGap(d)
           q == IF IsoZeroed(d) THEN w ELSE 0
<1>1. /\ Solid(g) /\ IsSeq(p) /\ Len(p) \in Nat /\ Len(g) \in Nat
      /\ l \in {0, 1} /\ l \in Nat
      /\ \A s : IsSeq(s) => p \o s = Blanks(l) \o (g \o s)
  <2>1. l \in {0, 1} => l \in Nat  BY DEF IsoBlank
  <2> HIDE DEF l
  <2> QED  BY <2>1, IsoPrefixIs DEF l
<1>2. Solid(t) /\ IsSeq(t) /\ Len(t) \in Nat  BY IsoDigitsAre DEF Solid
<1>3. Columns(d) \in Nat /\ d.width \in Int  BY IsoValueIs
<1>4. Columns(d) = IF d.width < 0 THEN -d.width ELSE d.width
  BY <1>3 DEF Columns, MaxOf
<1>5. Columns(d) - Len(p) - Len(t) \in Int  BY ONLY <1>1, <1>2, <1>3
<1>6. /\ w \in Nat
      /\ Repeat("0", Columns(d) - Len(p) - Len(t)) = Zeros(w)
      /\ Repeat(" ", Columns(d) - Len(p) - Len(t)) = Blanks(w)
  BY ONLY <1>5, RepeatClipped DEF IsoGap
<1>7. IsoNumber(d) =
        IF LeftAligned(d) THEN (p \o t) \o Blanks(w)
        ELSE IF "0" \in d.flags /\ IsoPrec(d) = NoPrec
        THEN (p \o Zeros(w)) \o t
        ELSE (Blanks(w) \o p) \o t
  BY ONLY <1>4, <1>6 DEF IsoNumber, LeftAligned
<1>8. q \in Nat  BY ONLY <1>6
<1>9. /\ IsoLead(d) = l + (IF LeftAligned(d) \/ IsoZeroed(d) THEN 0 ELSE w)
      /\ IsoTail(d) = (IF LeftAligned(d) THEN w ELSE 0)
      /\ IsoCore(d) = g \o (Zeros(q) \o t)
  BY DEF IsoLead, IsoTail, IsoCore
<1>10. IsoZeroed(d) <=>
         ~LeftAligned(d) /\ "0" \in d.flags /\ IsoPrec(d) = NoPrec
  BY DEF IsoZeroed
<1>11. q = IF IsoZeroed(d) THEN w ELSE 0  OBVIOUS
<1> HIDE DEF p, g, l, t, w, q
<1>a. l \in Nat /\ w \in Nat /\ l + w \in Nat /\ w + l = l + w /\ l + 0 = l
  <2>1. l \in Nat /\ w \in Nat  BY <1>1, <1>6
  <2> QED  BY ONLY <2>1
<1>12. IsoLead(d) \in Nat /\ IsoTail(d) \in Nat
  BY ONLY <1>a, <1>9
<1>13. /\ Solid(Zeros(q) \o t) /\ Len(Zeros(q) \o t) = q + Len(t)
       /\ q = 0 => Zeros(q) \o t = t
  BY <1>2, <1>8, ZerosInFront
<1> DEFINE c == g \o (Zeros(q) \o t)
<1>14. Solid(c) /\ Len(c) = Len(g) + (q + Len(t))
  BY <1>1, <1>13, SolidConcat
<1>15. /\ IsSeq(Blanks(l)) /\ IsSeq(Blanks(w))
       /\ Blanks(0) = <<>> /\ IsSeq(Zeros(q))
  BY <1>1, <1>6, <1>8, ShortPadding, PaddingHas
<1>16. /\ p \o (Zeros(q) \o t) = Blanks(l) \o c
       /\ IsSeq(Blanks(l) \o c) /\ IsSeq(c)
  <2>1. IsSeq(Zeros(q) \o t) /\ IsSeq(c)  BY <1>13, <1>14 DEF Solid
  <2>2. p \o (Zeros(q) \o t) = Blanks(l) \o c  BY <1>1, <2>1
  <2> HIDE DEF c
  <2> QED  BY <1>15, <2>1, <2>2, Concatenation
<1>17. IsoNumber(d) = (Blanks(IsoLead(d)) \o c) \o Blanks(IsoTail(d))
  <2>1. CASE LeftAligned(d)
    <3>1. q = 0 /\ IsoLead(d) = l /\ IsoTail(d) = w
      BY ONLY <1>a, <1>9, <1>10, <1>11, <2>1
    <3>2. p \o t = Blanks(l) \o c  BY <1>13, <1>16, <3>1
    <3> QED  BY <1>7, <2>1, <3>1, <3>2
  <2>2. CASE IsoZeroed(d)
    <3>1. q = w /\ IsoLead(d) = l /\ IsoTail(d) = 0
      BY ONLY <1>a, <1>9, <1>10, <1>11, <2>2
    <3>2. (p \o Zeros(w)) \o t = p \o (Zeros(w) \o t)
      BY SMTT(30), <1>1, <1>2, <1>15, <3>1, ConcatAssoc
    <3>3. (p \o Zeros(w)) \o t = Blanks(l) \o c  BY <1>16, <3>1, <3>2
    <3>4. (Blanks(l) \o c) \o <<>> = Blanks(l) \o c  BY <1>16, ConcatEmpty
    <3> QED  BY <1>7, <1>10, <1>15, <2>2, <3>1, <3>3, <3>4
  <2>3. CASE ~LeftAligned(d) /\ ~IsoZeroed(d)
    <3>1. q = 0 /\ IsoLead(d) = w + l /\ IsoTail(d) = 0
      BY ONLY <1>a, <1>9, <1>11, <2>3
    <3>2. p \o t = Blanks(l) \o c  BY <1>13, <1>16, <3>1
    <3>3. (Blanks(w) \o p) \o t = Blanks(w) \o (p \o t)
      <4>1. IsSeq(Blanks(w)) /\ IsSeq(p) /\ IsSeq(t)  BY <1>1, <1>2, <1>15
      <4> QED  BY ONLY <4>1, ConcatAssoc
    <3>4. Blanks(w) \o (Blanks(l) \o c) = (Blanks(w) \o Blanks(l)) \o c
      <4>1. IsSeq(Blanks(w)) /\ IsSeq(Blanks(l)) /\ IsSeq(c)
        BY <1>15, <1>16
      <4> HIDE DEF c
      <4> QED  BY ONLY <4>1, ConcatAssoc
    <3>5. Blanks(w) \o Blanks(l) = Blanks(w + l)
      BY <1>1, <1>6, RepeatTwice DEF Blanks
    <3>6. (Blanks(w) \o p) \o t = Blanks(w + l) \o c
      BY <3>2, <3>3, <3>4, <3>5
    <3>7. w + l \in Nat  BY ONLY <1>a
    <3>8. IsSeq(Blanks(w + l))  BY <3>7, PaddingHas
    <3> HIDE DEF c
    <3>9. IsSeq(Blanks(w + l) \o c)  BY <1>16, <3>8, Concatenation
    <3>10. (Blanks(w + l) \o c) \o <<>> = Blanks(w + l) \o c
      BY <3>9, ConcatEmpty
    <3> QED  BY <1>7, <1>10, <1>15, <2>3, <3>1, <3>6, <3>10
  <2> QED  BY <1>10, <2>1, <2>2, <2>3
<1>18. IsoNumber(d) = Form(IsoLead(d), IsoCore(d), IsoTail(d))
  BY ONLY <1>9, <1>17 DEF Form
<1>19. Len(IsoCore(d)) = Len(g) + q + Len(t)
  BY ONLY <1>1, <1>2, <1>8, <1>9, <1>14
<1>20. Solid(IsoCore(d))  BY <1>9, <1>14
<1> QED  BY ONLY <1>6, <1>11, <1>12, <1>18, <1>19, <1>20 DEF g, q, t, w

-----------------------------------------------------------------------------
(* What Printf writes, in this form.                                       *)

(* A string in reverse has the same characters.                            *)
LEMMA ReverseSolid ==
  ASSUME NEW s, Solid(s)
  PROVE  Solid(Reverse(s)) /\ Len(Reverse(s)) = Len(s)
<1>1. IsSeq(s) /\ Len(s) \in Nat  BY StringIs DEF Solid, IsSeq
<1>2. /\ IsSeq(Reverse(s)) /\ Len(Reverse(s)) = Len(s)
      /\ \A i \in 1..Len(s) : Reverse(s)[i] = s[Len(s) - i + 1]
  BY <1>1, ReverseIs
<1>3. \A i \in 1..Len(s) : Len(s) - i + 1 \in 1..Len(s)  BY ONLY <1>1
<1>4. \A i \in 1..Len(s) : s[i] # " "  BY DEF Solid
<1>5. \A i \in 1..Len(s) : Reverse(s)[i] # " "  BY <1>2, <1>3, <1>4
<1> QED  BY ONLY <1>2, <1>5 DEF Solid

(* A character more, if there is room.                                     *)
LEMMA PushIs ==
  ASSUME NEW s, IsSeq(s), NEW c
  PROVE  /\ IsSeq(Push(s, c)) /\ Len(s) \in Nat
         /\ Len(s) < BUFSZ => /\ Len(Push(s, c)) = Len(s) + 1
                              /\ Reverse(Push(s, c)) = <<c>> \o Reverse(s)
         /\ ~(Len(s) < BUFSZ) => Push(s, c) = s
         /\ Solid(s) /\ c # " " => Solid(Push(s, c))
<1>1. Len(s) \in Nat  BY StringIs DEF IsSeq
<1>2. IsSeq(Append(s, c)) /\ Len(Append(s, c)) = Len(s) + 1  BY Appending
<1>3. Reverse(Append(s, c)) = <<c>> \o Reverse(s)  BY ReverseAppend
<1>4. ASSUME Solid(s), c # " "
      PROVE  Solid(Append(s, c))
  <2>1. s \in Seq({s[i] : i \in DOMAIN s})  BY DEF IsSeq
  <2>2. /\ Append(s, c)[Len(s) + 1] = c
        /\ \A i \in 1..Len(s) : Append(s, c)[i] = s[i]
    BY ONLY <2>1
  <2>3. \A i \in 1..Len(s) + 1 : i \in 1..Len(s) \/ i = Len(s) + 1  BY ONLY <1>1
  <2>4. \A i \in 1..Len(s) : s[i] # " "  BY <1>4 DEF Solid
  <2>5. \A i \in 1..Len(s) + 1 : Append(s, c)[i] # " "
    BY <1>4, <2>2, <2>3, <2>4
  <2> QED  BY ONLY <1>2, <2>5 DEF Solid
<1> QED  BY <1>1, <1>2, <1>3, <1>4 DEF Push

(* The sign that finds room, a blank apart.                                *)
OutSign(k, c) ==
  IF ~(Len(c) < BUFSZ) THEN <<>>
  ELSE IF k.negative THEN <<"-">>
  ELSE IF "+" \in k.flags THEN <<"+">> ELSE <<>>
OutBlank(k, c) ==
  IF Len(c) < BUFSZ /\ ~k.negative /\ "+" \notin k.flags /\ " " \in k.flags
  THEN 1 ELSE 0
OutGap(k, c) ==
  MaxOf(PadWidth(k) - (OutBlank(k, c) + Len(OutSign(k, c)) + Len(c)), 0)

(* The parts of the form, c being the buffer up to the prefix.             *)
OutCore(k, c) == OutSign(k, c) \o Reverse(c)
OutLead(k, c) ==
  OutBlank(k, c)
    + (IF "-" \in k.flags \/ "0" \in k.flags THEN 0 ELSE OutGap(k, c))
OutTail(k, c) == IF "-" \in k.flags THEN OutGap(k, c) ELSE 0

(* The buffer with its sign, in reverse.                                   *)
LEMMA OutSignIs ==
  ASSUME NEW k, NEW c, Solid(c)
  PROVE  /\ Solid(OutSign(k, c)) /\ Len(OutSign(k, c)) \in {0, 1}
         /\ OutBlank(k, c) \in {0, 1} /\ Len(c) \in Nat
         /\ Reverse(WithSign(k, c))
              = Blanks(OutBlank(k, c)) \o OutCore(k, c)
         /\ Len(WithSign(k, c))
              = OutBlank(k, c) + Len(OutSign(k, c)) + Len(c)
         /\ IsSeq(WithSign(k, c))
<1> DEFINE r == Reverse(c)
           g == OutSign(k, c)
           l == OutBlank(k, c)
           e == WithSign(k, c)
<1>1. IsSeq(c) /\ Len(c) \in Nat  BY StringIs DEF Solid, IsSeq
<1>2. IsSeq(r)  BY <1>1, ReverseIs
<1>3. <<>> \o r = r  BY <1>2, ConcatEmpty
<1>4. \A x : IsSeq(<<x>> \o r)
  <2>1. \A x : IsSeq(<<x>>)  BY ShortStrings
  <2> QED  BY <1>2, <2>1, Concatenation
<1>5. \A x : <<>> \o (<<x>> \o r) = <<x>> \o r  BY <1>4, ConcatEmpty
<1>6. Blanks(0) = <<>> /\ Blanks(1) = <<" ">>  BY ShortPadding
<1>7. /\ Len(<<>>) = 0 /\ Len(<<"-">>) = 1 /\ Len(<<"+">>) = 1
      /\ Solid(<<>>) /\ Solid(<<"-">>) /\ Solid(<<"+">>)
  BY ShortStrings, SolidIs
<1>8. \A x : /\ IsSeq(Push(c, x))
             /\ Len(c) < BUFSZ => /\ Len(Push(c, x)) = Len(c) + 1
                                  /\ Reverse(Push(c, x)) = <<x>> \o r
             /\ ~(Len(c) < BUFSZ) => Push(c, x) = c
  BY <1>1, PushIs
<1>9. /\ Len(c) + 0 = Len(c) /\ 0 + 0 + Len(c) = Len(c)
      /\ 0 + 1 + Len(c) = Len(c) + 1 /\ 1 + 0 + Len(c) = Len(c) + 1
  BY ONLY <1>1
<1> HIDE DEF r
<1>10. CASE ~(Len(c) < BUFSZ)
  <2>1. g = <<>> /\ l = 0  BY <1>10 DEF OutSign, OutBlank
  <2>2. e = c
    <3>1. Push(c, "-") = c /\ Push(c, "+") = c /\ Push(c, " ") = c
      BY ONLY <1>8, <1>10
    <3> QED  BY ONLY <3>1 DEF WithSign
  <2> QED  BY <1>1, <1>3, <1>6, <1>7, <1>9, <2>1, <2>2 DEF OutCore, r
<1>11. CASE Len(c) < BUFSZ /\ k.negative
  <2>1. g = <<"-">> /\ l = 0  BY <1>11 DEF OutSign, OutBlank
  <2>2. e = Push(c, "-")  BY <1>11 DEF WithSign
  <2>3. Reverse(e) = <<"-">> \o r /\ Len(e) = Len(c) + 1 /\ IsSeq(e)
    BY <1>8, <1>11, <2>2
  <2> QED  BY <1>1, <1>5, <1>6, <1>7, <1>9, <2>1, <2>3 DEF OutCore, r
<1>12. CASE Len(c) < BUFSZ /\ ~k.negative /\ "+" \in k.flags
  <2>1. g = <<"+">> /\ l = 0  BY <1>12 DEF OutSign, OutBlank
  <2>2. e = Push(c, "+")  BY <1>12 DEF WithSign
  <2>3. Reverse(e) = <<"+">> \o r /\ Len(e) = Len(c) + 1 /\ IsSeq(e)
    BY <1>8, <1>12, <2>2
  <2> QED  BY <1>1, <1>5, <1>6, <1>7, <1>9, <2>1, <2>3 DEF OutCore, r
<1>13. CASE Len(c) < BUFSZ /\ ~k.negative /\ "+" \notin k.flags /\ " " \in k.flags
  <2>1. g = <<>> /\ l = 1  BY <1>13 DEF OutSign, OutBlank
  <2>2. e = Push(c, " ")  BY <1>13 DEF WithSign
  <2>3. Reverse(e) = <<" ">> \o r /\ Len(e) = Len(c) + 1 /\ IsSeq(e)
    BY <1>8, <1>13, <2>2
  <2> QED  BY <1>1, <1>3, <1>6, <1>7, <1>9, <2>1, <2>3 DEF OutCore, r
<1>14. CASE Len(c) < BUFSZ /\ ~k.negative /\ "+" \notin k.flags /\ " " \notin k.flags
  <2>1. g = <<>> /\ l = 0  BY <1>14 DEF OutSign, OutBlank
  <2>2. e = c  BY <1>14 DEF WithSign
  <2> QED  BY <1>1, <1>3, <1>6, <1>7, <1>9, <2>1, <2>2 DEF OutCore, r
<1> QED  BY <1>10, <1>11, <1>12, <1>13, <1>14

(* What is written has the form.                                           *)
LEMMA OutForm ==
  ASSUME NEW k, IsConversion(k), NEW c, Solid(c)
  PROVE  /\ OutRev(k, WithSign(k, c))
              = Form(OutLead(k, c), OutCore(k, c), OutTail(k, c))
         /\ OutLead(k, c) \in Nat /\ OutTail(k, c) \in Nat
         /\ OutGap(k, c) \in Nat
         /\ Solid(OutCore(k, c))
         /\ Len(OutCore(k, c)) = Len(OutSign(k, c)) + Len(c)
<1> DEFINE g == OutSign(k, c)
           l == OutBlank(k, c)
           e == WithSign(k, c)
           u == OutCore(k, c)
           w == OutGap(k, c)
<1>1. /\ Solid(g) /\ Len(g) \in {0, 1} /\ l \in {0, 1} /\ Len(c) \in Nat
      /\ Reverse(e) = Blanks(l) \o u /\ Len(e) = l + Len(g) + Len(c)
  BY OutSignIs
<1>2. PadWidth(k) \in Int  BY PadWidthInt
<1>3. PadWidth(k) - Len(e) \in Int /\ l \in Nat
  BY ONLY <1>1, <1>2
<1>4. w = MaxOf(PadWidth(k) - Len(e), 0)  BY <1>1 DEF OutGap
<1>5. w \in Nat /\ Repeat(" ", PadWidth(k) - Len(e)) = Blanks(w)
  BY ONLY <1>3, <1>4, RepeatClipped
<1>6. Solid(u) /\ Len(u) = Len(g) + Len(c)
  <2>1. Solid(Reverse(c)) /\ Len(Reverse(c)) = Len(c)  BY ReverseSolid
  <2>2. Solid(g \o Reverse(c)) /\ Len(g \o Reverse(c)) = Len(g) + Len(Reverse(c))
    BY <1>1, <2>1, SolidConcat
  <2> QED  BY <2>1, <2>2 DEF OutCore
<1>7. OutRev(k, e) = IF "-" \in k.flags THEN (Blanks(l) \o u) \o Blanks(w)
                     ELSE IF "0" \in k.flags THEN Blanks(l) \o u
                     ELSE Blanks(w) \o (Blanks(l) \o u)
  BY ONLY <1>1, <1>5 DEF OutRev
<1>8. /\ OutLead(k, c)
           = l + (IF "-" \in k.flags \/ "0" \in k.flags THEN 0 ELSE w)
      /\ OutTail(k, c) = IF "-" \in k.flags THEN w ELSE 0
  BY DEF OutLead, OutTail
<1> HIDE DEF g, l, e, u, w
<1>9. /\ l + 0 = l /\ l + w = w + l /\ w + l \in Nat /\ w \in Nat /\ l \in Nat
      /\ 0 \in Nat
  <2>1. w \in Nat /\ l \in Nat  BY <1>3, <1>5
  <2> QED  BY ONLY <2>1
<1>10. /\ IsSeq(Blanks(l)) /\ IsSeq(Blanks(w)) /\ IsSeq(Blanks(w + l))
       /\ IsSeq(u)
  BY <1>6, <1>9, PaddingHas DEF Solid
<1>11. IsSeq(Blanks(l) \o u) /\ IsSeq(Blanks(w + l) \o u)
  BY <1>10, Concatenation
<1>12. /\ (Blanks(l) \o u) \o Blanks(0) = Blanks(l) \o u
       /\ (Blanks(w + l) \o u) \o Blanks(0) = Blanks(w + l) \o u
  BY <1>11, ShortPadding, ConcatEmpty
<1>13. Blanks(w) \o (Blanks(l) \o u) = Blanks(w + l) \o u
  <2>1. (Blanks(w) \o Blanks(l)) \o u = Blanks(w) \o (Blanks(l) \o u)
    BY <1>10, ConcatAssoc
  <2>2. Blanks(w) \o Blanks(l) = Blanks(w + l)
    BY <1>9, RepeatTwice DEF Blanks
  <2> QED  BY <2>1, <2>2
<1>14. OutRev(k, e) = (Blanks(OutLead(k, c)) \o u) \o Blanks(OutTail(k, c))
  <2>1. CASE "-" \in k.flags
    <3>1. OutLead(k, c) = l /\ OutTail(k, c) = w  BY ONLY <1>8, <1>9, <2>1
    <3> QED  BY <1>7, <2>1, <3>1
  <2>2. CASE "-" \notin k.flags /\ "0" \in k.flags
    <3>1. OutLead(k, c) = l /\ OutTail(k, c) = 0  BY ONLY <1>8, <1>9, <2>2
    <3> QED  BY <1>7, <1>12, <2>2, <3>1
  <2>3. CASE "-" \notin k.flags /\ "0" \notin k.flags
    <3>1. OutLead(k, c) = w + l /\ OutTail(k, c) = 0  BY ONLY <1>8, <1>9, <2>3
    <3> QED  BY <1>7, <1>12, <1>13, <2>3, <3>1
  <2> QED  BY <2>1, <2>2, <2>3
<1>15. OutLead(k, c) \in Nat /\ OutTail(k, c) \in Nat  BY ONLY <1>8, <1>9
<1>16. OutRev(k, e) = Form(OutLead(k, c), u, OutTail(k, c))
  BY <1>14 DEF Form
<1> QED  BY ONLY <1>5, <1>6, <1>15, <1>16 DEF g, e, u, w

(* The zeros put behind n digits in the buffer.                            *)
ZerosAdded(k, n) ==
  IF "-" \in k.flags THEN 0
  ELSE MaxOf(MinOf(IF "0" \in k.flags THEN PadWidth(k) ELSE k.prec, BUFSZ) - n, 0)

(* The buffer with these zeros, and in reverse.                            *)
LEMMA WithZerosIs ==
  ASSUME NEW k, IsConversion(k), "0" \in k.flags => k.prec = 0,
         NEW b, Solid(b), Len(b) <= BUFSZ
  PROVE  /\ WithZeros(k, b) = b \o Zeros(ZerosAdded(k, Len(b)))
         /\ ZerosAdded(k, Len(b)) \in Nat /\ Len(b) \in Nat
         /\ Solid(WithZeros(k, b))
         /\ Len(WithZeros(k, b)) = Len(b) + ZerosAdded(k, Len(b))
         /\ Len(WithZeros(k, b)) <= BUFSZ
         /\ Reverse(WithZeros(k, b))
              = Zeros(ZerosAdded(k, Len(b))) \o Reverse(b)
<1> DEFINE q == ZerosAdded(k, Len(b))
           z == WithZeros(k, b)
<1>1. IsSeq(b) /\ Len(b) \in Nat /\ BUFSZ \in Nat
  BY PrintfAssumption, StringIs DEF Solid, IsSeq
<1>2. PadWidth(k) \in Int /\ k.prec \in Int
  BY PadWidthInt DEF IsConversion
<1>3. b \o <<>> = b  BY <1>1, ConcatEmpty
<1>4. Zeros(0) = <<>>  BY ShortPadding
<1>5. ASSUME NEW n \in Int
      PROVE  /\ MinOf(n, BUFSZ) - Len(b) \in Int
             /\ MaxOf(MinOf(n, BUFSZ) - Len(b), 0) \in Nat
             /\ Len(b) + MaxOf(MinOf(n, BUFSZ) - Len(b), 0) <= BUFSZ
             /\ ZerosTo(b, n) = b \o Zeros(MaxOf(MinOf(n, BUFSZ) - Len(b), 0))
  <2>1. /\ MinOf(n, BUFSZ) - Len(b) \in Int
        /\ Len(b) + MaxOf(MinOf(n, BUFSZ) - Len(b), 0) <= BUFSZ
    BY ONLY <1>1, n \in Int, Len(b) <= BUFSZ DEF MinOf, MaxOf
  <2>2. /\ MaxOf(MinOf(n, BUFSZ) - Len(b), 0) \in Nat
        /\ Repeat("0", MinOf(n, BUFSZ) - Len(b))
             = Zeros(MaxOf(MinOf(n, BUFSZ) - Len(b), 0))
    BY ONLY <2>1, RepeatClipped
  <2> QED  BY ONLY <2>1, <2>2 DEF ZerosTo
<1>6. z = b \o Zeros(q) /\ q \in Nat /\ Len(b) + q <= BUFSZ
  <2>1. CASE "-" \in k.flags
    <3>1. z = b /\ q = 0  BY <2>1 DEF WithZeros, ZerosAdded
    <3>2. z = b \o Zeros(q)  BY ONLY <1>3, <1>4, <3>1
    <3>3. q \in Nat /\ Len(b) + q <= BUFSZ
      BY ONLY <1>1, <3>1, Len(b) <= BUFSZ
    <3> QED  BY ONLY <3>2, <3>3
  <2>2. CASE "-" \notin k.flags /\ "0" \notin k.flags
    <3>1. z = ZerosTo(b, k.prec) /\ q = MaxOf(MinOf(k.prec, BUFSZ) - Len(b), 0)
      BY <2>2 DEF WithZeros, ZerosAdded
    <3> QED  BY <1>2, <1>5, <3>1
  <2>3. CASE "-" \notin k.flags /\ "0" \in k.flags
    <3>1. ZerosTo(b, k.prec) = b
      <4>1. MaxOf(MinOf(k.prec, BUFSZ) - Len(b), 0) = 0
        BY <1>1, <2>3 DEF MinOf, MaxOf
      <4> QED  BY <1>2, <1>3, <1>4, <1>5, <4>1
    <3>2. /\ z = ZerosTo(b, PadWidth(k))
          /\ q = MaxOf(MinOf(PadWidth(k), BUFSZ) - Len(b), 0)
      BY <2>3, <3>1 DEF WithZeros, ZerosAdded
    <3> QED  BY <1>2, <1>5, <3>2
  <2> QED  BY <2>1, <2>2, <2>3
<1> HIDE DEF q, z
<1>7. Solid(Zeros(q)) /\ IsSeq(Zeros(q)) /\ Len(Zeros(q)) = q
  BY <1>6, PaddingHas, SolidIs
<1>8. Solid(b \o Zeros(q)) /\ Len(b \o Zeros(q)) = Len(b) + Len(Zeros(q))
  BY <1>7, SolidConcat
<1>9. Reverse(b \o Zeros(q)) = Zeros(q) \o Reverse(b)
  <2>1. q \in Int  BY <1>6
  <2> QED  BY <1>1, <2>1, ReverseZeros DEF Zeros
<1> QED  BY <1>1, <1>6, <1>7, <1>8, <1>9 DEF q, z

(* The beginning of a string with zeros behind it.                         *)
LEMMA CutZeros ==
  ASSUME NEW b, IsSeq(b), NEW q \in Nat, NEW m \in Nat, m <= q
  PROVE  SubSeq(b \o Zeros(q), 1, Len(b) + m) = b \o Zeros(m)
<1> DEFINE n == Len(b)
           z == b \o Zeros(q)
           l == SubSeq(z, 1, n + m)
           r == b \o Zeros(m)
<1>0. n \in Nat  BY StringIs DEF IsSeq
<1>1. /\ IsSeq(Zeros(q)) /\ Len(Zeros(q)) = q
      /\ \A i \in 1..q : Zeros(q)[i] = "0"
      /\ IsSeq(Zeros(m)) /\ Len(Zeros(m)) = m
      /\ \A i \in 1..m : Zeros(m)[i] = "0"
  BY PaddingHas
<1>2. /\ IsSeq(z) /\ Len(z) = n + q
      /\ \A i \in 1..n + q : z[i] = IF i <= n THEN b[i] ELSE Zeros(q)[i - n]
  <2>1. /\ IsSeq(z) /\ Len(z) = n + Len(Zeros(q))
        /\ \A i \in 1..n + Len(Zeros(q)) :
             z[i] = IF i <= n THEN b[i] ELSE Zeros(q)[i - n]
    BY <1>1, Concatenation
  <2> HIDE DEF z, n
  <2> QED  BY ONLY <1>1, <2>1
<1>3. /\ IsSeq(r) /\ Len(r) = n + m
      /\ \A i \in 1..n + m : r[i] = IF i <= n THEN b[i] ELSE Zeros(m)[i - n]
  <2>1. /\ IsSeq(r) /\ Len(r) = n + Len(Zeros(m))
        /\ \A i \in 1..n + Len(Zeros(m)) :
             r[i] = IF i <= n THEN b[i] ELSE Zeros(m)[i - n]
    BY <1>1, Concatenation
  <2> HIDE DEF r, n
  <2> QED  BY ONLY <1>1, <2>1
<1> HIDE DEF n, z, r
<1>4. n + m \in 0..Len(z)  BY ONLY <1>0, <1>2, q \in Nat, m \in Nat, m <= q
<1>5. IsSeq(l) /\ Len(l) = n + m  BY <1>2, <1>4, Beginning
<1>6. \A i \in 1..n + m : l[i] = z[i]
  <2>1. z \in Seq({z[i] : i \in DOMAIN z})  BY <1>2 DEF IsSeq
  <2>2. n + m \in Int /\ Len(z) \in Nat /\ n + m <= Len(z)
    BY ONLY <1>0, <1>2, <1>4, q \in Nat, m \in Nat
  <2> QED  BY ONLY <2>1, <2>2
<1> HIDE DEF l
<1>7. ASSUME NEW i \in 1..n + m
      PROVE  l[i] = r[i]
  <2>1. i \in 1..n + q /\ (i <= n \/ (~(i <= n) /\ i - n \in 1..m /\ i - n \in 1..q))
    BY ONLY <1>0, i \in 1..n + m, q \in Nat, m \in Nat, m <= q
  <2> QED  BY <1>1, <1>2, <1>3, <1>6, <2>1
<1>8. l = r  BY <1>3, <1>5, <1>7, SameString
<1> QED  BY ONLY <1>8 DEF l, r, z, n

(* The characters kept of the buffer when the prefix comes; all but where  *)
(* the buffer is as long as the field.                                     *)
PrefixFull(k, z) ==
  "P" \notin k.flags /\ Len(z) > 0 /\ Len(z) \in {k.prec, PadWidth(k)}
PrefixKept(k, z) ==
  MaxOf(Len(z) - (IF ~PrefixFull(k, z) THEN 0 ELSE IF k.base = 16 THEN 2 ELSE 1), 0)

(* The letter of the prefix.                                               *)
Letter(k) == IF k.base = 2 THEN "b" ELSE IF "U" \in k.flags THEN "X" ELSE "x"

(* The buffer with its prefix: what is kept, the letter and a 0.           *)
LEMMA WithPrefixIs ==
  ASSUME NEW k, IsConversion(k), NEW z, Solid(z)
  PROVE  /\ "#" \notin k.flags => WithPrefix(k, z) = z
         /\ PrefixKept(k, z) \in 0..Len(z) /\ Len(z) \in Nat
         /\ Solid(SubSeq(z, 1, PrefixKept(k, z)))
         /\ Len(SubSeq(z, 1, PrefixKept(k, z))) = PrefixKept(k, z)
         /\ "#" \in k.flags /\ k.base \in {2, 16} =>
              WithPrefix(k, z) =
                Push(Push(SubSeq(z, 1, PrefixKept(k, z)), Letter(k)), "0")
         /\ "#" \in k.flags /\ k.base \notin {2, 16} =>
              WithPrefix(k, z) = Push(SubSeq(z, 1, PrefixKept(k, z)), "0")
         /\ Solid(WithPrefix(k, z))
<1> DEFINE m == PrefixKept(k, z)
           cut == SubSeq(z, 1, m)
           letter == CASE k.base = 16 ->
                            IF "U" \in k.flags THEN <<"X">> ELSE <<"x">>
                       [] k.base = 2 -> <<"b">>
                       [] OTHER -> <<>>
           lettered == IF letter = <<>> THEN cut ELSE Push(cut, letter[1])
<1>1. IsSeq(z) /\ Len(z) \in Nat  BY StringIs DEF Solid, IsSeq
<1>2. m \in 0..Len(z)  BY ONLY <1>1 DEF PrefixKept, MaxOf
<1>3. WithPrefix(k, z) = IF "#" \in k.flags THEN Push(lettered, "0") ELSE z
  BY DEF WithPrefix, PrefixKept, PrefixFull
<1>4. /\ k.base \in {2, 16} => letter = <<Letter(k)>>
      /\ k.base \notin {2, 16} => letter = <<>>
  BY DEF Letter
<1> HIDE DEF m
<1>5. Solid(cut) /\ Len(cut) = m
  <2>1. IsSeq(cut) /\ Len(cut) = m  BY <1>1, <1>2, Beginning
  <2>2. \A i \in 1..m : cut[i] = z[i] /\ i \in 1..Len(z)
    <3>1. z \in Seq({z[i] : i \in DOMAIN z})  BY <1>1 DEF IsSeq
    <3> QED  BY ONLY <1>1, <1>2, <3>1
  <2>3. \A i \in 1..Len(z) : z[i] # " "  BY DEF Solid
  <2>4. \A i \in 1..Len(cut) : cut[i] # " "  BY ONLY <2>1, <2>2, <2>3
  <2> QED  BY ONLY <2>1, <2>4 DEF Solid
<1> HIDE DEF cut, letter
<1>6. \A c : <<c>> # <<>> /\ <<c>>[1] = c  BY ShortStrings
<1>7. k.base \in {2, 16} => lettered = Push(cut, Letter(k))
  BY ONLY <1>4, <1>6
<1>8. k.base \notin {2, 16} => lettered = cut  BY ONLY <1>4
<1>9. Solid(Push(cut, Letter(k)))
  <2>1. Letter(k) # " "  BY DEF Letter
  <2>2. IsSeq(cut)  BY <1>5 DEF Solid
  <2> QED  BY <1>5, <2>1, <2>2, PushIs
<1>10. Solid(lettered)
  <2> HIDE DEF lettered
  <2> QED  BY ONLY <1>5, <1>7, <1>8, <1>9
<1>11. Solid(Push(lettered, "0"))
  <2> HIDE DEF lettered
  <2>1. IsSeq(lettered)  BY <1>10 DEF Solid
  <2> QED  BY <1>10, <2>1, PushIs
<1> HIDE DEF lettered
<1>12. Solid(WithPrefix(k, z))  BY <1>3, <1>11
<1> QED  BY <1>1, <1>2, <1>3, <1>5, <1>7, <1>8, <1>12 DEF cut, m

-----------------------------------------------------------------------------
(* What is asked of _ntoa_long for a directive.                            *)

(* The fields of the conversion, in terms of the directive.                *)
LEMMA ConversionHas ==
  ASSUME NEW d, IntDirective(d), NEW k, k = Conversion(d)
  PROVE  /\ IsConversion(k) /\ k.base = Base(d.conv)
         /\ k.prec = MaxOf(d.prec, 0) /\ k.width = Columns(d)
         /\ k.negative = (ArgValue(d) < 0) /\ ArgValue(d) \in Int
         /\ "-" \in k.flags <=> LeftAligned(d)
         /\ "P" \in k.flags <=> d.prec # NoPrec
         /\ "0" \in k.flags <=> "0" \in d.flags /\ d.prec = NoPrec
         /\ "U" \in k.flags <=> Upper(d)
         /\ "+" \in k.flags <=> Signed(d.conv) /\ "+" \in d.flags
         /\ " " \in k.flags <=> Signed(d.conv) /\ " " \in d.flags
         /\ "#" \in k.flags <=>
              "#" \in d.flags /\ Base(d.conv) # 10 /\ ArgValue(d) # 0
<1> DEFINE f == Fields(d)
           v == ArgValue(d)
           dropped == (IF Base(d.conv) = 10 \/ v = 0 THEN {"#"} ELSE {})
                   \union (IF Signed(d.conv) THEN {} ELSE {"+", " "})
                   \union (IF "P" \in f.flags THEN {"0"} ELSE {})
<1>1. /\ Matches(d) /\ d.conv \notin TextConversions /\ d.conv # "p"
      /\ "P" \notin d.flags /\ "U" \notin d.flags
  BY DEF IntDirective, TextConversions, FlagChars
<1>2. IsConversion(k) /\ v \in Int  BY <1>1, ConversionIs, ArgValueInt
<1>3. k = [base |-> Base(d.conv), negative |-> v < 0, prec |-> f.prec,
           width |-> f.width,
           flags |-> (f.flags \ dropped)
                       \union (IF d.conv = "X" THEN {"U"} ELSE {})]
  BY <1>1 DEF Conversion
<1>4. /\ k.base = Base(d.conv) /\ k.negative = (v < 0) /\ k.prec = f.prec
      /\ k.width = f.width
      /\ k.flags = (f.flags \ dropped)
                       \union (IF d.conv = "X" THEN {"U"} ELSE {})
  BY ONLY <1>3
<1>5. /\ f.flags = d.flags \union (IF d.width < 0 THEN {"-"} ELSE {})
                     \union (IF d.prec = NoPrec THEN {} ELSE {"P"})
      /\ f.width = IF d.width < 0 THEN -d.width ELSE d.width
      /\ f.prec = IF d.prec > 0 THEN d.prec ELSE 0
  BY DEF Fields
<1>6. d.width \in Int /\ d.prec \in Int  BY <1>1 DEF Matches
<1>7. f.prec = MaxOf(d.prec, 0) /\ f.width = Columns(d)
  BY ONLY <1>5, <1>6 DEF MaxOf, Columns
<1>8. dropped = (IF Base(d.conv) = 10 \/ v = 0 THEN {"#"} ELSE {})
                   \union (IF Signed(d.conv) THEN {} ELSE {"+", " "})
                   \union (IF "P" \in f.flags THEN {"0"} ELSE {})
  OBVIOUS
<1> HIDE DEF f, v, dropped
<1>9. /\ "-" \in f.flags <=> LeftAligned(d)
      /\ "P" \in f.flags <=> d.prec # NoPrec
      /\ "U" \notin f.flags
      /\ "0" \in f.flags <=> "0" \in d.flags
      /\ "+" \in f.flags <=> "+" \in d.flags
      /\ " " \in f.flags <=> " " \in d.flags
      /\ "#" \in f.flags <=> "#" \in d.flags
  BY ONLY <1>1, <1>5 DEF LeftAligned
<1>10. /\ "-" \notin dropped /\ "P" \notin dropped
       /\ "0" \in dropped <=> "P" \in f.flags
       /\ "+" \in dropped <=> ~Signed(d.conv)
       /\ " " \in dropped <=> ~Signed(d.conv)
       /\ "#" \in dropped <=> Base(d.conv) = 10 \/ v = 0
  BY ONLY <1>8
<1>11. /\ "U" \in k.flags <=> Upper(d)
       /\ \A x \in {"-", "P", "0", "+", " ", "#"} :
            x \in k.flags <=> x \in f.flags /\ x \notin dropped
  BY ONLY <1>4, <1>9 DEF Upper
<1>12. /\ "-" \in k.flags <=> LeftAligned(d)
       /\ "P" \in k.flags <=> d.prec # NoPrec
  BY ONLY <1>9, <1>10, <1>11
<1>13. "0" \in k.flags <=> "0" \in d.flags /\ d.prec = NoPrec
  BY ONLY <1>9, <1>10, <1>11
<1>14. /\ "+" \in k.flags <=> Signed(d.conv) /\ "+" \in d.flags
       /\ " " \in k.flags <=> Signed(d.conv) /\ " " \in d.flags
  BY ONLY <1>9, <1>10, <1>11
<1>15. "#" \in k.flags <=> "#" \in d.flags /\ Base(d.conv) # 10 /\ v # 0
  BY ONLY <1>9, <1>10, <1>11
<1> QED
  BY ONLY <1>2, <1>4, <1>7, <1>11, <1>12, <1>13, <1>14, <1>15 DEF v

(* What is left of a number below the modulus.                             *)
LEMMA ModSmall ==
  ASSUME NEW t \in Nat \ {0}, NEW x \in Nat, x < t
  PROVE  x % t = x
OBVIOUS

(* The value and the magnitude are those ISO C asks for, a negative %hhd   *)
(* excepted, which is read as a positive number.                           *)
LEMMA ValueIs ==
  ASSUME NEW d, IntDirective(d)
  PROVE  /\ CharUnsigned(d) => ArgValue(d) >= 0 /\ Signed(d.conv)
         /\ ~CharUnsigned(d) => /\ ArgValue(d) = IsoValue(d)
                                /\ Magnitude(d) = IsoMagnitude(d)
<1> DEFINE t == Two(BITS[d.mod])
           h == Two(BITS[d.mod] - 1)
           u == Unsigned(d.arg, BITS[d.mod])
           x == IF d.mod = "l" THEN Two(BITS["l"]) ELSE Two(BITS["int"])
<1>1. /\ d.arg \in Int /\ d.mod \in {"hh", "h", "int", "l"} /\ d.conv # "p"
  BY PrintfAssumption DEF IntDirective, Matches, TextConversions
<1>2. DOMAIN BITS = {"hh", "h", "int", "l"}  BY PrintfAssumption
<1>3. t \in Nat \ {0} /\ h \in Nat \ {0} /\ x \in Nat \ {0}
  BY <1>1, <1>2, TwoAssumption, IsoAssumption
<1>4. d.mod # "hh" => t <= x
  <2>1. /\ Two(BITS["h"]) <= Two(BITS["int"])
        /\ \A m \in {"int", "l"} : Two(BITS[m]) \in Nat
    BY <1>2, IsoAssumption, TwoAssumption
  <2> QED  BY <1>1, <2>1
<1>5. TwosComplement(d.arg, BITS[d.mod]) = IF u >= h THEN u - t ELSE u
  BY DEF TwosComplement
<1>6. u \in 0..t-1  BY <1>1, <1>3 DEF Unsigned
<1>7. /\ IsoValue(d) = IF Signed(d.conv) THEN (IF u >= h THEN u - t ELSE u) ELSE u
      /\ ArgValue(d) = IF Signed(d.conv) /\ d.mod # "hh"
                       THEN (IF u >= h THEN u - t ELSE u) ELSE u
  BY <1>1, <1>5 DEF IsoValue, ArgValue
<1>8. Magnitude(d) = IF ArgValue(d) > 0 THEN ArgValue(d)
                     ELSE (0 - ArgValue(d)) % x
  BY <1>1 DEF Magnitude, Unsigned
<1> HIDE DEF t, h, u, x
<1>9. CharUnsigned(d) => ArgValue(d) >= 0 /\ Signed(d.conv)
  BY ONLY <1>3, <1>6, <1>7 DEF CharUnsigned
<1>10. ASSUME ~CharUnsigned(d)
       PROVE  ArgValue(d) = IsoValue(d) /\ Magnitude(d) = IsoMagnitude(d)
  <2>1. ArgValue(d) = IsoValue(d)
    BY ONLY <1>3, <1>6, <1>7, <1>10 DEF CharUnsigned
  <2>2. CASE ArgValue(d) > 0
    <3>1. Magnitude(d) = ArgValue(d)  BY <1>8, <2>2
    <3>2. IsoMagnitude(d) = IsoValue(d)
      <4>1. ~(IsoValue(d) < 0)  BY ONLY <1>3, <1>6, <1>7, <2>1, <2>2
      <4> QED  BY <4>1 DEF IsoMagnitude
    <3> QED  BY <2>1, <3>1, <3>2
  <2>3. CASE ~(ArgValue(d) > 0)
    <3>1. 0 - ArgValue(d) \in Nat /\ 0 - ArgValue(d) < x
      <4>1. CASE d.mod # "hh"
        BY ONLY <1>3, <1>4, <1>6, <1>7, <2>3, <4>1
      <4>2. CASE d.mod = "hh"
        BY ONLY <1>3, <1>6, <1>7, <2>3, <4>2
      <4> QED  BY <4>1, <4>2
    <3>2. Magnitude(d) = 0 - ArgValue(d)
      BY <1>3, <1>8, <2>3, <3>1, ModSmall
    <3>3. IsoMagnitude(d) = 0 - IsoValue(d)
      <4>1. IsoValue(d) \in Int /\ IsoValue(d) <= 0  BY <2>1, <3>1, <1>6, <1>7, <1>3
      <4> QED  BY ONLY <4>1 DEF IsoMagnitude
    <3> QED  BY <2>1, <3>2, <3>3
  <2> QED  BY <2>2, <2>3
<1> QED  BY <1>9, <1>10

-----------------------------------------------------------------------------
(* The two forms side by side.                                             *)

(* The digits that _ntoa_long has made of the number: all of them, unless  *)
(* the buffer is full before.                                              *)
DigitsMade(d, b) ==
  /\ Digital(b) /\ Len(b) <= BUFSZ
  /\ IF Magnitude(d) = 0 /\ d.prec # NoPrec THEN b = <<>>
     ELSE LET n == Numeral(Magnitude(d), Base(d.conv), Upper(d))
          IN  Reverse(b) = n \/ (Len(b) = BUFSZ /\ Len(n) > BUFSZ)

Padded(d, b) == WithZeros(Conversion(d), b)
Prefixed(d, b) == WithPrefix(Conversion(d), Padded(d, b))
Written(d, b) == OutRev(Conversion(d), NtoaFormat(Conversion(d), b))

(* What is written has the form, and its core fits the buffer.             *)
LEMMA WrittenForm ==
  ASSUME NEW d, IntDirective(d), NEW b, Solid(b), Len(b) <= BUFSZ,
         NEW k, k = Conversion(d), NEW c, c = Prefixed(d, b)
  PROVE  /\ Written(d, b) = Form(OutLead(k, c), OutCore(k, c), OutTail(k, c))
         /\ OutLead(k, c) \in Nat /\ OutTail(k, c) \in Nat
         /\ OutGap(k, c) \in Nat
         /\ Solid(OutCore(k, c)) /\ Solid(c) /\ Len(c) \in 0..BUFSZ
         /\ Len(OutCore(k, c)) = Len(OutSign(k, c)) + Len(c)
         /\ OutBlank(k, c) \in {0, 1} /\ Len(OutSign(k, c)) \in {0, 1}
         /\ OutBlank(k, c) + Len(OutSign(k, c)) + Len(c) <= BUFSZ
         /\ "0" \in k.flags => k.prec = 0
<1>1. /\ IsConversion(k) /\ k.prec = MaxOf(d.prec, 0)
      /\ "0" \in k.flags => d.prec = NoPrec
  BY ConversionHas
<1>2. "0" \in k.flags => k.prec = 0  BY ONLY <1>1, NoPrecIs DEF MaxOf
<1>3. BUFSZ \in Nat  BY PrintfAssumption
<1>4. Solid(Padded(d, b)) /\ Len(Padded(d, b)) <= BUFSZ
  BY <1>1, <1>2, WithZerosIs DEF Padded
<1>5. Solid(c)  BY <1>1, <1>4, WithPrefixIs DEF Prefixed
<1>6. Len(c) \in 0..BUFSZ
  <2>1. IsSeq(Padded(d, b)) /\ Len(Padded(d, b)) \in Nat
    BY <1>4, StringIs DEF Solid, IsSeq
  <2>2. InBuffer(Padded(d, b))  BY ONLY <1>3, <1>4, <2>1 DEF InBuffer
  <2>3. InBuffer(c)  BY <1>1, <2>2, WithPrefixFits DEF Prefixed
  <2> QED  BY <2>3 DEF InBuffer
<1>7. Written(d, b) = OutRev(k, WithSign(k, c))
  BY DEF Written, NtoaFormat, Prefixed, Padded
<1>8. OutBlank(k, c) + Len(OutSign(k, c)) + Len(c) <= BUFSZ
  <2>1. CASE ~(Len(c) < BUFSZ)
    <3>1. OutBlank(k, c) = 0 /\ OutSign(k, c) = <<>>
      BY <2>1 DEF OutBlank, OutSign
    <3>2. Len(OutSign(k, c)) = 0  BY <3>1, ShortStrings
    <3> QED  BY ONLY <1>6, <1>3, <3>1, <3>2
  <2>2. CASE Len(c) < BUFSZ
    <3>1. OutBlank(k, c) = 0 \/ OutSign(k, c) = <<>>
      BY DEF OutBlank, OutSign
    <3>2. Len(<<>>) = 0  BY ShortStrings
    <3>3. OutBlank(k, c) \in {0, 1} /\ Len(OutSign(k, c)) \in {0, 1}
      BY <1>5, OutSignIs
    <3>4. OutBlank(k, c) = 0 \/ Len(OutSign(k, c)) = 0  BY ONLY <3>1, <3>2
    <3>5. Len(c) + 1 <= BUFSZ /\ Len(c) \in Nat  BY ONLY <1>3, <1>6, <2>2
    <3>6. OutBlank(k, c) + Len(OutSign(k, c)) \in {0, 1}
      <4> DEFINE x == OutBlank(k, c)
                 y == Len(OutSign(k, c))
      <4>1. /\ (x = 0 \/ x = 1) /\ (y = 0 \/ y = 1) /\ (x = 0 \/ y = 0)
        BY ONLY <3>3, <3>4
      <4> HIDE DEF x, y
      <4>2. x + y = 0 \/ x + y = 1  BY ONLY <4>1
      <4> QED  BY ONLY <4>2 DEF x, y
    <3> QED  BY ONLY <1>3, <3>5, <3>6
  <2> QED  BY <2>1, <2>2
<1> QED  BY <1>1, <1>2, <1>5, <1>6, <1>7, <1>8, OutForm, OutSignIs

(* So the texts are the same where the parts are, and only there.          *)
LEMMA SameText ==
  ASSUME NEW d, IntDirective(d), NEW b, Solid(b), Len(b) <= BUFSZ,
         NEW k, k = Conversion(d), NEW c, c = Prefixed(d, b)
  PROVE  /\ /\ OutLead(k, c) = IsoLead(d) /\ OutCore(k, c) = IsoCore(d)
            /\ OutTail(k, c) = IsoTail(d)
            => Written(d, b) = IsoNumber(d)
         /\ Written(d, b) = IsoNumber(d) =>
              /\ Len(OutCore(k, c)) = Len(IsoCore(d))
              /\ Len(IsoCore(d)) > 0 => /\ OutLead(k, c) = IsoLead(d)
                                        /\ OutCore(k, c) = IsoCore(d)
<1>1. /\ Written(d, b) = Form(OutLead(k, c), OutCore(k, c), OutTail(k, c))
      /\ OutLead(k, c) \in Nat /\ OutTail(k, c) \in Nat
      /\ Solid(OutCore(k, c))
  BY WrittenForm
<1>2. /\ IsoNumber(d) = Form(IsoLead(d), IsoCore(d), IsoTail(d))
      /\ IsoLead(d) \in Nat /\ Solid(IsoCore(d)) /\ IsoTail(d) \in Nat
  BY IsoForm
<1>3. ASSUME Written(d, b) = IsoNumber(d)
      PROVE  /\ Len(OutCore(k, c)) = Len(IsoCore(d))
             /\ Len(IsoCore(d)) > 0 => /\ OutLead(k, c) = IsoLead(d)
                                       /\ OutCore(k, c) = IsoCore(d)
  <2> DEFINE a == OutLead(k, c)
             u == OutCore(k, c)
             e == OutTail(k, c)
             h == IsoLead(d)
             v == IsoCore(d)
             j == IsoTail(d)
  <2>1. Form(a, u, e) = Form(h, v, j)  BY <1>1, <1>2, <1>3
  <2>2. /\ a \in Nat /\ e \in Nat /\ h \in Nat /\ j \in Nat
        /\ Solid(u) /\ Solid(v)
    BY <1>1, <1>2
  <2> HIDE DEF a, u, e, h, v, j
  <2>3. Len(u) = Len(v) /\ (Len(u) > 0 => a = h /\ u = v)
    BY ONLY <2>1, <2>2, FormUnique
  <2> QED  BY ONLY <2>3 DEF a, u, h, v
<1> QED  BY ONLY <1>1, <1>2, <1>3

(* The zeros are added behind the digits.                                  *)
LEMMA PaddedIs ==
  ASSUME NEW d, IntDirective(d), NEW b, Solid(b), Len(b) <= BUFSZ,
         NEW q, q = ZerosAdded(Conversion(d), Len(b))
  PROVE  /\ Padded(d, b) = b \o Zeros(q)
         /\ q \in Nat /\ Len(b) \in Nat /\ Solid(Padded(d, b))
         /\ Len(Padded(d, b)) = Len(b) + q /\ Len(b) + q <= BUFSZ
         /\ Reverse(Padded(d, b)) = Zeros(q) \o Reverse(b)
<1>1. /\ IsConversion(Conversion(d))
      /\ "0" \in Conversion(d).flags => Conversion(d).prec = 0
  BY WrittenForm, ConversionHas
<1>2. /\ Padded(d, b) = b \o Zeros(q)
      /\ q \in Nat /\ Len(b) \in Nat /\ Solid(Padded(d, b))
      /\ Len(Padded(d, b)) = Len(b) + q /\ Len(Padded(d, b)) <= BUFSZ
      /\ Reverse(Padded(d, b)) = Zeros(q) \o Reverse(b)
  BY <1>1, WithZerosIs DEF Padded
<1> QED  BY ONLY <1>2

-----------------------------------------------------------------------------
(* Departures that no digits can make up for.                              *)

(* A negative %hhd: ISO C asks for a `-', and none is written.             *)
LEMMA CharDiffers ==
  ASSUME NEW d, IntDirective(d), CharUnsigned(d),
         NEW b, Digital(b), Len(b) <= BUFSZ
  PROVE  Written(d, b) # IsoNumber(d)
<1> DEFINE k == Conversion(d)
           c == Prefixed(d, b)
           q == ZerosAdded(Conversion(d), Len(b))
           z == Zeros(q) \o (IsoDigits(d))
<1>1. /\ ArgValue(d) >= 0 /\ Signed(d.conv) /\ IsoValue(d) < 0
  BY ValueIs DEF CharUnsigned
<1>2. /\ IsConversion(k) /\ k.negative = (ArgValue(d) < 0)
      /\ ArgValue(d) \in Int
      /\ "#" \in k.flags => Base(d.conv) # 10
  BY ConversionHas
<1>3. ~k.negative /\ "#" \notin k.flags
  <2>1. Base(d.conv) = 10  BY <1>1 DEF Base, Signed
  <2>2. ~(ArgValue(d) < 0)  BY <1>1, <1>2
  <2> HIDE DEF k
  <2> QED  BY ONLY <1>2, <2>1, <2>2
<1>4. Solid(b)  BY SolidIs
<1>5. /\ Padded(d, b) = b \o Zeros(q)
      /\ q \in Nat /\ Len(b) \in Nat /\ Solid(Padded(d, b))
      /\ Reverse(Padded(d, b)) = Zeros(q) \o Reverse(b)
  BY <1>4, PaddedIs
<1>6. c = Padded(d, b)  BY <1>2, <1>3, <1>5, WithPrefixIs DEF Prefixed
<1>7. OutSign(k, c) = <<>> \/ OutSign(k, c) = <<"+">>
  BY <1>3 DEF OutSign
<1>8. OutCore(k, c) = OutSign(k, c) \o (Zeros(q) \o Reverse(b))
  BY <1>5, <1>6 DEF OutCore
<1>9. IsoSign(d) = <<"-">>
  <2>1. IsoPrefix(d) = <<"-">>  BY <1>1 DEF IsoPrefix
  <2>2. <<"-">> # <<" ">>
    <3>1. <<"-">>[1] = "-" /\ <<" ">>[1] = " "  BY ShortStrings
    <3> QED  BY <3>1
  <2> QED  BY <2>1, <2>2 DEF IsoSign
<1>10. /\ Solid(IsoCore(d)) /\ Len(IsoCore(d)) > 0 /\ IsoCore(d)[1] = "-"
  <2> DEFINE y == IF IsoZeroed(d) THEN IsoGap(d) ELSE 0
             t == Zeros(y) \o IsoDigits(d)
  <2>1. Solid(IsoCore(d)) /\ IsoGap(d) \in Nat  BY IsoForm
  <2>2. y \in Nat /\ Solid(IsoDigits(d))  BY <2>1, IsoDigitsAre
  <2>3. IsoCore(d) = <<"-">> \o t  BY <1>9 DEF IsoCore
  <2> HIDE DEF y
  <2>4. IsSeq(t)  BY <2>2, ZerosInFront
  <2> HIDE DEF t
  <2>5. Len(<<"-">> \o t) = Len(t) + 1 /\ (<<"-">> \o t)[1] = "-"
    BY <2>4, InFront
  <2>6. Len(t) \in Nat  BY <2>4, StringIs DEF IsSeq
  <2> QED  BY <2>1, <2>3, <2>5, <2>6
<1>11. Solid(Reverse(b)) /\ Len(Reverse(b)) = Len(b)  BY <1>4, ReverseSolid
<1>12. ASSUME Len(OutCore(k, c)) > 0
       PROVE  OutCore(k, c)[1] # "-"
  <2> DEFINE t == Zeros(q) \o Reverse(b)
  <2>1. /\ IsSeq(t) /\ Len(t) = q + Len(b)
        /\ q > 0 => t[1] = "0"
        /\ q = 0 => t = Reverse(b)
    <3> HIDE DEF q
    <3>1. /\ IsSeq(t) /\ Len(t) = q + Len(Reverse(b))
          /\ q > 0 => t[1] = "0"
          /\ q = 0 => t = Reverse(b)
      BY ONLY <1>5, <1>11, ZerosInFront
    <3> QED  BY ONLY <1>11, <3>1
  <2>2. CASE OutSign(k, c) = <<"+">>
    <3> HIDE DEF t
    <3>1. (<<"+">> \o t)[1] = "+"  BY <2>1, InFront
    <3> QED  BY <1>8, <2>2, <3>1 DEF t
  <2>3. CASE OutSign(k, c) = <<>>
    <3>1. OutCore(k, c) = t
      <4> HIDE DEF t
      <4>1. <<>> \o t = t  BY <2>1, ConcatEmpty
      <4> QED  BY <1>8, <2>3, <4>1 DEF t
    <3>2. CASE q > 0  BY <2>1, <3>1, <3>2
    <3>3. CASE q = 0
      <4>1. OutCore(k, c) = Reverse(b)  BY <2>1, <3>1, <3>3
      <4>2. Len(b) > 0  BY <1>11, <1>12, <4>1
      <4>3. 1 \in 1..Len(b) /\ Len(b) - 1 + 1 \in 1..Len(b)
        BY ONLY <1>5, <4>2
      <4>4. IsSeq(b)  BY DEF Digital
      <4>5. Reverse(b)[1] = b[Len(b) - 1 + 1]  BY <4>3, <4>4, ReverseIs
      <4>6. b[Len(b) - 1 + 1] # "-"  BY <4>3 DEF Digital
      <4> QED  BY <4>1, <4>5, <4>6
    <3> QED  BY <1>5, <3>2, <3>3
  <2> QED  BY <1>7, <2>2, <2>3
<1>13. ASSUME Written(d, b) = IsoNumber(d)
       PROVE  FALSE
  <2>1. Len(OutCore(k, c)) = Len(IsoCore(d)) /\ OutCore(k, c) = IsoCore(d)
    BY <1>4, <1>10, <1>13, SameText
  <2> QED  BY <1>10, <1>12, <2>1
<1> QED  BY <1>13

(* A number too long for the buffer: the core has too few characters, or   *)
(* the blank of the sign is missing.                                       *)
LEMMA BufferDiffers ==
  ASSUME NEW d, IntDirective(d), BufferShort(d),
         NEW b, Solid(b), Len(b) <= BUFSZ
  PROVE  Written(d, b) # IsoNumber(d)
<1> DEFINE k == Conversion(d)
           c == Prefixed(d, b)
           w == Columns(d)
           p == Len(IsoPrefix(d))
           t == Len(IsoDigits(d))
           g == Len(IsoSign(d))
           l == IsoBlank(d)
           n == Len(IsoCore(d))
           y == IsoGap(d)
           x == OutBlank(k, c)
           s == Len(OutSign(k, c))
           m == Len(c)
<1>1. SUFFICES ASSUME Written(d, b) = IsoNumber(d) PROVE FALSE
  OBVIOUS
<1>2. /\ OutLead(k, c) \in Nat /\ OutGap(k, c) \in Nat /\ m \in 0..BUFSZ
      /\ Len(OutCore(k, c)) = s + m /\ x \in {0, 1} /\ s \in {0, 1}
      /\ x + s + m <= BUFSZ
  BY WrittenForm
<1>3. /\ y \in Nat /\ IsoLead(d) \in Nat
      /\ n = g + (IF IsoZeroed(d) THEN y ELSE 0) + t
  BY IsoForm
<1>4. /\ g \in Nat /\ p \in Nat /\ l \in {0, 1} /\ p = l + g  BY IsoPrefixIs
<1>5. t \in Nat  BY IsoDigitsAre
<1>6. Len(OutCore(k, c)) = n /\ (n > 0 => OutLead(k, c) = IsoLead(d))
  BY <1>1, SameText
<1>7. w \in Nat  BY IsoValueIs
<1>8. BUFSZ \in Nat \ {0}  BY PrintfAssumption
<1>9. y = IF w - p - t < 0 THEN 0 ELSE w - p - t  BY DEF IsoGap, MaxOf
<1>10. IsoLead(d) = l + (IF LeftAligned(d) \/ IsoZeroed(d) THEN 0 ELSE y)
  BY DEF IsoLead
<1>11. /\ OutLead(k, c) = x + (IF "-" \in k.flags \/ "0" \in k.flags THEN 0
                               ELSE OutGap(k, c))
       /\ OutGap(k, c) = MaxOf(PadWidth(k) - (x + s + m), 0)
  BY DEF OutLead, OutGap
<1>12. /\ IsConversion(k) /\ k.width = w
       /\ "-" \in k.flags <=> LeftAligned(d)
       /\ "0" \in k.flags <=> "0" \in d.flags /\ d.prec = NoPrec
  BY ConversionHas
<1>13. PadWidth(k) \in Int /\ PadWidth(k) <= w
  <2>1. PadWidth(k) = w \/ PadWidth(k) = w - 1  BY <1>12 DEF PadWidth
  <2> QED  BY ONLY <1>7, <2>1
<1>14. ~LeftAligned(d) /\ IsoPrefix(d) = <<" ">> /\ t = BUFSZ => w <= BUFSZ
          \/ ~(p + t > BUFSZ /\ ~BlankFromPadding(d))
  <2>1. BlankFromPadding(d) <=>
          IsoPrefix(d) = <<" ">> /\ t = BUFSZ /\ ~LeftAligned(d) /\ w > BUFSZ
    BY DEF BlankFromPadding
  <2> HIDE DEF w, t, p
  <2>2. w > BUFSZ \/ w <= BUFSZ  BY ONLY <1>7, <1>8
  <2> QED  BY ONLY <2>1, <2>2, Zenon
<1>15. l = 1 => IsoPrefix(d) = <<" ">>
  <2>1. IsoPrefix(d) # <<" ">> => l = 0  BY DEF IsoBlank
  <2> HIDE DEF l
  <2>2. l = 1 => l # 0  OBVIOUS
  <2> QED  BY ONLY <2>1, <2>2
<1>16. \/ p + t > BUFSZ /\ ~BlankFromPadding(d)
       \/ ZeroPadded(d) /\ w > BUFSZ
  BY DEF BufferShort
<1>17. ZeroPadded(d) => /\ IsoZeroed(d) /\ ~LeftAligned(d)
                        /\ "0" \in k.flags
  BY <1>12, NoPrecIs DEF ZeroPadded, IsoZeroed, IsoPrec
<1> HIDE DEF k, c, w, p, t, g, l, n, y, x, s, m
<1>18. n = s + m /\ s + m <= BUFSZ /\ n >= g + t /\ n \in Nat
  BY ONLY <1>2, <1>3, <1>4, <1>5, <1>6, <1>8
<1>19. CASE p + t > BUFSZ /\ ~BlankFromPadding(d)
  <2>1. l = 1 /\ g = 0 /\ t = BUFSZ /\ n = BUFSZ
    <3>1. l = 0 \/ l = 1  BY ONLY <1>4
    <3>2. l + g + t > BUFSZ  BY ONLY <1>4, <1>19
    <3>3. g + t <= BUFSZ  BY ONLY <1>4, <1>5, <1>8, <1>18
    <3>4. l = 1  BY ONLY <1>4, <1>5, <1>8, <3>1, <3>2, <3>3
    <3>5. IsoPrefix(d) = <<" ">>  BY ONLY <1>15, <3>4
    <3>6. g = 0
      <4>1. IsoSign(d) = <<>>  BY <3>5 DEF IsoSign
      <4> QED  BY <4>1, ShortStrings DEF g
    <3>7. t = BUFSZ  BY ONLY <1>5, <1>8, <3>2, <3>3, <3>4, <3>6
    <3> QED  BY ONLY <1>8, <1>18, <3>4, <3>6, <3>7
  <2>2. x = 0  BY ONLY <1>2, <1>8, <1>18, <2>1
  <2>3. OutLead(k, c) >= 1
    <3>1. OutLead(k, c) = IsoLead(d)  BY ONLY <1>6, <1>8, <2>1
    <3>2. IsoLead(d) >= l  BY ONLY <1>3, <1>4, <1>10
    <3> QED  BY ONLY <2>1, <3>1, <3>2
  <2>4. OutLead(k, c) = 0
    <3>1. CASE LeftAligned(d)  BY ONLY <1>11, <1>12, <2>2, <3>1
    <3>2. CASE ~LeftAligned(d)
      <4>1. w <= BUFSZ  BY ONLY <1>14, <1>15, <1>19, <2>1, <3>2
      <4>2. PadWidth(k) - (x + s + m) <= 0 /\ PadWidth(k) - (x + s + m) \in Int
        BY ONLY <1>2, <1>7, <1>8, <1>13, <1>18, <2>1, <2>2, <4>1
      <4>3. MaxOf(PadWidth(k) - (x + s + m), 0) = 0  BY ONLY <4>2 DEF MaxOf
      <4>4. OutGap(k, c) = 0  BY ONLY <1>11, <4>3
      <4> QED  BY ONLY <1>11, <2>2, <4>4
    <3> QED  BY <3>1, <3>2
  <2> QED  BY ONLY <2>3, <2>4
<1>20. CASE ZeroPadded(d) /\ w > BUFSZ
  <2>1. n >= w - l
    BY ONLY <1>3, <1>4, <1>5, <1>7, <1>9, <1>17, <1>20
  <2>2. l = 1 /\ n = BUFSZ
    BY ONLY <1>4, <1>7, <1>8, <1>18, <1>20, <2>1
  <2>3. x = 0  BY ONLY <1>2, <1>8, <1>18, <2>2
  <2>4. OutLead(k, c) = 0  BY ONLY <1>11, <1>17, <1>20, <2>3
  <2>5. OutLead(k, c) = IsoLead(d)  BY ONLY <1>6, <1>8, <2>2
  <2>6. IsoLead(d) = 1  BY ONLY <1>10, <1>17, <1>20, <2>2
  <2> QED  BY ONLY <2>4, <2>5, <2>6
<1> QED  BY <1>16, <1>19, <1>20

-----------------------------------------------------------------------------
(* Numbers that fit the buffer.                                            *)

(* All their digits are made.                                              *)
LEMMA AllDigitsMade ==
  ASSUME NEW d, IntDirective(d), ~CharUnsigned(d), ~BufferShort(d),
         NEW b, DigitsMade(d, b)
  PROVE  /\ Reverse(b) = MadeString(d) /\ Len(b) = MadeDigits(d)
         /\ Solid(b) /\ Len(b) \in 0..BUFSZ
<1>1. Solid(b) /\ IsSeq(b) /\ Len(b) \in Nat /\ Len(b) <= BUFSZ
  BY StringIs, SolidIs DEF DigitsMade, Digital, IsSeq
<1>2. Magnitude(d) = IsoMagnitude(d)  BY ValueIs
<1>3. /\ IsoMagnitude(d) = 0 <=> IsoValue(d) = 0
      /\ d.prec \in Int
  BY IsoValueIs
<1>4. BUFSZ \in Nat  BY PrintfAssumption
<1>5. CASE IsoValue(d) = 0 /\ d.prec # NoPrec
  <2>1. b = <<>>  BY <1>2, <1>3, <1>5 DEF DigitsMade
  <2>2. Len(b) = 0  BY <2>1, ShortStrings
  <2>3. Reverse(b) = <<>>
    <3>1. IsSeq(Reverse(b)) /\ Len(Reverse(b)) = 0  BY <1>1, <2>2, ReverseIs
    <3> QED  BY <3>1, EmptyString
  <2>4. MadeString(d) = <<>> /\ MadeDigits(d) = 0
    BY <1>5 DEF MadeString, MadeDigits
  <2> QED  BY <1>1, <1>4, <2>2, <2>3, <2>4
<1>6. CASE ~(IsoValue(d) = 0 /\ d.prec # NoPrec)
  <2>1. MadeString(d) = IsoNumeral(d)  BY <1>6 DEF MadeString
  <2>2. Reverse(b) = IsoNumeral(d) \/ Len(IsoNumeral(d)) > BUFSZ
    BY <1>2, <1>3, <1>6 DEF DigitsMade, IsoNumeral
  <2>3. ~NoDigitMade(d)  BY <1>6 DEF NoDigitMade
  <2>4. /\ Len(IsoDigits(d)) = IsoZeros(d) + MadeDigits(d)
        /\ IsoZeros(d) \in Nat /\ MadeDigits(d) \in Nat
        /\ Len(MadeString(d)) = MadeDigits(d)
    BY <2>3, IsoDigitsAre
  <2>5. Len(IsoPrefix(d)) \in Nat  BY IsoPrefixIs
  <2>6. Len(IsoDigits(d)) <= BUFSZ
    <3>1. \/ ~(Len(IsoPrefix(d)) + Len(IsoDigits(d)) > BUFSZ)
          \/ Len(IsoDigits(d)) = BUFSZ
      BY DEF BufferShort, BlankFromPadding
    <3> QED  BY ONLY <1>4, <2>4, <2>5, <3>1
  <2>7. MadeDigits(d) <= BUFSZ  BY ONLY <1>4, <2>4, <2>6
  <2>8. Reverse(b) = MadeString(d)
    BY <1>4, <2>1, <2>2, <2>4, <2>7
  <2>9. Len(b) = MadeDigits(d)  BY <1>1, <2>4, <2>8, ReverseIs
  <2> QED  BY <1>1, <1>4, <2>8, <2>9
<1> QED  BY <1>5, <1>6

HasSign(k) == k.negative \/ "+" \in k.flags \/ " " \in k.flags

(* Without a `#' prefix, the sign is the one ISO C asks for, if there is   *)
(* room for it.                                                            *)
LEMMA PlainSign ==
  ASSUME NEW d, IntDirective(d), ~CharUnsigned(d),
         NEW k, k = Conversion(d), "#" \notin k.flags, NEW c
  PROVE  /\ Len(IsoPrefix(d)) = IF HasSign(k) THEN 1 ELSE 0
         /\ Len(c) < BUFSZ => /\ OutSign(k, c) = IsoSign(d)
                              /\ OutBlank(k, c) = IsoBlank(d)
         /\ ~(Len(c) < BUFSZ) => /\ OutSign(k, c) = <<>>
                                 /\ OutBlank(k, c) = 0
<1>1. /\ k.negative = (ArgValue(d) < 0)
      /\ "+" \in k.flags <=> Signed(d.conv) /\ "+" \in d.flags
      /\ " " \in k.flags <=> Signed(d.conv) /\ " " \in d.flags
      /\ "#" \in k.flags <=>
              "#" \in d.flags /\ Base(d.conv) # 10 /\ ArgValue(d) # 0
  BY ConversionHas
<1>2. ArgValue(d) = IsoValue(d)  BY ValueIs
<1>3. ~("#" \in d.flags /\ d.conv \in {"x", "X", "b"} /\ IsoValue(d) # 0)
  <2>1. d.conv \in {"x", "X", "b"} => Base(d.conv) # 10  BY DEF Base
  <2>2. ~("#" \in d.flags /\ Base(d.conv) # 10 /\ IsoValue(d) # 0)
    <3>1. "#" \in k.flags <=>
              "#" \in d.flags /\ Base(d.conv) # 10 /\ ArgValue(d) # 0
      BY <1>1
    <3> QED  BY ONLY <1>2, <3>1, "#" \notin k.flags
  <2> QED  BY ONLY <2>1, <2>2
<1>4. IsoPrefix(d) = IF k.negative THEN <<"-">>
                     ELSE IF "+" \in k.flags THEN <<"+">>
                     ELSE IF " " \in k.flags THEN <<" ">>
                     ELSE <<>>
  BY <1>1, <1>2, <1>3 DEF IsoPrefix
<1>5. \A x : Len(<<x>>) = 1 /\ <<x>>[1] = x  BY ShortStrings
<1>6. Len(<<>>) = 0  BY ShortStrings
<1>7. <<"-">> # <<" ">> /\ <<"+">> # <<" ">> /\ <<>> # <<" ">>
  <2>1. <<"-">>[1] = "-" /\ <<"+">>[1] = "+" /\ <<" ">>[1] = " "
    BY ONLY <1>5
  <2>2. Len(<<" ">>) = 1  BY ONLY <1>5
  <2> QED  BY ONLY <1>6, <2>1, <2>2
<1>8. ~(Len(c) < BUFSZ) => OutSign(k, c) = <<>> /\ OutBlank(k, c) = 0
  BY DEF OutSign, OutBlank
<1>9. CASE k.negative
  <2>1. IsoPrefix(d) = <<"-">>  BY <1>4, <1>9
  <2>2. IsoSign(d) = <<"-">> /\ IsoBlank(d) = 0
    BY <1>7, <2>1 DEF IsoSign, IsoBlank
  <2>3. Len(IsoPrefix(d)) = 1 /\ HasSign(k)  BY <1>5, <1>9, <2>1 DEF HasSign
  <2>4. Len(c) < BUFSZ => OutSign(k, c) = <<"-">> /\ OutBlank(k, c) = 0
    BY <1>9 DEF OutSign, OutBlank
  <2> QED  BY <1>8, <2>2, <2>3, <2>4
<1>10. CASE ~k.negative /\ "+" \in k.flags
  <2>1. IsoPrefix(d) = <<"+">>  BY <1>4, <1>10
  <2>2. IsoSign(d) = <<"+">> /\ IsoBlank(d) = 0
    BY <1>7, <2>1 DEF IsoSign, IsoBlank
  <2>3. Len(IsoPrefix(d)) = 1 /\ HasSign(k)  BY <1>5, <1>10, <2>1 DEF HasSign
  <2>4. Len(c) < BUFSZ => OutSign(k, c) = <<"+">> /\ OutBlank(k, c) = 0
    BY <1>10 DEF OutSign, OutBlank
  <2> QED  BY <1>8, <2>2, <2>3, <2>4
<1>11. CASE ~k.negative /\ "+" \notin k.flags /\ " " \in k.flags
  <2>1. IsoPrefix(d) = <<" ">>  BY <1>4, <1>11
  <2>2. IsoSign(d) = <<>> /\ IsoBlank(d) = 1
    BY <2>1 DEF IsoSign, IsoBlank
  <2>3. Len(IsoPrefix(d)) = 1 /\ HasSign(k)  BY <1>5, <1>11, <2>1 DEF HasSign
  <2>4. Len(c) < BUFSZ => OutSign(k, c) = <<>> /\ OutBlank(k, c) = 1
    BY <1>11 DEF OutSign, OutBlank
  <2> QED  BY <1>8, <2>2, <2>3, <2>4
<1>12. CASE ~k.negative /\ "+" \notin k.flags /\ " " \notin k.flags
  <2>1. IsoPrefix(d) = <<>>  BY <1>4, <1>12
  <2>2. IsoSign(d) = <<>> /\ IsoBlank(d) = 0
    BY <1>7, <2>1 DEF IsoSign, IsoBlank
  <2>3. Len(IsoPrefix(d)) = 0 /\ ~HasSign(k)  BY <1>6, <1>12, <2>1 DEF HasSign
  <2>4. Len(c) < BUFSZ => OutSign(k, c) = <<>> /\ OutBlank(k, c) = 0
    BY <1>12 DEF OutSign, OutBlank
  <2> QED  BY <1>8, <2>2, <2>3, <2>4
<1> QED  BY <1>9, <1>10, <1>11, <1>12

(* The departures of a number that fits the buffer.                        *)
FittingDeparts(d) ==
  NegativePrec(d) \/ LeftLosesZeros(d) \/ PrefixTakesDigits(d) \/ OctalPrec(d)

(* Zeros in front of zeros.                                                *)
LEMMA ZerosTwice ==
  ASSUME NEW m \in Nat, NEW n \in Nat, NEW s, Solid(s)
  PROVE  Zeros(m) \o (Zeros(n) \o s) = Zeros(m + n) \o s
<1>1. IsSeq(Zeros(m)) /\ IsSeq(Zeros(n)) /\ IsSeq(s)
  BY PaddingHas DEF Solid
<1>2. (Zeros(m) \o Zeros(n)) \o s = Zeros(m) \o (Zeros(n) \o s)
  BY ONLY <1>1, ConcatAssoc
<1>3. Zeros(m) \o Zeros(n) = Zeros(m + n)  BY RepeatTwice DEF Zeros
<1> QED  BY ONLY <1>2, <1>3

(* `#o' of a number other than 0 writes a prefix.                          *)
LEMMA NoOctalHash ==
  ASSUME NEW d, IntDirective(d), ~CharUnsigned(d),
         "#" \notin Conversion(d).flags
  PROVE  ~(OctalHash(d) /\ IsoValue(d) # 0)
<1>1. ArgValue(d) = IsoValue(d)  BY ValueIs
<1>2. OctalHash(d) => "#" \in d.flags /\ Base(d.conv) # 10
  <2>1. d.conv = "o" => Base(d.conv) = 8  BY DEF Base
  <2> QED  BY <2>1 DEF OctalHash
<1>3. "#" \in Conversion(d).flags <=>
          "#" \in d.flags /\ Base(d.conv) # 10 /\ ArgValue(d) # 0
  BY ConversionHas
<1> QED  BY <1>1, <1>2, <1>3

(* The lengths, where no `#' prefix is written.                            *)
LEMMA PlainSizes ==
  ASSUME NEW d, IntDirective(d), ~CharUnsigned(d), ~BufferShort(d),
         NEW b, DigitsMade(d, b),
         NEW k, k = Conversion(d), "#" \notin k.flags,
         NEW c, c = Prefixed(d, b), NEW q, q = ZerosAdded(k, MadeDigits(d))
  PROVE  /\ q \in Nat /\ MadeDigits(d) \in Nat
         /\ Len(c) = MadeDigits(d) + q /\ Len(c) <= BUFSZ
         /\ Reverse(c) = Zeros(q) \o MadeString(d)
         /\ q = IF LeftAligned(d) THEN 0
                ELSE MaxOf(MinOf(IF "0" \in d.flags /\ d.prec = NoPrec
                                 THEN PadWidth(k) ELSE MaxOf(d.prec, 0), BUFSZ)
                             - MadeDigits(d), 0)
         /\ PadWidth(k) = IF /\ ~LeftAligned(d) /\ "0" \in d.flags
                             /\ d.prec = NoPrec /\ Columns(d) > 0
                             /\ Len(IsoPrefix(d)) = 1
                          THEN Columns(d) - 1 ELSE Columns(d)
<1>1. /\ Reverse(b) = MadeString(d) /\ Len(b) = MadeDigits(d)
      /\ Solid(b) /\ Len(b) <= BUFSZ
  BY PrintfAssumption, AllDigitsMade
<1>2. q = ZerosAdded(Conversion(d), Len(b))  BY <1>1
<1>3. /\ q \in Nat /\ Len(b) \in Nat /\ Solid(Padded(d, b))
      /\ Len(Padded(d, b)) = Len(b) + q /\ Len(b) + q <= BUFSZ
      /\ Reverse(Padded(d, b)) = Zeros(q) \o Reverse(b)
  BY ONLY <1>1, <1>2, IntDirective(d), PaddedIs
<1>4. /\ IsConversion(k) /\ k.prec = MaxOf(d.prec, 0) /\ k.width = Columns(d)
      /\ "-" \in k.flags <=> LeftAligned(d)
      /\ "0" \in k.flags <=> "0" \in d.flags /\ d.prec = NoPrec
  BY ConversionHas
<1>5. c = Padded(d, b)  BY <1>3, <1>4, WithPrefixIs DEF Prefixed
<1>6. q = IF LeftAligned(d) THEN 0
          ELSE MaxOf(MinOf(IF "0" \in d.flags /\ d.prec = NoPrec
                           THEN PadWidth(k) ELSE MaxOf(d.prec, 0), BUFSZ)
                       - MadeDigits(d), 0)
  BY ONLY <1>4, q = ZerosAdded(k, MadeDigits(d)) DEF ZerosAdded
<1>7. PadWidth(k) = IF /\ ~LeftAligned(d) /\ "0" \in d.flags
                       /\ d.prec = NoPrec /\ Columns(d) > 0
                       /\ Len(IsoPrefix(d)) = 1
                    THEN Columns(d) - 1 ELSE Columns(d)
  <2>1. Len(IsoPrefix(d)) = 1 <=> HasSign(k)
    <3>1. Len(IsoPrefix(d)) = IF HasSign(k) THEN 1 ELSE 0  BY PlainSign
    <3> QED  BY ONLY <3>1
  <2>2. k.negative \/ k.flags \intersect {"+", " "} # {} <=> HasSign(k)
    BY DEF HasSign
  <2>3. PadWidth(k) = IF /\ "-" \notin k.flags /\ "0" \in k.flags
                         /\ k.width > 0 /\ HasSign(k)
                      THEN k.width - 1 ELSE k.width
    BY ONLY <2>2 DEF PadWidth
  <2> QED  BY ONLY <1>4, <2>1, <2>3
<1> QED  BY ONLY <1>1, <1>3, <1>5, <1>6, <1>7

(* Where no `#' prefix is written and no departure applies, the text is as *)
(* ISO C has it.                                                           *)
LEMMA PlainConforms ==
  ASSUME NEW d, IntDirective(d), ~CharUnsigned(d), ~BufferShort(d),
         NEW b, DigitsMade(d, b), "#" \notin Conversion(d).flags,
         ~FittingDeparts(d)
  PROVE  Written(d, b) = IsoNumber(d)
<1> DEFINE k == Conversion(d)
           c == Prefixed(d, b)
           w == Columns(d)
           p == Len(IsoPrefix(d))
           t == Len(IsoDigits(d))
           g == Len(IsoSign(d))
           l == IsoBlank(d)
           y == IsoGap(d)
           iz == IsoZeros(d)
           n == MadeDigits(d)
           q == ZerosAdded(k, n)
           x == OutBlank(k, c)
           s == Len(OutSign(k, c))
           m == Len(c)
           pw == PadWidth(k)
           v == OutGap(k, c)
<1>1. /\ q \in Nat /\ n \in Nat /\ m = n + q /\ m <= BUFSZ
      /\ Reverse(c) = Zeros(q) \o MadeString(d)
  BY PlainSizes
<1>2. q = IF LeftAligned(d) THEN 0
          ELSE MaxOf(MinOf(IF "0" \in d.flags /\ d.prec = NoPrec
                           THEN pw ELSE MaxOf(d.prec, 0), BUFSZ) - n, 0)
  BY PlainSizes
<1>3. pw = IF /\ ~LeftAligned(d) /\ "0" \in d.flags
              /\ d.prec = NoPrec /\ w > 0 /\ p = 1
           THEN w - 1 ELSE w
  BY PlainSizes
<1>4. /\ "-" \in k.flags <=> LeftAligned(d)
      /\ "0" \in k.flags <=> "0" \in d.flags /\ d.prec = NoPrec
  BY ConversionHas
<1>5. /\ d.prec \in Int /\ w \in Nat /\ BUFSZ \in Nat \ {0}
  BY PrintfAssumption, IsoValueIs
<1>6. /\ g \in Nat /\ p \in Nat /\ l \in {0, 1} /\ p = l + g
  BY IsoPrefixIs
<1>7. p = 0 \/ p = 1
  <2>1. p = IF HasSign(k) THEN 1 ELSE 0  BY PlainSign
  <2> HIDE DEF p
  <2> QED  BY ONLY <2>1
<1>8. ~NoDigitMade(d)
  BY <1>5 DEF NoDigitMade, FittingDeparts, NegativePrec, OctalPrec
<1>9. /\ IsoDigits(d) = Zeros(iz) \o MadeString(d)
      /\ t = iz + n /\ iz \in Nat /\ Solid(MadeString(d))
  BY <1>8, IsoDigitsAre
<1>a. ~(OctalHash(d) /\ IsoValue(d) # 0)  BY NoOctalHash
<1>10. iz = MaxOf(IsoPrec(d) - n, 0)  BY <1>a DEF IsoZeros
<1>11. y = MaxOf(w - p - t, 0)  BY DEF IsoGap
<1>12. IsoZeroed(d) <=> ~LeftAligned(d) /\ "0" \in d.flags /\ IsoPrec(d) = NoPrec
  BY DEF IsoZeroed
<1>13. IsoPrec(d) = IF d.prec < 0 THEN NoPrec ELSE d.prec  BY DEF IsoPrec
<1>14. NoPrec \in Int /\ NoPrec < 0  BY NoPrecIs
<1>15. LeftAligned(d) => d.prec <= n
  <2>1. ~(LeftAligned(d) /\ d.prec > n + (IF OctalHash(d) /\ IsoValue(d) # 0 THEN 1 ELSE 0))
    BY DEF FittingDeparts, LeftLosesZeros
  <2>3. ~(LeftAligned(d) /\ d.prec > n + 0)
    <3> HIDE DEF n
    <3> QED  BY ONLY <1>a, <2>1
  <2> HIDE DEF n
  <2> QED  BY ONLY <1>1, <1>5, <2>3
<1>16. ~(/\ d.prec < 0 /\ d.prec # NoPrec
         /\ "0" \in d.flags /\ ~LeftAligned(d) /\ w > p + t)
  BY DEF FittingDeparts, NegativePrec
<1>17. ZeroPadded(d) <=> "0" \in d.flags /\ ~LeftAligned(d) /\ d.prec = NoPrec
  BY DEF ZeroPadded
<1>18. /\ p + t > BUFSZ => BlankFromPadding(d)
       /\ ZeroPadded(d) => ~(w > BUFSZ)
  BY DEF BufferShort
<1>19. BlankFromPadding(d) =>
         l = 1 /\ t = BUFSZ /\ ~LeftAligned(d) /\ w > BUFSZ
  BY DEF BlankFromPadding, IsoBlank
<1>20. /\ m < BUFSZ => OutSign(k, c) = IsoSign(d) /\ x = l
       /\ ~(m < BUFSZ) => OutSign(k, c) = <<>> /\ x = 0
  BY PlainSign
<1>21. g = 0 => IsoSign(d) = <<>>
  <2>1. IsSeq(IsoSign(d))  BY IsoPrefixIs DEF Solid
  <2> QED  BY <2>1, EmptyString
<1>22. v = MaxOf(pw - (x + s + m), 0)  BY DEF OutGap
<1>23. Len(<<>>) = 0  BY ShortStrings
<1>24. m < BUFSZ => s = g  BY <1>20
<1>25. ~(m < BUFSZ) => s = 0  BY <1>20, <1>23
<1> DEFINE z == IF IsoZeroed(d) THEN y ELSE 0
<1>26. z = IF IsoZeroed(d) THEN y ELSE 0  OBVIOUS
<1> HIDE DEF k, c, w, p, t, g, l, y, iz, n, q, x, s, m, pw, v, z
<1>27. y \in Nat /\ z \in Nat  BY ONLY <1>5, <1>6, <1>9, <1>1, <1>11, <1>26 DEF MaxOf
<1>28. q = z + iz
  <2>1. CASE LeftAligned(d)
    <3>1. iz = 0
      BY ONLY <1>1, <1>5, <1>10, <1>13, <1>14, <1>15, <2>1 DEF MaxOf
    <3>2. q = 0 /\ z = 0  BY ONLY <1>2, <1>12, <1>26, <2>1
    <3> QED  BY ONLY <3>1, <3>2
  <2>2. CASE ~LeftAligned(d) /\ "0" \in d.flags /\ d.prec = NoPrec
    <3>1. iz = 0 /\ z = y /\ w <= BUFSZ
      BY ONLY <1>1, <1>5, <1>10, <1>12, <1>13, <1>14, <1>17, <1>18, <1>26, <2>2 DEF MaxOf
    <3>2. q = MaxOf(MinOf(pw, BUFSZ) - n, 0)  BY ONLY <1>2, <2>2
    <3>3. y = MaxOf(w - p - n, 0)  BY ONLY <1>1, <1>9, <1>11, <3>1
    <3>4. pw = IF w > 0 /\ p = 1 THEN w - 1 ELSE w  BY ONLY <1>3, <2>2
    <3>5. q = y
      BY ONLY <1>1, <1>5, <1>7, <3>1, <3>2, <3>3, <3>4 DEF MaxOf, MinOf
    <3> QED  BY ONLY <1>27, <3>1, <3>5
  <2>3. CASE ~LeftAligned(d) /\ ~("0" \in d.flags /\ d.prec = NoPrec)
    <3>1. z = 0
      <4>1. CASE IsoZeroed(d)
        <5>1. d.prec < 0 /\ d.prec # NoPrec
          BY ONLY <1>5, <1>12, <1>13, <1>14, <2>3, <4>1
        <5>2. w <= p + t  BY ONLY <1>1, <1>5, <1>6, <1>9, <1>12, <1>16, <4>1, <5>1
        <5>3. y = 0  BY ONLY <1>1, <1>5, <1>6, <1>9, <1>11, <5>2 DEF MaxOf
        <5> QED  BY ONLY <1>26, <5>3
      <4>2. CASE ~IsoZeroed(d)  BY ONLY <1>26, <4>2
      <4> QED  BY <4>1, <4>2
    <3>2. iz = MaxOf(MaxOf(d.prec, 0) - n, 0)
      BY ONLY <1>1, <1>5, <1>10, <1>13, <1>14 DEF MaxOf
    <3>3. t <= BUFSZ
      BY ONLY <1>1, <1>5, <1>6, <1>9, <1>18, <1>19
    <3>4. q = MaxOf(MinOf(MaxOf(d.prec, 0), BUFSZ) - n, 0)
      BY ONLY <1>2, <2>3
    <3>5. q = iz
      BY ONLY SMTT(30), <1>1, <1>5, <1>9, <3>2, <3>3, <3>4 DEF MaxOf, MinOf
    <3> QED  BY ONLY <1>1, <3>1, <3>5
  <2> QED  BY <2>1, <2>2, <2>3
<1>29. m = z + t  BY ONLY <1>1, <1>9, <1>27, <1>28
<1>30. CASE m + p <= BUFSZ
  <2>1. s = g /\ x = l /\ OutSign(k, c) = IsoSign(d)
    <3>1. CASE m < BUFSZ  BY ONLY <1>20, <1>24, <3>1
    <3>2. CASE ~(m < BUFSZ)
      <4>1. p = 0  BY ONLY <1>1, <1>5, <1>6, <1>30, <3>2
      <4>2. g = 0 /\ l = 0  BY ONLY <1>6, <4>1
      <4> QED  BY ONLY <1>20, <1>21, <1>25, <3>2, <4>2
    <3> QED  BY <3>1, <3>2
  <2>2. LeftAligned(d) \/ ~("0" \in d.flags /\ d.prec = NoPrec)
          => pw = w /\ z = 0
    <3>1. LeftAligned(d) => pw = w /\ z = 0  BY ONLY <1>3, <1>12, <1>26
    <3>2. ASSUME ~LeftAligned(d), ~("0" \in d.flags /\ d.prec = NoPrec)
          PROVE pw = w /\ z = 0
      <4>1. pw = w  BY ONLY <1>3, <3>2
      <4>2. CASE IsoZeroed(d)
        <5>1. d.prec < 0 /\ d.prec # NoPrec
          BY ONLY <1>5, <1>12, <1>13, <1>14, <3>2, <4>2
        <5>2. w <= p + t  BY ONLY <1>1, <1>5, <1>6, <1>9, <1>12, <1>16, <4>2, <5>1
        <5>3. y = 0  BY ONLY <1>1, <1>5, <1>6, <1>9, <1>11, <5>2 DEF MaxOf
        <5> QED  BY ONLY <1>26, <4>1, <4>2, <5>3
      <4>3. CASE ~IsoZeroed(d)  BY ONLY <1>26, <4>1, <4>3
      <4> QED  BY <4>2, <4>3
    <3> QED  BY ONLY <3>1, <3>2
  <2>3. /\ OutLead(k, c) = IsoLead(d) /\ OutTail(k, c) = IsoTail(d)
    <3>1. CASE ~LeftAligned(d) /\ "0" \in d.flags /\ d.prec = NoPrec
      <4>1. IsoZeroed(d)  BY ONLY <1>12, <1>13, <1>14, <3>1
      <4>2. "-" \notin k.flags /\ "0" \in k.flags  BY ONLY <1>4, <3>1
      <4> QED  BY ONLY <2>1, <3>1, <4>1, <4>2
               DEF OutLead, OutTail, IsoLead, IsoTail, x, l
    <3>2. CASE ~(~LeftAligned(d) /\ "0" \in d.flags /\ d.prec = NoPrec)
      <4>1. pw = w /\ z = 0  BY ONLY <2>2, <3>2
      <4>2. v = MaxOf(w - (l + g + t), 0)
        BY ONLY <1>22, <1>29, <1>27, <1>1, <1>9, <2>1, <4>1
      <4>3. w - (l + g + t) = w - p - t
        BY ONLY <1>1, <1>5, <1>6, <1>9
      <4>4. v = y  BY ONLY <1>11, <4>2, <4>3
      <4>5. CASE LeftAligned(d)
        <5>1. "-" \in k.flags  BY ONLY <1>4, <4>5
        <5> QED  BY ONLY <2>1, <4>4, <4>5, <5>1
                 DEF OutLead, OutTail, IsoLead, IsoTail, x, l, v, y
      <4>6. CASE ~LeftAligned(d)
        <5>1. "-" \notin k.flags /\ "0" \notin k.flags  BY ONLY <1>4, <3>2, <4>6
        <5>2. IsoZeroed(d) => y = 0  BY ONLY <1>26, <4>1
        <5>3. (IF LeftAligned(d) \/ IsoZeroed(d) THEN 0 ELSE y) = y
          BY ONLY <4>6, <5>2
        <5> QED  BY ONLY <2>1, <4>4, <4>6, <5>1, <5>3
                 DEF OutLead, OutTail, IsoLead, IsoTail, x, l, v, y
      <4> QED  BY <4>5, <4>6
    <3> QED  BY <3>1, <3>2
  <2>4. OutCore(k, c) = IsoCore(d)
    <3>1. Zeros(z) \o (Zeros(iz) \o MadeString(d)) = Zeros(z + iz) \o MadeString(d)
      BY ONLY <1>9, <1>27, ZerosTwice
    <3>2. IsoCore(d) = IsoSign(d) \o (Zeros(z) \o IsoDigits(d))
      BY DEF IsoCore, z, y
    <3> QED  BY ONLY <1>1, <1>9, <1>28, <2>1, <3>1, <3>2 DEF OutCore
  <2>5. Solid(b) /\ Len(b) <= BUFSZ  BY PrintfAssumption, AllDigitsMade
  <2> QED  BY <2>3, <2>4, <2>5, SameText DEF k, c
<1>31. CASE m + p > BUFSZ
  <2>1. BlankFromPadding(d)
    <3>1. CASE p + t > BUFSZ  BY ONLY <1>18, <3>1
    <3>2. CASE ~(p + t > BUFSZ)
      <4>1. z > 0  BY ONLY <1>1, <1>5, <1>6, <1>9, <1>27, <1>29, <1>31, <3>2
      <4>2. IsoZeroed(d) /\ z = y  BY ONLY <1>26, <4>1
      <4>3. m + p = w
        BY ONLY <1>1, <1>5, <1>6, <1>9, <1>11, <1>29, <4>1, <4>2 DEF MaxOf
      <4>4. d.prec = NoPrec
        <5>1. w > p + t
          <6>1. m = z + t /\ z > 0 /\ m + p = w  BY ONLY <1>29, <4>1, <4>3
          <6>2. t \in Nat /\ z \in Nat  BY ONLY <1>1, <1>9, <1>27
          <6> QED  BY ONLY <1>5, <1>6, <6>1, <6>2
        <5>2. "0" \in d.flags /\ ~LeftAligned(d) /\ IsoPrec(d) = NoPrec
          BY ONLY <1>12, <4>2
        <5>3. d.prec < 0 \/ d.prec = NoPrec  BY ONLY <1>5, <1>13, <5>2
        <5> QED  BY ONLY <1>14, <1>16, <5>1, <5>2, <5>3
      <4> QED  BY ONLY <1>1, <1>5, <1>6, <1>12, <1>17, <1>18, <1>31, <4>2, <4>3, <4>4
    <3> QED  BY <3>1, <3>2
  <2>2. l = 1 /\ g = 0 /\ p = 1 /\ t = BUFSZ /\ ~LeftAligned(d) /\ w > BUFSZ
    <3>1. l = 1 /\ t = BUFSZ /\ ~LeftAligned(d) /\ w > BUFSZ
      BY ONLY <1>19, <2>1
    <3> QED  BY ONLY <1>6, <1>7, <3>1
  <2>3. m = BUFSZ /\ z = 0  BY ONLY <1>1, <1>5, <1>27, <1>29, <2>2
  <2>4. x = 0 /\ s = 0 /\ OutSign(k, c) = <<>> /\ IsoSign(d) = <<>>
    BY ONLY <1>5, <1>20, <1>21, <1>25, <2>2, <2>3
  <2>5. ~("0" \in d.flags /\ d.prec = NoPrec) /\ pw = w
    BY ONLY <1>3, <1>17, <1>18, <2>2
  <2>6. y = w - 1 - BUFSZ
    BY ONLY <1>5, <1>11, <2>2 DEF MaxOf
  <2>7. v = w - BUFSZ /\ v = 1 + y
    <3>1. x + s + m = BUFSZ  BY ONLY <1>5, <2>3, <2>4
    <3> QED  BY ONLY <1>5, <1>22, <2>2, <2>5, <2>6, <3>1 DEF MaxOf
  <2>8. IsoZeroed(d) => y = 0  BY ONLY <1>26, <2>3
  <2>9. OutLead(k, c) = IsoLead(d) /\ OutTail(k, c) = IsoTail(d)
    <3>1. "-" \notin k.flags /\ "0" \notin k.flags  BY ONLY <1>4, <2>2, <2>5
    <3>2. (IF LeftAligned(d) \/ IsoZeroed(d) THEN 0 ELSE y) = y
      BY ONLY <2>2, <2>8
    <3>3. IsoLead(d) = l + y
      BY ONLY <3>2 DEF IsoLead, l, y
    <3>4. OutLead(k, c) = x + v  BY ONLY <3>1 DEF OutLead, x, v
    <3>5. 0 + v = 1 + y
      <4>1. v \in Int  BY ONLY <1>5, <2>7
      <4> QED  BY ONLY <2>7, <4>1
    <3>6. OutLead(k, c) = IsoLead(d)  BY ONLY <2>2, <2>4, <3>3, <3>4, <3>5
    <3>7. OutTail(k, c) = 0 /\ IsoTail(d) = 0
      BY ONLY <2>2, <3>1 DEF OutTail, IsoTail
    <3> QED  BY ONLY <3>6, <3>7
  <2>10. OutCore(k, c) = IsoCore(d)
    <3>1. Zeros(z) \o (Zeros(iz) \o MadeString(d)) = Zeros(z + iz) \o MadeString(d)
      BY ONLY <1>9, <1>27, ZerosTwice
    <3>2. IsoCore(d) = IsoSign(d) \o (Zeros(z) \o IsoDigits(d))
      BY DEF IsoCore, z, y
    <3> QED  BY ONLY <1>1, <1>9, <1>28, <2>4, <3>1, <3>2 DEF OutCore
  <2>11. Solid(b) /\ Len(b) <= BUFSZ  BY PrintfAssumption, AllDigitsMade
  <2> QED  BY <2>9, <2>10, <2>11, SameText DEF k, c
<1> QED  BY ONLY <1>1, <1>5, <1>6, <1>30, <1>31

(* Where no `#' prefix is written and a departure applies, the core has    *)
(* too few characters.                                                     *)
LEMMA PlainDiffers ==
  ASSUME NEW d, IntDirective(d), ~CharUnsigned(d), ~BufferShort(d),
         NEW b, DigitsMade(d, b), "#" \notin Conversion(d).flags,
         FittingDeparts(d)
  PROVE  Written(d, b) # IsoNumber(d)
<1> DEFINE k == Conversion(d)
           c == Prefixed(d, b)
           w == Columns(d)
           p == Len(IsoPrefix(d))
           t == Len(IsoDigits(d))
           g == Len(IsoSign(d))
           y == IsoGap(d)
           iz == IsoZeros(d)
           n == MadeDigits(d)
           q == ZerosAdded(k, n)
           s == Len(OutSign(k, c))
           m == Len(c)
           z == IF IsoZeroed(d) THEN y ELSE 0
<1>1. q \in Nat /\ n \in Nat /\ m = n + q /\ m <= BUFSZ
  BY PlainSizes
<1>2. q = IF LeftAligned(d) THEN 0
          ELSE MaxOf(MinOf(IF "0" \in d.flags /\ d.prec = NoPrec
                           THEN PadWidth(k) ELSE MaxOf(d.prec, 0), BUFSZ) - n, 0)
  BY PlainSizes
<1>3. d.prec \in Int /\ w \in Nat /\ BUFSZ \in Nat \ {0}
  BY PrintfAssumption, IsoValueIs
<1>4. g \in Nat /\ p \in Nat  BY IsoPrefixIs
<1>5. t \in Nat  BY IsoDigitsAre
<1>6. s <= g /\ s \in Nat
  <2>1. /\ m < BUFSZ => OutSign(k, c) = IsoSign(d)
        /\ ~(m < BUFSZ) => OutSign(k, c) = <<>>
    BY PlainSign
  <2>2. Len(<<>>) = 0  BY ShortStrings
  <2>3. (m < BUFSZ => s = g) /\ (~(m < BUFSZ) => s = 0)  BY <2>1, <2>2
  <2> HIDE DEF s, g, m
  <2> QED  BY ONLY <1>4, <2>3
<1>7. Len(OutCore(k, c)) = s + m
  <2>1. Solid(b) /\ Len(b) <= BUFSZ  BY PrintfAssumption, AllDigitsMade
  <2> QED  BY <2>1, WrittenForm
<1>8. Len(IsoCore(d)) = g + z + t /\ y \in Nat  BY IsoForm
<1>9. /\ NoDigitMade(d) => t > 0
      /\ ~NoDigitMade(d) => t = iz + n
      /\ iz \in Nat
  BY IsoDigitsAre
<1>a. ~(OctalHash(d) /\ IsoValue(d) # 0)  BY NoOctalHash
<1>10. iz = MaxOf(IsoPrec(d) - n, 0)  BY <1>a DEF IsoZeros
<1>11. y = MaxOf(w - p - t, 0)  BY DEF IsoGap
<1>12. IsoZeroed(d) <=> ~LeftAligned(d) /\ "0" \in d.flags /\ IsoPrec(d) = NoPrec
  BY DEF IsoZeroed
<1>13. IsoPrec(d) = IF d.prec < 0 THEN NoPrec ELSE d.prec  BY DEF IsoPrec
<1>14. NoPrec \in Int /\ NoPrec < 0  BY NoPrecIs
<1>15. IsoValue(d) = 0 /\ d.prec # NoPrec => n = 0  BY DEF MadeDigits
<1>16. NoDigitMade(d) => n = 0 /\ d.prec <= 0 /\ d.prec # NoPrec
  BY <1>3, <1>15 DEF NoDigitMade
<1>17. z = IF IsoZeroed(d) THEN y ELSE 0  OBVIOUS
<1>18. \/ NoDigitMade(d)
       \/ /\ d.prec < 0 /\ d.prec # NoPrec /\ IsoValue(d) # 0
          /\ "0" \in d.flags /\ ~LeftAligned(d) /\ w > p + t
       \/ LeftAligned(d) /\ d.prec > n
  <2>1. ~PrefixTakesDigits(d)
    <3>1. ArgValue(d) = IsoValue(d)  BY ValueIs
    <3>2. "#" \in k.flags <=>
              "#" \in d.flags /\ Base(d.conv) # 10 /\ ArgValue(d) # 0
      BY ConversionHas
    <3> QED  BY <3>1, <3>2 DEF PrefixTakesDigits
  <2>2. CASE NegativePrec(d)
    <3>1. CASE IsoValue(d) = 0  BY <2>2, <3>1 DEF NegativePrec, NoDigitMade
    <3>2. CASE IsoValue(d) # 0
      <4>1. /\ d.prec < 0 /\ d.prec # NoPrec /\ IsoValue(d) # 0
            /\ "0" \in d.flags /\ ~LeftAligned(d) /\ w > p + t
        BY <2>2, <3>2 DEF NegativePrec
      <4> HIDE DEF w, p, t
      <4> QED  BY ONLY <4>1
    <3> QED  BY <3>1, <3>2
  <2>3. CASE LeftLosesZeros(d)
    <3>1. /\ LeftAligned(d)
          /\ d.prec > n + (IF OctalHash(d) /\ IsoValue(d) # 0 THEN 1 ELSE 0)
      BY <2>3 DEF LeftLosesZeros
    <3> HIDE DEF n
    <3>2. LeftAligned(d) /\ d.prec > n + 0  BY ONLY <1>a, <3>1
    <3>3. LeftAligned(d) /\ d.prec > n  BY ONLY <1>1, <1>3, <3>2
    <3> QED  BY ONLY <3>3
  <2>4. CASE OctalPrec(d)
    <3>1. OctalHash(d) /\ IsoValue(d) = 0 /\ d.prec = 0
      BY <1>a, <2>4 DEF OctalPrec
    <3>2. 0 # NoPrec  BY NoPrecIs
    <3>3. NoDigitMade(d)  BY <3>1, <3>2 DEF NoDigitMade
    <3> QED  BY <3>3
  <2> QED  BY ONLY <2>1, <2>2, <2>3, <2>4, FittingDeparts(d) DEF FittingDeparts
<1> HIDE DEF k, c, w, p, t, g, y, iz, n, q, s, m, z
<1>19. z \in Nat  BY ONLY <1>8, <1>17
<1>20. Len(OutCore(k, c)) # Len(IsoCore(d))
  <2>1. CASE NoDigitMade(d)
    <3>1. n = 0 /\ d.prec <= 0 /\ d.prec # NoPrec  BY ONLY <1>16, <2>1
    <3>2. MaxOf(d.prec, 0) = 0  BY ONLY <1>3, <3>1 DEF MaxOf
    <3>3. q = IF LeftAligned(d) THEN 0 ELSE MaxOf(MinOf(0, BUFSZ) - 0, 0)
      BY ONLY <1>2, <3>1, <3>2
    <3>4. q = 0  BY ONLY <1>3, <3>3 DEF MaxOf, MinOf
    <3>5. m = 0 /\ t > 0  BY ONLY <1>1, <1>9, <2>1, <3>1, <3>4
    <3> QED  BY ONLY <1>4, <1>5, <1>6, <1>7, <1>8, <1>19, <3>5
  <2>2. CASE /\ d.prec < 0 /\ d.prec # NoPrec /\ IsoValue(d) # 0
             /\ "0" \in d.flags /\ ~LeftAligned(d) /\ w > p + t
    <3>1. MaxOf(d.prec, 0) = 0  BY ONLY <1>3, <2>2 DEF MaxOf
    <3>2. q = MaxOf(MinOf(0, BUFSZ) - n, 0)  BY ONLY <1>2, <2>2, <3>1
    <3>3. q = 0  BY ONLY <1>1, <1>3, <3>2 DEF MaxOf, MinOf
    <3>4. z = y  BY ONLY <1>12, <1>13, <1>17, <2>2
    <3>5. y > 0
      <4>1. w - p - t > 0 /\ w - p - t \in Int  BY ONLY <1>3, <1>4, <1>5, <2>2
      <4> QED  BY ONLY <1>11, <4>1 DEF MaxOf
    <3>6. t >= n
      <4>1. ~NoDigitMade(d)  BY ONLY <2>2 DEF NoDigitMade
      <4> QED  BY ONLY <1>1, <1>9, <4>1
    <3>7. m = n  BY ONLY <1>1, <3>3
    <3> QED
      BY ONLY <1>1, <1>4, <1>5, <1>6, <1>7, <1>8, <1>19, <3>4, <3>5, <3>6, <3>7
  <2>3. CASE LeftAligned(d) /\ d.prec > n /\ ~NoDigitMade(d)
    <3>1. q = 0  BY ONLY <1>2, <2>3
    <3>2. d.prec > 0 /\ IsoPrec(d) = d.prec
      BY ONLY <1>1, <1>3, <1>13, <2>3
    <3>3. iz > 0  BY ONLY <1>1, <1>3, <1>10, <2>3, <3>2 DEF MaxOf
    <3>4. t > m  BY ONLY <1>1, <1>9, <2>3, <3>1, <3>3
    <3> QED
      BY ONLY <1>1, <1>4, <1>5, <1>6, <1>7, <1>8, <1>19, <3>4
  <2> QED  BY ONLY <1>18, <2>1, <2>2, <2>3
<1>21. Solid(b) /\ Len(b) <= BUFSZ  BY PrintfAssumption, AllDigitsMade
<1> QED  BY <1>20, <1>21, SameText DEF k, c

(* Where a `#' prefix is written: the number is unsigned and not 0, and    *)
(* has no sign; ISO C has the same prefix, or a zero for `#o'.             *)
LEMMA HashPrefix ==
  ASSUME NEW d, IntDirective(d), ~CharUnsigned(d),
         NEW k, k = Conversion(d), "#" \in k.flags, NEW c
  PROVE  /\ k.base = Base(d.conv) /\ k.base \in {2, 8, 16}
         /\ "#" \in d.flags /\ IsoValue(d) # 0 /\ PadWidth(k) = Columns(d)
         /\ IsoBlank(d) = 0 /\ IsoSign(d) = IsoPrefix(d)
         /\ OutSign(k, c) = <<>> /\ OutBlank(k, c) = 0
         /\ k.base # 8 => IsoPrefix(d) = <<"0", Letter(k)>>
         /\ k.base # 8 => Len(IsoPrefix(d)) = 2
         /\ k.base = 8 => IsoPrefix(d) = <<>>
         /\ k.base = 8 => Len(IsoPrefix(d)) = 0
         /\ OctalHash(d) <=> k.base = 8
<1>1. /\ k.base = Base(d.conv) /\ k.width = Columns(d)
      /\ k.negative = (ArgValue(d) < 0)
      /\ "U" \in k.flags <=> Upper(d)
      /\ "+" \in k.flags <=> Signed(d.conv) /\ "+" \in d.flags
      /\ " " \in k.flags <=> Signed(d.conv) /\ " " \in d.flags
      /\ "#" \in k.flags <=>
           "#" \in d.flags /\ Base(d.conv) # 10 /\ ArgValue(d) # 0
  BY ConversionHas
<1>2. ArgValue(d) = IsoValue(d)  BY ValueIs
<1>3. /\ IsoValue(d) \in Int
      /\ IsoValue(d) < 0 => Signed(d.conv)
      /\ Base(d.conv) \in {2, 8, 10, 16}
  BY IsoValueIs
<1>4. "#" \in d.flags /\ Base(d.conv) # 10 /\ IsoValue(d) # 0
  BY <1>1, <1>2
<1>5. d.conv \in {"x", "X", "o", "b"} /\ ~Signed(d.conv)
  BY <1>4 DEF IntDirective, Base, Signed
<1>6. /\ d.conv \in {"x", "X"} => Base(d.conv) = 16
      /\ d.conv = "o" => Base(d.conv) = 8
      /\ d.conv = "b" => Base(d.conv) = 2
  BY DEF Base
<1>7. ~(IsoValue(d) < 0)  BY <1>3, <1>5
<1>8. ~k.negative /\ "+" \notin k.flags /\ " " \notin k.flags
  <2>1. k.negative = (IsoValue(d) < 0)  BY <1>1, <1>2
  <2>2. ~k.negative  BY ONLY <1>7, <2>1
  <2> QED  BY <1>1, <1>5, <2>2
<1>9. PadWidth(k) = Columns(d)  BY <1>1, <1>8 DEF PadWidth
<1>10. OutSign(k, c) = <<>> /\ OutBlank(k, c) = 0
  BY <1>8 DEF OutSign, OutBlank
<1>11. IsoPrefix(d) = IF d.conv \in {"x", "X", "b"} THEN <<"0", d.conv>>
                      ELSE <<>>
  BY <1>4, <1>5, <1>7 DEF IsoPrefix
<1>12. k.base # 8 => d.conv \in {"x", "X", "b"} /\ d.conv = Letter(k)
  <2>1. CASE d.conv = "o"  BY <1>1, <1>6, <2>1
  <2>2. CASE d.conv = "b"
    <3>1. k.base = 2  BY <1>1, <1>6, <2>2
    <3> QED  BY <2>2, <3>1 DEF Letter
  <2>3. CASE d.conv = "x"
    <3>1. k.base = 16 /\ "U" \notin k.flags  BY <1>1, <1>6, <2>3 DEF Upper
    <3>2. k.base # 2  BY ONLY <3>1
    <3> QED  BY ONLY <2>3, <3>1, <3>2 DEF Letter
  <2>4. CASE d.conv = "X"
    <3>1. k.base = 16 /\ "U" \in k.flags  BY <1>1, <1>6, <2>4 DEF Upper
    <3>2. k.base # 2  BY ONLY <3>1
    <3> QED  BY ONLY <2>4, <3>1, <3>2 DEF Letter
  <2> QED  BY <1>5, <2>1, <2>2, <2>3, <2>4
<1>13. k.base = 8 <=> d.conv = "o"
  <2>1. d.conv \in {"x", "X", "b"} => Base(d.conv) \in {2, 16}  BY <1>6
  <2>2. 8 \notin {2, 16}  OBVIOUS
  <2> QED  BY <1>1, <1>5, <1>6, <2>1, <2>2
<1>14. \A x : /\ Len(<<"0", x>>) = 2
              /\ <<"0", x>> # <<" ">> /\ <<>> # <<" ">>
  <2>1. \A x : Len(<<"0", x>>) = 2  OBVIOUS
  <2>2. Len(<<" ">>) = 1 /\ Len(<<>>) = 0  BY ShortStrings
  <2> QED  BY <2>1, <2>2
<1>15. k.base # 8 => IsoPrefix(d) = <<"0", Letter(k)>>
  BY <1>11, <1>12
<1>16. k.base = 8 => IsoPrefix(d) = <<>>
  BY <1>11, <1>13
<1>17. Len(<<>>) = 0  BY ShortStrings
<1>18. IsoPrefix(d) # <<" ">>  BY <1>14, <1>15, <1>16
<1>19. IsoBlank(d) = 0 /\ IsoSign(d) = IsoPrefix(d)
  BY <1>18 DEF IsoBlank, IsoSign
<1>20. k.base # 8 => Len(IsoPrefix(d)) = 2  BY <1>14, <1>15
<1>21. k.base = 8 => Len(IsoPrefix(d)) = 0  BY <1>16, <1>17
<1>22. OctalHash(d) <=> k.base = 8  BY <1>4, <1>13 DEF OctalHash
<1>23. k.base \in {2, 8, 16}
  <2>1. k.base # 10 /\ k.base \in {2, 8, 10, 16}  BY <1>1, <1>3, <1>4
  <2> QED  BY <2>1
<1> QED  BY <1>1, <1>4, <1>9, <1>10, <1>15, <1>16, <1>19, <1>20, <1>21,
            <1>22, <1>23

(* The lengths, where a `#' prefix is written, and the text, where it      *)
(* takes no digit and finds room: of n digits and q zeros, e are kept.     *)
HashFacts(d, k, c, w, n, q, e) ==
  /\ q \in Nat /\ n \in Nat \ {0} /\ n + q <= BUFSZ
  /\ Solid(MadeString(d)) /\ Len(MadeString(d)) = n
  /\ q = IF LeftAligned(d) THEN 0
         ELSE MaxOf(MinOf(IF "0" \in d.flags /\ d.prec = NoPrec
                          THEN w ELSE MaxOf(d.prec, 0), BUFSZ) - n, 0)
  /\ e = MaxOf(n + q - (IF ~(d.prec = NoPrec /\ n + q = w) THEN 0
                        ELSE IF k.base = 16 THEN 2 ELSE 1), 0)
  /\ e \in 0..n + q
  /\ Solid(c) /\ Len(OutCore(k, c)) = Len(c)
  /\ k.base = 8 => Len(c) = IF e < BUFSZ THEN e + 1 ELSE e
  /\ k.base # 8 => Len(c) = IF e + 1 < BUFSZ THEN e + 2
                            ELSE IF e < BUFSZ THEN e + 1 ELSE e
  /\ k.base # 8 /\ e < BUFSZ /\ ~(e + 1 < BUFSZ) =>
       \E s : OutCore(k, c) = <<Letter(k)>> \o s /\ IsSeq(s)
  /\ n <= e =>
       /\ k.base = 8 =>
            OutCore(k, c) = Zeros(e - n + (IF e < BUFSZ THEN 1 ELSE 0))
                              \o MadeString(d)
       /\ k.base # 8 /\ e + 1 < BUFSZ =>
            OutCore(k, c) = IsoPrefix(d) \o (Zeros(e - n) \o MadeString(d))

(* These hold for what is written of the digits made.                      *)
LEMMA HashSizes ==
  ASSUME NEW d, IntDirective(d), ~CharUnsigned(d), ~BufferShort(d),
         NEW b, DigitsMade(d, b),
         NEW k, k = Conversion(d), "#" \in k.flags,
         NEW c, c = Prefixed(d, b), NEW q, q = ZerosAdded(k, MadeDigits(d)),
         NEW e, e = PrefixKept(k, Padded(d, b))
  PROVE  HashFacts(d, k, c, Columns(d), MadeDigits(d), q, e)
<1> DEFINE n == MadeDigits(d)
           z == Padded(d, b)
           cut == SubSeq(z, 1, e)
           w == Columns(d)
<1>1. /\ Reverse(b) = MadeString(d) /\ Len(b) = n
      /\ Solid(b) /\ Len(b) \in 0..BUFSZ
  BY AllDigitsMade
<1>b. BUFSZ \in Nat \ {0} /\ Len(b) <= BUFSZ  BY <1>1, PrintfAssumption
<1>2. q = ZerosAdded(Conversion(d), Len(b))  BY <1>1
<1>3. /\ z = b \o Zeros(q)
      /\ q \in Nat /\ Len(b) \in Nat /\ Solid(z)
      /\ Len(z) = Len(b) + q /\ Len(b) + q <= BUFSZ
  BY ONLY <1>1, <1>b, <1>2, IntDirective(d), PaddedIs
<1>4. /\ IsConversion(k) /\ k.prec = MaxOf(d.prec, 0) /\ k.width = w
      /\ "-" \in k.flags <=> LeftAligned(d)
      /\ "0" \in k.flags <=> "0" \in d.flags /\ d.prec = NoPrec
      /\ "P" \in k.flags <=> d.prec # NoPrec
  BY ConversionHas
<1>5. /\ k.base \in {2, 8, 16} /\ IsoValue(d) # 0 /\ PadWidth(k) = w
      /\ OutSign(k, c) = <<>>
      /\ k.base # 8 => IsoPrefix(d) = <<"0", Letter(k)>>
  BY HashPrefix
<1>6. /\ Solid(MadeString(d)) /\ Len(MadeString(d)) = n /\ n \in Nat
  BY IsoDigitsAre
<1>7. n \in Nat \ {0}
  <2>1. n = Len(IsoNumeral(d)) /\ Len(IsoNumeral(d)) \in Nat \ {0}
    BY <1>5, IsoNumeralIs
  <2> QED  BY ONLY <2>1
<1>8. q = IF LeftAligned(d) THEN 0
          ELSE MaxOf(MinOf(IF "0" \in d.flags /\ d.prec = NoPrec
                           THEN w ELSE MaxOf(d.prec, 0), BUFSZ) - n, 0)
  BY ONLY <1>4, <1>5, q = ZerosAdded(k, MadeDigits(d)) DEF ZerosAdded
<1>9. PrefixFull(k, z) <=> d.prec = NoPrec /\ n + q = w
  <2>1. Len(z) = n + q /\ Len(z) > 0  BY <1>1, <1>3, <1>7
  <2>2. d.prec = NoPrec => k.prec = 0  BY ONLY <1>4, NoPrecIs DEF MaxOf
  <2>3. PrefixFull(k, z) <=> d.prec = NoPrec /\ n + q \in {k.prec, w}
    BY ONLY <1>4, <1>5, <2>1 DEF PrefixFull
  <2>4. n + q # 0  BY <1>3, <1>7
  <2>5. d.prec = NoPrec => (n + q \in {k.prec, w} <=> n + q = w)
    <3>1. ASSUME k.prec = 0 PROVE n + q \in {k.prec, w} <=> n + q = w
      BY ONLY <2>4, <3>1
    <3> QED  BY ONLY <2>2, <3>1
  <2> QED  BY ONLY <2>3, <2>5
<1>10. Len(z) = n + q /\ n + q <= BUFSZ  BY <1>1, <1>3
<1>11. e = MaxOf(n + q - (IF ~(d.prec = NoPrec /\ n + q = w) THEN 0
                           ELSE IF k.base = 16 THEN 2 ELSE 1), 0)
  <2>1. e = MaxOf(Len(z) - (IF ~PrefixFull(k, z) THEN 0
                            ELSE IF k.base = 16 THEN 2 ELSE 1), 0)
    BY DEF PrefixKept
  <2>2. (IF ~PrefixFull(k, z) THEN 0 ELSE IF k.base = 16 THEN 2 ELSE 1)
           = IF ~(d.prec = NoPrec /\ n + q = w) THEN 0
             ELSE IF k.base = 16 THEN 2 ELSE 1
    <3> HIDE DEF z, n, w
    <3>1. CASE PrefixFull(k, z)  BY ONLY <1>9, <3>1
    <3>2. CASE ~PrefixFull(k, z)  BY ONLY <1>9, <3>2
    <3> QED  BY ONLY <3>1, <3>2
  <2>3. Len(z) = n + q  BY <1>10
  <2> DEFINE x == IF ~PrefixFull(k, z) THEN 0 ELSE IF k.base = 16 THEN 2 ELSE 1
             y == IF ~(d.prec = NoPrec /\ n + q = w) THEN 0
                  ELSE IF k.base = 16 THEN 2 ELSE 1
  <2>4. e = MaxOf(Len(z) - x, 0) /\ x = y  BY ONLY <2>1, <2>2
  <2>6. x \in Int /\ y \in Int /\ n \in Int /\ q \in Int  BY <1>3, <1>6
  <2> HIDE DEF z, n, w, x, y
  <2>5. e = MaxOf(n + q - y, 0)  BY ONLY <2>3, <2>4, <2>6 DEF MaxOf
  <2> QED  BY ONLY <2>5 DEF y
<1>12. /\ e \in 0..Len(z) /\ Solid(cut) /\ Len(cut) = e
       /\ k.base \in {2, 16} => c = Push(Push(cut, Letter(k)), "0")
       /\ k.base \notin {2, 16} => c = Push(cut, "0")
       /\ Solid(c)
  BY <1>3, <1>4, WithPrefixIs DEF Prefixed
<1>13. e \in 0..n + q  BY <1>10, <1>12
<1>14. OutCore(k, c) = Reverse(c) /\ IsSeq(Reverse(c)) /\ Len(Reverse(c)) = Len(c)
  <2>1. Solid(Reverse(c)) /\ Len(Reverse(c)) = Len(c)  BY <1>12, ReverseSolid
  <2>2. IsSeq(Reverse(c))  BY <2>1 DEF Solid
  <2>3. <<>> \o Reverse(c) = Reverse(c)  BY <2>2, ConcatEmpty
  <2> QED  BY <1>5, <2>1, <2>2, <2>3 DEF OutCore
<1> DEFINE a == Push(cut, Letter(k))
<1>15. /\ IsSeq(cut) /\ IsSeq(a)
       /\ e < BUFSZ => /\ Len(a) = e + 1
                       /\ Reverse(a) = <<Letter(k)>> \o Reverse(cut)
       /\ ~(e < BUFSZ) => a = cut
  <2>1. IsSeq(cut)  BY <1>12 DEF Solid
  <2> QED  BY <1>12, <2>1, PushIs
<1>16. IsSeq(Reverse(cut)) /\ Len(Reverse(cut)) = e /\ e \in Nat
  <2>1. IsSeq(cut) /\ Len(cut) = e  BY <1>12, <1>15
  <2>2. e \in Nat  BY <1>3, <1>7, <1>13
  <2> HIDE DEF cut
  <2>3. IsSeq(Reverse(cut)) /\ Len(Reverse(cut)) = Len(cut)
    BY ONLY <2>1, ReverseIs
  <2> QED  BY ONLY <2>1, <2>2, <2>3
<1>17. k.base = 8 =>
         /\ e < BUFSZ => Len(c) = e + 1 /\ Reverse(c) = <<"0">> \o Reverse(cut)
         /\ ~(e < BUFSZ) => c = cut
  <2>1. ASSUME k.base = 8 PROVE c = Push(cut, "0")
    <3>1. 8 \notin {2, 16}  OBVIOUS
    <3> QED  BY <1>12, <2>1, <3>1
  <2>2. IsSeq(cut) /\ Len(cut) = e  BY <1>12, <1>15
  <2> HIDE DEF cut
  <2> QED  BY ONLY <2>1, <2>2, PushIs
<1>18. k.base # 8 =>
         /\ e + 1 < BUFSZ =>
              /\ Len(c) = e + 2
              /\ Reverse(c) = <<"0">> \o (<<Letter(k)>> \o Reverse(cut))
         /\ e < BUFSZ /\ ~(e + 1 < BUFSZ) =>
              Len(c) = e + 1 /\ Reverse(c) = <<Letter(k)>> \o Reverse(cut)
         /\ ~(e < BUFSZ) => Len(c) = e
  <2> SUFFICES ASSUME k.base # 8
               PROVE  /\ e + 1 < BUFSZ =>
                           /\ Len(c) = e + 2
                           /\ Reverse(c) = <<"0">> \o (<<Letter(k)>> \o Reverse(cut))
                      /\ e < BUFSZ /\ ~(e + 1 < BUFSZ) =>
                           /\ Len(c) = e + 1
                           /\ Reverse(c) = <<Letter(k)>> \o Reverse(cut)
                      /\ ~(e < BUFSZ) => Len(c) = e
    OBVIOUS
  <2>1. c = Push(a, "0")  BY <1>5, <1>12
  <2>2. CASE e < BUFSZ
    <3>1. Len(a) = e + 1 /\ Reverse(a) = <<Letter(k)>> \o Reverse(cut)
      BY <1>15, <2>2
    <3>2. /\ Len(a) < BUFSZ => /\ Len(c) = Len(a) + 1
                               /\ Reverse(c) = <<"0">> \o Reverse(a)
          /\ ~(Len(a) < BUFSZ) => c = a
      <4> HIDE DEF a
      <4> QED  BY <1>15, <2>1, PushIs
    <3>3. e + 1 + 1 = e + 2  BY <1>16
    <3> HIDE DEF a, cut
    <3> QED  BY ONLY <2>2, <3>1, <3>2, <3>3
  <2>3. CASE ~(e < BUFSZ)
    <3>1. a = cut /\ Len(a) = e  BY <1>12, <1>15, <2>3
    <3>2. ~(Len(a) < BUFSZ) => c = a
      <4> HIDE DEF a
      <4> QED  BY <1>15, <2>1, PushIs
    <3>3. Len(c) = e  BY <2>3, <3>1, <3>2
    <3>4. ~(e + 1 < BUFSZ)  BY <1>16, <1>b, <2>3
    <3> QED  BY ONLY <2>3, <3>3, <3>4
  <2> QED  BY ONLY <2>2, <2>3
<1>19. ASSUME n <= e
       PROVE  Reverse(cut) = Zeros(e - n) \o MadeString(d)
  <2> DEFINE m == e - n
  <2>1. m \in Nat /\ m <= q /\ e = Len(b) + m
    BY <1>1, <1>3, <1>7, <1>13, <1>19
  <2>2. IsSeq(b)  BY <1>1 DEF Solid
  <2> HIDE DEF m
  <2>3. SubSeq(b \o Zeros(q), 1, Len(b) + m) = b \o Zeros(m)
    BY ONLY <1>3, <2>1, <2>2, CutZeros
  <2>4. cut = b \o Zeros(m)  BY <1>3, <2>1, <2>3
  <2>5. Reverse(b \o Zeros(m)) = Zeros(m) \o Reverse(b)
    <3>1. m \in Int  BY <2>1
    <3>2. Reverse(b \o Repeat("0", m)) = Repeat("0", m) \o Reverse(b)
      BY ONLY <2>2, <3>1, ReverseZeros
    <3> QED  BY ONLY <3>2 DEF Zeros
  <2> QED  BY <1>1, <2>4, <2>5 DEF m
<1>20. ASSUME n <= e, k.base = 8
       PROVE  OutCore(k, c) = Zeros(e - n + (IF e < BUFSZ THEN 1 ELSE 0))
                                \o MadeString(d)
  <2> DEFINE m == e - n
  <2>0. m \in Nat /\ Reverse(cut) = Zeros(m) \o MadeString(d)
    BY <1>7, <1>13, <1>19, <1>20
  <2> HIDE DEF m
  <2>1. CASE e < BUFSZ
    <3>1. OutCore(k, c) = Zeros(1) \o (Zeros(m) \o MadeString(d))
      <4>1. <<"0">> = Zeros(1)  BY ShortPadding
      <4>2. Reverse(c) = <<"0">> \o Reverse(cut)  BY <1>17, <1>20, <2>1
      <4> QED  BY ONLY <1>14, <2>0, <4>1, <4>2
    <3>2. Zeros(1) \o (Zeros(m) \o MadeString(d)) = Zeros(1 + m) \o MadeString(d)
      BY ONLY <1>6, <2>0, 1 \in Nat, ZerosTwice
    <3>3. 1 + m = m + (IF e < BUFSZ THEN 1 ELSE 0)  BY ONLY <2>0, <2>1
    <3>4. OutCore(k, c) = Zeros(m + (IF e < BUFSZ THEN 1 ELSE 0)) \o MadeString(d)
      BY ONLY <3>1, <3>2, <3>3
    <3> QED  BY <3>4 DEF m
  <2>2. CASE ~(e < BUFSZ)
    <3>1. c = cut  BY <1>17, <1>20, <2>2
    <3>2. m = m + (IF e < BUFSZ THEN 1 ELSE 0)  BY ONLY <2>0, <2>2
    <3>3. OutCore(k, c) = Zeros(m) \o MadeString(d)
      BY ONLY <1>14, <2>0, <3>1
    <3>4. OutCore(k, c) = Zeros(m + (IF e < BUFSZ THEN 1 ELSE 0)) \o MadeString(d)
      BY ONLY <3>2, <3>3
    <3> QED  BY <3>4 DEF m
  <2> QED  BY <2>1, <2>2
<1>21. ASSUME n <= e, k.base # 8, e + 1 < BUFSZ
       PROVE  OutCore(k, c) = IsoPrefix(d) \o (Zeros(e - n) \o MadeString(d))
  <2>1. IsoPrefix(d) = <<"0", Letter(k)>>  BY <1>5, <1>21
  <2>2. OutCore(k, c) = <<"0">> \o (<<Letter(k)>> \o Reverse(cut))
    BY <1>14, <1>18, <1>21
  <2>3. <<"0", Letter(k)>> \o Reverse(cut) = <<"0">> \o (<<Letter(k)>> \o Reverse(cut))
    BY <1>16, TwoInFront
  <2>4. OutCore(k, c) = IsoPrefix(d) \o Reverse(cut)
    BY ONLY <2>1, <2>2, <2>3
  <2> QED  BY ONLY <1>19, <1>21, <2>4
<1>22. ASSUME k.base # 8, e < BUFSZ, ~(e + 1 < BUFSZ)
       PROVE  \E s : OutCore(k, c) = <<Letter(k)>> \o s /\ IsSeq(s)
  BY <1>14, <1>16, <1>18, <1>22
<1>23. Len(OutCore(k, c)) = Len(c)  BY <1>14
<1>24. k.base = 8 => Len(c) = IF e < BUFSZ THEN e + 1 ELSE e
  BY <1>12, <1>17
<1>25. k.base # 8 => Len(c) = IF e + 1 < BUFSZ THEN e + 2
                               ELSE IF e < BUFSZ THEN e + 1 ELSE e
  <2>1. e + 1 < BUFSZ \/ (e < BUFSZ /\ ~(e + 1 < BUFSZ)) \/ ~(e < BUFSZ)
    OBVIOUS
  <2>2. ~(e < BUFSZ) => ~(e + 1 < BUFSZ)  BY <1>b, <1>16
  <2> HIDE DEF cut
  <2> QED  BY ONLY <1>18, <2>2
<1> HIDE DEF n, cut, z, w, a
<1>26. n + q <= BUFSZ  BY <1>10
<1> QED
  BY ONLY <1>3, <1>6, <1>7, <1>8, <1>11, <1>12, <1>13, <1>20, <1>21, <1>22,
          <1>23, <1>24, <1>25, <1>26 DEF HashFacts, n, w

(* Where a `#' prefix is written and no departure applies, the text is as  *)
(* ISO C has it.                                                           *)
LEMMA HashConforms ==
  ASSUME NEW d, IntDirective(d), ~CharUnsigned(d), ~BufferShort(d),
         NEW b, DigitsMade(d, b), "#" \in Conversion(d).flags,
         ~FittingDeparts(d)
  PROVE  Written(d, b) = IsoNumber(d)
<1> DEFINE k == Conversion(d)
           c == Prefixed(d, b)
           w == Columns(d)
           p == Len(IsoPrefix(d))
           t == Len(IsoDigits(d))
           y == IsoGap(d)
           iz == IsoZeros(d)
           n == MadeDigits(d)
           q == ZerosAdded(k, n)
           e == PrefixKept(k, Padded(d, b))
           m == Len(c)
           base == k.base
           z == IF IsoZeroed(d) THEN y ELSE 0
           zp == ZeroPadded(d)
<1>0. HashFacts(d, k, c, w, n, q, e)  BY HashSizes
<1>1. /\ q \in Nat /\ n \in Nat \ {0} /\ n + q <= BUFSZ
      /\ Solid(MadeString(d)) /\ e \in 0..n + q
  BY ONLY <1>0 DEF HashFacts
<1>2. q = IF LeftAligned(d) THEN 0
          ELSE MaxOf(MinOf(IF "0" \in d.flags /\ d.prec = NoPrec
                           THEN w ELSE MaxOf(d.prec, 0), BUFSZ) - n, 0)
  BY ONLY <1>0 DEF HashFacts
<1>3. e = MaxOf(n + q - (IF ~(d.prec = NoPrec /\ n + q = w)
                         THEN 0 ELSE IF base = 16 THEN 2 ELSE 1), 0)
  BY ONLY <1>0 DEF HashFacts
<1>4. /\ base = 8 => m = IF e < BUFSZ THEN e + 1 ELSE e
      /\ base # 8 => m = IF e + 1 < BUFSZ THEN e + 2
                         ELSE IF e < BUFSZ THEN e + 1 ELSE e
  BY ONLY <1>0 DEF HashFacts
<1>5. n <= e =>
        /\ base = 8 => OutCore(k, c) = Zeros(e - n + (IF e < BUFSZ THEN 1 ELSE 0))
                                         \o MadeString(d)
        /\ base # 8 /\ e + 1 < BUFSZ =>
             OutCore(k, c) = IsoPrefix(d) \o (Zeros(e - n) \o MadeString(d))
  BY ONLY <1>0 DEF HashFacts
<1>6. /\ base = Base(d.conv) /\ base \in {2, 8, 16} /\ "#" \in d.flags
      /\ IsoValue(d) # 0 /\ PadWidth(k) = w
      /\ IsoBlank(d) = 0 /\ IsoSign(d) = IsoPrefix(d)
      /\ OutSign(k, c) = <<>> /\ OutBlank(k, c) = 0
      /\ base # 8 => p = 2
      /\ base = 8 => IsoPrefix(d) = <<>> /\ p = 0
      /\ OctalHash(d) <=> base = 8
  BY HashPrefix
<1>7. /\ "-" \in k.flags <=> LeftAligned(d)
      /\ "0" \in k.flags <=> "0" \in d.flags /\ d.prec = NoPrec
  BY ConversionHas
<1>8. d.prec \in Int /\ w \in Nat /\ BUFSZ \in Nat \ {0}
  BY PrintfAssumption, IsoValueIs
<1>9. ~NoDigitMade(d)  BY <1>6 DEF NoDigitMade
<1>10. IsoDigits(d) = Zeros(iz) \o MadeString(d) /\ t = iz + n /\ iz \in Nat
  BY <1>9, IsoDigitsAre
<1>11. iz = MaxOf(IsoPrec(d) - n, IF base = 8 THEN 1 ELSE 0)
  BY <1>6 DEF IsoZeros
<1>12. y = MaxOf(w - p - t, 0)  BY DEF IsoGap
<1>13. IsoZeroed(d) <=> ~LeftAligned(d) /\ "0" \in d.flags /\ IsoPrec(d) = NoPrec
  BY DEF IsoZeroed
<1>14. IsoPrec(d) = IF d.prec < 0 THEN NoPrec ELSE d.prec  BY DEF IsoPrec
<1>15. NoPrec \in Int /\ NoPrec < 0  BY NoPrecIs
<1>16. zp <=> "0" \in d.flags /\ ~LeftAligned(d) /\ d.prec = NoPrec
  BY DEF ZeroPadded
<1>17. p + t <= BUFSZ /\ (zp => w <= BUFSZ)
  <2>1. ~BlankFromPadding(d)
    <3>1. IsoPrefix(d) # <<" ">>
      <4>1. IsoBlank(d) = 0  BY <1>6
      <4>2. 0 # 1  OBVIOUS
      <4> QED  BY ONLY <4>1, <4>2 DEF IsoBlank
    <3> QED  BY <3>1 DEF BlankFromPadding
  <2>2. ~(p + t > BUFSZ) /\ ~(zp /\ w > BUFSZ)  BY <2>1 DEF BufferShort
  <2>3. (base = 8 => p = 0) /\ (base # 8 => p = 2)  BY <1>6
  <2>4. p \in Nat
    <3> HIDE DEF p, base
    <3> QED  BY ONLY <2>3
  <2> HIDE DEF p, t, w, zp, iz, n
  <2> QED  BY ONLY <1>1, <1>8, <1>10, <2>2, <2>4
<1>18. LeftAligned(d) => d.prec <= n + (IF base = 8 THEN 1 ELSE 0)
  <2>1. ~(LeftAligned(d) /\ d.prec > n + (IF OctalHash(d) /\ IsoValue(d) # 0 THEN 1 ELSE 0))
    BY DEF FittingDeparts, LeftLosesZeros
  <2>2. (OctalHash(d) /\ IsoValue(d) # 0) <=> base = 8  BY <1>6
  <2> HIDE DEF n, base
  <2>3. ~(LeftAligned(d) /\ d.prec > n + (IF base = 8 THEN 1 ELSE 0))
    BY ONLY <2>1, <2>2
  <2> QED  BY ONLY <1>1, <1>8, <2>3
<1>19. ~(/\ d.prec < 0 /\ d.prec # NoPrec
         /\ "0" \in d.flags /\ ~LeftAligned(d) /\ w > p + t)
  BY DEF FittingDeparts, NegativePrec
<1>20. ~(base = 8 /\ ~LeftAligned(d) /\ d.prec > n /\ d.prec < BUFSZ)
  BY <1>6 DEF FittingDeparts, OctalPrec
<1>21. LET len == IF zp THEN MaxOf(n, w) ELSE n
       IN  d.prec = NoPrec /\ len = w =>
             /\ base = 16 => ~(len - n < 2)
             /\ base = 8 => ~(len - n < 1)
             /\ base = 2 => len - n = 1
  <2>1. ~PrefixTakesDigits(d) /\ Base(d.conv) # 10
    BY <1>6 DEF FittingDeparts
  <2>2. base = Base(d.conv) /\ IsoValue(d) # 0 /\ "#" \in d.flags  BY <1>6
  <2> HIDE DEF base
  <2>3. base = 16 => base # 8 /\ base # 2  OBVIOUS
  <2>4. base = 8 => base # 16 /\ base # 2  OBVIOUS
  <2>5. base = 2 => base # 16 /\ base # 8  OBVIOUS
  <2> QED  BY ONLY <2>1, <2>2, <2>3, <2>4, <2>5
           DEF PrefixTakesDigits, zp, n, w
<1>22. z = IF IsoZeroed(d) THEN y ELSE 0  OBVIOUS
<1>23. IsoCore(d) = IsoPrefix(d) \o (Zeros(z) \o IsoDigits(d))
  BY <1>6 DEF IsoCore
<1> HIDE DEF k, c, w, p, t, y, iz, n, q, e, m, base, z, zp
<1>24. p \in Nat /\ t \in Nat /\ y \in Nat /\ z \in Nat /\ e \in Nat
  <2>1. p \in Nat  BY ONLY <1>6
  <2>2. t \in Nat /\ e \in Nat  BY ONLY <1>1, <1>10
  <2>3. y \in Nat  BY ONLY <1>8, <1>12, <2>1, <2>2 DEF MaxOf
  <2> QED  BY ONLY <1>22, <2>1, <2>2, <2>3
<1>25. ~zp => z = 0
  <2>1. ASSUME ~zp, IsoZeroed(d) PROVE y = 0
    <3>1. d.prec < 0 /\ d.prec # NoPrec
      BY ONLY <1>8, <1>13, <1>14, <1>15, <1>16, <2>1
    <3>2. w <= p + t  BY ONLY <1>8, <1>13, <1>19, <1>24, <2>1, <3>1
    <3> QED  BY ONLY <1>8, <1>12, <1>24, <3>2 DEF MaxOf
  <2> QED  BY ONLY <1>22, <2>1
<1>26. zp => IsoZeroed(d) /\ z = y /\ IsoPrec(d) = NoPrec
  BY ONLY <1>13, <1>14, <1>15, <1>16, <1>22
(* What is kept are the digits and the zeros ISO C asks for.               *)
<1>27. /\ base # 8 => e = n + z + iz /\ e + 1 < BUFSZ
       /\ base = 8 => \/ e < BUFSZ /\ e + 1 = n + z + iz
                      \/ e = BUFSZ /\ e = n + z + iz
  <2>1. CASE zp
    <3>1. iz = IF base = 8 THEN 1 ELSE 0
      BY ONLY <1>1, <1>11, <1>15, <1>26, <2>1 DEF MaxOf
    <3>2. q = MaxOf(w - n, 0) /\ w <= BUFSZ
      <4>1. q = MaxOf(MinOf(w, BUFSZ) - n, 0)  BY ONLY <1>2, <1>16, <2>1
      <4>2. w <= BUFSZ  BY ONLY <1>17, <2>1
      <4>3. MinOf(w, BUFSZ) = w  BY ONLY <1>8, <4>2 DEF MinOf
      <4> QED  BY ONLY <4>1, <4>2, <4>3
    <3>3. d.prec = NoPrec  BY ONLY <1>16, <2>1
    <3>4. n + q = MaxOf(n, w)  BY ONLY <1>1, <1>8, <3>2 DEF MaxOf
    <3>5. CASE n + q = w
      <4>1. /\ base = 16 => ~(w - n < 2)
            /\ base = 8 => ~(w - n < 1)
            /\ base = 2 => w - n = 1
        BY ONLY <1>21, <2>1, <3>3, <3>4, <3>5
      <4>2. e = MaxOf(w - (IF base = 16 THEN 2 ELSE 1), 0)
        <5>1. e = MaxOf(n + q - (IF base = 16 THEN 2 ELSE 1), 0)
          BY ONLY <1>3, <3>3, <3>5
        <5> QED  BY ONLY <1>1, <1>8, <3>5, <5>1
      <4>3. CASE base = 16
        <5>1. e = w - 2 /\ p = 2 /\ iz = 0
          BY ONLY <1>1, <1>6, <1>8, <3>1, <4>1, <4>2, <4>3 DEF MaxOf
        <5>2. z = w - 2 - n
          BY ONLY <1>1, <1>8, <1>10, <1>12, <1>26, <2>1, <4>1, <4>3, <5>1 DEF MaxOf
        <5> QED  BY ONLY <1>1, <1>8, <3>2, <4>3, <5>1, <5>2
      <4>4. CASE base = 8
        <5>1. e = w - 1 /\ p = 0 /\ iz = 1
          BY ONLY <1>1, <1>6, <1>8, <3>1, <4>1, <4>2, <4>4 DEF MaxOf
        <5>2. z = w - 1 - n
          BY ONLY <1>1, <1>8, <1>10, <1>12, <1>26, <2>1, <4>1, <4>4, <5>1 DEF MaxOf
        <5> QED  BY ONLY <1>1, <1>8, <3>2, <4>4, <5>1, <5>2
      <4>5. CASE base = 2
        <5>1. e = n /\ p = 2 /\ iz = 0
          BY ONLY <1>1, <1>6, <1>8, <3>1, <4>1, <4>2, <4>5 DEF MaxOf
        <5>2. z = 0
          BY ONLY <1>1, <1>8, <1>10, <1>12, <1>26, <2>1, <4>1, <4>5, <5>1 DEF MaxOf
        <5> QED  BY ONLY <1>1, <1>8, <1>10, <1>17, <4>5, <5>1, <5>2
      <4> QED  BY ONLY <1>6, <4>3, <4>4, <4>5
    <3>6. CASE n + q # w
      <4>1. q = 0 /\ w < n  BY ONLY <1>1, <1>8, <3>2, <3>6 DEF MaxOf
      <4>2. e = n  BY ONLY <1>1, <1>3, <3>6, <4>1 DEF MaxOf
      <4>3. z = 0
        BY ONLY <1>1, <1>8, <1>10, <1>12, <1>24, <1>26, <2>1, <4>1 DEF MaxOf
      <4> QED
        BY ONLY <1>1, <1>6, <1>8, <1>10, <1>17, <3>1, <4>2, <4>3
    <3> QED  BY <3>5, <3>6
  <2>2. CASE ~zp
    <3>1. ~(d.prec = NoPrec /\ n + q = w)
      <4>1. SUFFICES ASSUME d.prec = NoPrec, n + q = w PROVE FALSE
        OBVIOUS
      <4>2. q = 0
        <5>1. CASE LeftAligned(d)  BY ONLY <1>2, <5>1
        <5>2. CASE ~LeftAligned(d)
          <6>1. q = MaxOf(MinOf(MaxOf(d.prec, 0), BUFSZ) - n, 0)
            BY ONLY <1>2, <1>16, <2>2, <4>1, <5>2
          <6>2. MaxOf(d.prec, 0) = 0  BY ONLY <1>15, <4>1 DEF MaxOf
          <6>3. MinOf(0, BUFSZ) = 0  BY ONLY <1>8 DEF MinOf
          <6> QED  BY ONLY <1>1, <6>1, <6>2, <6>3 DEF MaxOf
        <5> QED  BY <5>1, <5>2
      <4>3. n = w  BY ONLY <1>1, <4>1, <4>2
      <4>4. n - n = 0  BY ONLY <1>1
      <4>5. /\ base = 16 => ~(n - n < 2)
            /\ base = 8 => ~(n - n < 1)
            /\ base = 2 => n - n = 1
        BY ONLY <1>21, <2>2, <4>1, <4>3
      <4> QED  BY ONLY <1>6, <4>4, <4>5
    <3>2. e = n + q
      <4>1. e = MaxOf(n + q - 0, 0)  BY ONLY <1>3, <3>1
      <4> QED  BY ONLY <1>1, <4>1 DEF MaxOf
    <3>3. z = 0  BY ONLY <1>25, <2>2
    <3>4. CASE LeftAligned(d)
      <4>1. q = 0  BY ONLY <1>2, <3>4
      <4>2. iz = IF base = 8 THEN 1 ELSE 0
        <5>1. IsoPrec(d) <= n + (IF base = 8 THEN 1 ELSE 0) /\ IsoPrec(d) \in Int
          BY ONLY <1>1, <1>8, <1>14, <1>15, <1>18, <3>4
        <5> QED  BY ONLY <1>1, <1>11, <5>1 DEF MaxOf
      <4> QED
        BY ONLY <1>1, <1>6, <1>8, <1>10, <1>17, <3>2, <3>3, <4>1, <4>2
    <3>5. CASE ~LeftAligned(d)
      <4>1. q = MaxOf(MinOf(MaxOf(d.prec, 0), BUFSZ) - n, 0)
        BY ONLY <1>2, <1>16, <2>2, <3>5
      <4>2. CASE base # 8
        <5>1. iz = MaxOf(MaxOf(d.prec, 0) - n, 0)
          BY ONLY <1>1, <1>8, <1>11, <1>14, <1>15, <4>2 DEF MaxOf
        <5>2. p = 2  BY ONLY <1>6, <4>2
        <5>3. q = iz
          BY ONLY <1>1, <1>8, <1>10, <1>17, <4>1, <5>1, <5>2 DEF MaxOf, MinOf
        <5> QED
          BY ONLY <1>1, <1>8, <1>10, <1>17, <3>2, <3>3, <4>2, <5>2, <5>3
      <4>3. CASE base = 8
        <5>1. p = 0  BY ONLY <1>6, <4>3
        <5>2. CASE d.prec <= n
          <6>1. IsoPrec(d) <= n /\ IsoPrec(d) \in Int
            BY ONLY <1>1, <1>8, <1>14, <1>15, <5>2
          <6>2. iz = 1  BY ONLY <1>1, <1>11, <4>3, <6>1 DEF MaxOf
          <6>3. q = 0
            BY ONLY <1>1, <1>8, <4>1, <5>2 DEF MaxOf, MinOf
          <6> QED
            BY ONLY <1>1, <1>8, <1>10, <1>17, <3>2, <3>3, <4>3, <5>1, <6>2, <6>3
        <5>3. CASE d.prec > n
          <6>1. d.prec >= BUFSZ  BY ONLY <1>1, <1>8, <1>20, <3>5, <4>3, <5>3
          <6>2. IsoPrec(d) = d.prec  BY ONLY <1>1, <1>8, <1>14, <5>3
          <6>3. iz = d.prec - n  BY ONLY <1>1, <1>8, <1>11, <4>3, <5>3, <6>2 DEF MaxOf
          <6>4. d.prec = BUFSZ
            BY ONLY <1>1, <1>8, <1>10, <1>17, <5>1, <6>1, <6>3
          <6>5. q = BUFSZ - n
            <7>1. MaxOf(d.prec, 0) = BUFSZ  BY ONLY <1>8, <6>4 DEF MaxOf
            <7>2. MinOf(BUFSZ, BUFSZ) = BUFSZ  BY ONLY <1>8 DEF MinOf
            <7> QED  BY ONLY <1>1, <1>8, <4>1, <7>1, <7>2 DEF MaxOf
          <6> QED
            BY ONLY <1>1, <1>8, <3>2, <3>3, <4>3, <6>3, <6>4, <6>5
        <5> QED  BY ONLY <1>1, <1>8, <5>2, <5>3
      <4> QED  BY <4>2, <4>3
    <3> QED  BY <3>4, <3>5
  <2> QED  BY <2>1, <2>2
<1>28. Zeros(z) \o IsoDigits(d) = Zeros(z + iz) \o MadeString(d)
  <2>1. z \in Nat /\ iz \in Nat /\ Solid(MadeString(d))
    BY ONLY <1>1, <1>10, <1>24
  <2>2. Zeros(z) \o (Zeros(iz) \o MadeString(d)) = Zeros(z + iz) \o MadeString(d)
    BY ONLY <2>1, ZerosTwice
  <2> QED  BY ONLY <1>10, <2>2
<1>29. n <= e \/ (base = 8 /\ e + 1 = n /\ z + iz = 0)
  BY ONLY <1>1, <1>6, <1>10, <1>24, <1>27
<1>30. n <= e
  <2>1. base = 8 => iz > 0
    <3> SUFFICES ASSUME base = 8 PROVE iz > 0
      OBVIOUS
    <3>0. IsoPrec(d) \in Int  BY ONLY <1>8, <1>14, <1>15
    <3>1. iz = MaxOf(IsoPrec(d) - n, 1) /\ IsoPrec(d) \in Int
      BY ONLY <1>1, <1>11, <3>0, base = 8
    <3> QED  BY ONLY <1>1, <3>1 DEF MaxOf
  <2> QED  BY ONLY <1>10, <1>24, <1>29, <2>1
<1>31. OutCore(k, c) = IsoCore(d)
  <2>1. CASE base # 8
    <3>1. OutCore(k, c) = IsoPrefix(d) \o (Zeros(e - n) \o MadeString(d))
      BY ONLY <1>5, <1>27, <1>30, <2>1
    <3>2. e - n = z + iz  BY ONLY <1>1, <1>10, <1>24, <1>27, <2>1
    <3> QED  BY ONLY <1>23, <1>28, <3>1, <3>2
  <2>2. CASE base = 8
    <3> DEFINE r == e - n + (IF e < BUFSZ THEN 1 ELSE 0)
    <3>1. OutCore(k, c) = Zeros(r) \o MadeString(d)
      BY ONLY <1>5, <1>30, <2>2
    <3>2. r = z + iz
      BY ONLY <1>1, <1>8, <1>10, <1>24, <1>27, <2>2
    <3> HIDE DEF r
    <3>3. OutCore(k, c) = Zeros(z + iz) \o MadeString(d)
      BY ONLY <3>1, <3>2
    <3>4. IsSeq(OutCore(k, c))
      <4>1. Solid(b) /\ Len(b) <= BUFSZ  BY PrintfAssumption, AllDigitsMade
      <4> QED  BY <4>1, WrittenForm DEF Solid, k, c
    <3>5. IsoCore(d) = <<>> \o OutCore(k, c)
      BY ONLY <1>6, <1>23, <1>28, <2>2, <3>3
    <3> QED  BY ONLY <3>4, <3>5, ConcatEmpty
  <2> QED  BY <2>1, <2>2
<1>32. m = p + z + t
  <2>0. /\ e \in Nat /\ z \in Nat /\ iz \in Nat /\ n \in Nat /\ p \in Nat
        /\ t = iz + n
    BY ONLY <1>1, <1>10, <1>24
  <2>1. CASE base # 8
    <3>1. m = e + 2 /\ p = 2 /\ e = n + z + iz
      BY ONLY <1>4, <1>6, <1>27, <2>1
    <3> QED  BY ONLY <2>0, <3>1
  <2>2. CASE base = 8
    <3>1. p = 0  BY ONLY <1>6, <2>2
    <3>2. m = IF e < BUFSZ THEN e + 1 ELSE e  BY ONLY <1>4, <2>2
    <3>3. m = n + z + iz
      <4>1. CASE e < BUFSZ /\ e + 1 = n + z + iz  BY ONLY <3>2, <4>1
      <4>2. CASE e = BUFSZ /\ e = n + z + iz
        <5>1. ~(e < BUFSZ)  BY ONLY <1>8, <4>2
        <5> QED  BY ONLY <3>2, <4>2, <5>1
      <4> QED  BY ONLY <1>27, <2>2, <4>1, <4>2
    <3> QED  BY ONLY <2>0, <3>1, <3>3
  <2> QED  BY <2>1, <2>2
<1>33. OutGap(k, c) = MaxOf(w - m, 0)
  <2>1. Len(<<>>) = 0  BY ShortStrings
  <2>2. OutGap(k, c) = MaxOf(PadWidth(k) - (OutBlank(k, c) + Len(OutSign(k, c)) + Len(c)), 0)
    BY DEF OutGap
  <2>3. OutBlank(k, c) = 0 /\ Len(OutSign(k, c)) = 0 /\ PadWidth(k) = w
    BY ONLY <1>6, <2>1
  <2>4. m = Len(c) /\ m \in Nat  BY ONLY <1>10, <1>24, <1>32 DEF m
  <2> QED  BY ONLY <1>8, <2>2, <2>3, <2>4
<1>34. OutLead(k, c) = IsoLead(d) /\ OutTail(k, c) = IsoTail(d)
  <2>1. CASE zp
    <3>1. "-" \notin k.flags /\ "0" \in k.flags /\ ~LeftAligned(d) /\ IsoZeroed(d)
      BY ONLY <1>7, <1>16, <1>26, <2>1
    <3> QED  BY ONLY <1>6, <3>1 DEF OutLead, OutTail, IsoLead, IsoTail
  <2>2. CASE ~zp
    <3>1. OutGap(k, c) = y
      <4>1. w - m = w - p - t
        BY ONLY <1>8, <1>24, <1>25, <1>32, <2>2
      <4> QED  BY ONLY <1>12, <1>33, <4>1
    <3>2. IsoZeroed(d) => y = 0  BY ONLY <1>22, <1>25, <2>2
    <3>3. CASE LeftAligned(d)
      <4>1. "-" \in k.flags  BY ONLY <1>7, <3>3
      <4> QED  BY ONLY <1>6, <3>1, <3>3, <4>1
               DEF OutLead, OutTail, IsoLead, IsoTail, y
    <3>4. CASE ~LeftAligned(d)
      <4>1. "-" \notin k.flags /\ "0" \notin k.flags
        BY ONLY <1>7, <1>16, <2>2, <3>4
      <4>2. (IF LeftAligned(d) \/ IsoZeroed(d) THEN 0 ELSE y) = y
        BY ONLY <3>2, <3>4
      <4> QED  BY ONLY <1>6, <3>1, <3>4, <4>1, <4>2
               DEF OutLead, OutTail, IsoLead, IsoTail, y
    <3> QED  BY <3>3, <3>4
  <2> QED  BY <2>1, <2>2
<1>35. Solid(b) /\ Len(b) <= BUFSZ  BY PrintfAssumption, AllDigitsMade
<1> QED  BY <1>31, <1>34, <1>35, SameText DEF k, c

(* Where a `#' prefix is written and a departure applies, the core has the *)
(* wrong length or begins with the letter of the prefix.                   *)
LEMMA HashDiffers ==
  ASSUME NEW d, IntDirective(d), ~CharUnsigned(d), ~BufferShort(d),
         NEW b, DigitsMade(d, b), "#" \in Conversion(d).flags,
         FittingDeparts(d)
  PROVE  Written(d, b) # IsoNumber(d)
<1> DEFINE k == Conversion(d)
           c == Prefixed(d, b)
           w == Columns(d)
           p == Len(IsoPrefix(d))
           t == Len(IsoDigits(d))
           y == IsoGap(d)
           iz == IsoZeros(d)
           n == MadeDigits(d)
           q == ZerosAdded(k, n)
           e == PrefixKept(k, Padded(d, b))
           m == Len(c)
           base == k.base
           z == IF IsoZeroed(d) THEN y ELSE 0
           zp == ZeroPadded(d)
           len == IF zp THEN MaxOf(n, w) ELSE n
<1>0. HashFacts(d, k, c, w, n, q, e)  BY HashSizes
<1>1. q \in Nat /\ n \in Nat \ {0} /\ n + q <= BUFSZ /\ e \in 0..n + q
  BY ONLY <1>0 DEF HashFacts
<1>2. q = IF LeftAligned(d) THEN 0
          ELSE MaxOf(MinOf(IF "0" \in d.flags /\ d.prec = NoPrec
                           THEN w ELSE MaxOf(d.prec, 0), BUFSZ) - n, 0)
  BY ONLY <1>0 DEF HashFacts
<1>3. e = MaxOf(n + q - (IF ~(d.prec = NoPrec /\ n + q = w)
                         THEN 0 ELSE IF base = 16 THEN 2 ELSE 1), 0)
  BY ONLY <1>0 DEF HashFacts
<1>4. /\ base = 8 => m = IF e < BUFSZ THEN e + 1 ELSE e
      /\ base # 8 => m = IF e + 1 < BUFSZ THEN e + 2
                         ELSE IF e < BUFSZ THEN e + 1 ELSE e
      /\ Len(OutCore(k, c)) = m
  BY ONLY <1>0 DEF HashFacts
<1>5. base # 8 /\ e < BUFSZ /\ ~(e + 1 < BUFSZ) =>
        \E s : OutCore(k, c) = <<Letter(k)>> \o s /\ IsSeq(s)
  BY ONLY <1>0 DEF HashFacts
<1>6. /\ base = Base(d.conv) /\ base \in {2, 8, 16} /\ IsoValue(d) # 0
      /\ IsoSign(d) = IsoPrefix(d)
      /\ base # 8 => IsoPrefix(d) = <<"0", Letter(k)>> /\ p = 2
      /\ base = 8 => p = 0
      /\ OctalHash(d) <=> base = 8
  BY HashPrefix
<1>7. d.prec \in Int /\ w \in Nat /\ BUFSZ \in Nat \ {0}
  BY PrintfAssumption, IsoValueIs
<1>8. ~NoDigitMade(d)  BY <1>6 DEF NoDigitMade
<1>9. /\ IsoDigits(d) = Zeros(iz) \o MadeString(d) /\ t = iz + n /\ iz \in Nat
      /\ Solid(IsoDigits(d))
  BY <1>8, IsoDigitsAre
<1>10. iz = MaxOf(IsoPrec(d) - n, IF base = 8 THEN 1 ELSE 0)
  BY <1>6 DEF IsoZeros
<1>11. y = MaxOf(w - p - t, 0)  BY DEF IsoGap
<1>12. IsoZeroed(d) <=> ~LeftAligned(d) /\ "0" \in d.flags /\ IsoPrec(d) = NoPrec
  BY DEF IsoZeroed
<1>13. IsoPrec(d) = IF d.prec < 0 THEN NoPrec ELSE d.prec  BY DEF IsoPrec
<1>14. NoPrec \in Int /\ NoPrec < 0  BY NoPrecIs
<1>15. zp <=> "0" \in d.flags /\ ~LeftAligned(d) /\ d.prec = NoPrec
  BY DEF ZeroPadded
<1>16. zp => w <= BUFSZ
  <2>1. ~(zp /\ w > BUFSZ)  BY DEF BufferShort
  <2> HIDE DEF zp, w
  <2> QED  BY ONLY <1>7, <2>1
<1>17. z = IF IsoZeroed(d) THEN y ELSE 0  OBVIOUS
<1>18. Len(IsoCore(d)) = p + z + t
  <2>1. Len(IsoSign(d)) = p  BY <1>6
  <2>2. Len(IsoCore(d)) = Len(IsoSign(d)) + z + t  BY IsoForm
  <2> QED  BY ONLY <2>1, <2>2
<1>19. IsoCore(d) = IsoPrefix(d) \o (Zeros(z) \o IsoDigits(d))
  BY <1>6 DEF IsoCore
<1>20. \/ /\ d.prec < 0 /\ d.prec # NoPrec
          /\ "0" \in d.flags /\ ~LeftAligned(d) /\ w > p + t
       \/ LeftAligned(d) /\ d.prec > n + (IF base = 8 THEN 1 ELSE 0)
       \/ /\ d.prec = NoPrec /\ len = w
          /\ base = 16 => len - n < 2
          /\ base = 8 => len - n < 1
          /\ base = 2 => len - n # 1
       \/ base = 8 /\ ~LeftAligned(d) /\ d.prec > n /\ d.prec < BUFSZ
  <2>1. CASE NegativePrec(d)
    <3>1. /\ d.prec < 0 /\ d.prec # NoPrec
          /\ "0" \in d.flags /\ ~LeftAligned(d) /\ w > p + t
      BY <1>6, <2>1 DEF NegativePrec
    <3> HIDE DEF w, p, t
    <3> QED  BY ONLY <3>1
  <2>2. CASE LeftLosesZeros(d)
    <3>1. /\ LeftAligned(d)
          /\ d.prec > n + (IF OctalHash(d) /\ IsoValue(d) # 0 THEN 1 ELSE 0)
      BY <2>2 DEF LeftLosesZeros
    <3>2. (OctalHash(d) /\ IsoValue(d) # 0) <=> base = 8  BY <1>6
    <3> HIDE DEF n, base
    <3>3. LeftAligned(d) /\ d.prec > n + (IF base = 8 THEN 1 ELSE 0)
      BY ONLY <3>1, <3>2
    <3> QED  BY ONLY <3>3
  <2>3. CASE PrefixTakesDigits(d)
    <3>1. base = Base(d.conv)  BY <1>6
    <3>2. 16 # 8 /\ 16 # 2 /\ 8 # 2  OBVIOUS
    <3> HIDE DEF base
    <3>3. /\ d.prec = NoPrec /\ len = w
          /\ CASE base = 16 -> len - n < 2
               [] base = 8 -> len - n < 1
               [] base = 2 -> len - n # 1
      BY ONLY <2>3, <3>1 DEF PrefixTakesDigits, len, zp, n, w
    <3> HIDE DEF len, n, w
    <3>4. CASE base = 16  BY ONLY <3>2, <3>3, <3>4
    <3>5. CASE base = 8  BY ONLY <3>2, <3>3, <3>5
    <3>6. CASE base = 2  BY ONLY <3>2, <3>3, <3>6
    <3> QED  BY ONLY <1>6, <3>4, <3>5, <3>6
  <2>4. CASE OctalPrec(d)
    <3>1. base = 8 /\ ~LeftAligned(d) /\ d.prec > n /\ d.prec < BUFSZ
      BY <1>6, <2>4 DEF OctalPrec
    <3> HIDE DEF n, base
    <3> QED  BY ONLY <3>1
  <2> QED  BY ONLY <2>1, <2>2, <2>3, <2>4, FittingDeparts(d) DEF FittingDeparts
<1>21. len = IF zp THEN MaxOf(n, w) ELSE n  OBVIOUS
<1>22. Solid(b) /\ Len(b) <= BUFSZ  BY PrintfAssumption, AllDigitsMade
<1>23. Written(d, b) = IsoNumber(d) =>
         /\ Len(OutCore(k, c)) = Len(IsoCore(d))
         /\ Len(IsoCore(d)) > 0 => OutCore(k, c) = IsoCore(d)
  BY <1>22, SameText
<1> HIDE DEF k, c, w, p, t, y, iz, n, q, e, m, base, z, zp, len
<1>24. p \in Nat /\ t \in Nat /\ y \in Nat /\ z \in Nat /\ e \in Nat
  <2>1. p \in Nat  BY ONLY <1>6
  <2>2. t \in Nat /\ e \in Nat  BY ONLY <1>1, <1>9
  <2>3. y \in Nat  BY ONLY <1>7, <1>11, <2>1, <2>2 DEF MaxOf
  <2> QED  BY ONLY <1>17, <2>1, <2>2, <2>3
(* m never has more than the prefix beyond what is kept.                   *)
<1>25. m \in Nat /\ (base = 8 => m <= e + 1) /\ (base # 8 => m <= e + 2)
  <2>1. CASE base = 8  BY ONLY <1>4, <1>24, <2>1
  <2>2. CASE base # 8  BY ONLY <1>4, <1>24, <2>2
  <2> QED  BY ONLY <2>1, <2>2
<1>26. d.prec # NoPrec => e = n + q
  <2>1. SUFFICES ASSUME d.prec # NoPrec PROVE e = n + q
    OBVIOUS
  <2>2. e = MaxOf(n + q - 0, 0)  BY ONLY <1>3, <2>1
  <2> QED  BY ONLY <1>1, <2>2 DEF MaxOf
<1>27. CASE /\ d.prec < 0 /\ d.prec # NoPrec
            /\ "0" \in d.flags /\ ~LeftAligned(d) /\ w > p + t
  <2>1. q = MaxOf(MinOf(0, BUFSZ) - n, 0)
    <3>1. MaxOf(d.prec, 0) = 0  BY ONLY <1>7, <1>27 DEF MaxOf
    <3> QED  BY ONLY <1>2, <1>27, <3>1
  <2>2. q = 0  BY ONLY <1>1, <1>7, <2>1 DEF MaxOf, MinOf
  <2>3. z = y  BY ONLY <1>12, <1>13, <1>17, <1>27
  <2>4. y > 0
    <3>1. w - p - t > 0 /\ w - p - t \in Int  BY ONLY <1>7, <1>24, <1>27
    <3> QED  BY ONLY <1>11, <3>1 DEF MaxOf
  <2>5. e = n  BY ONLY <1>1, <1>26, <1>27, <2>2
  <2>6. m < p + z + t
    <3>1. CASE base = 8
      <4>1. iz >= 1
        <5>1. IsoPrec(d) \in Int  BY ONLY <1>7, <1>13, <1>14
        <5>2. iz = MaxOf(IsoPrec(d) - n, 1)  BY ONLY <1>10, <3>1
        <5> QED  BY ONLY <1>1, <5>1, <5>2 DEF MaxOf
      <4>2. m <= n + 1  BY ONLY <1>25, <2>5, <3>1
      <4> QED  BY ONLY <1>1, <1>9, <1>24, <1>25, <2>3, <2>4, <4>1, <4>2
    <3>2. CASE base # 8
      <4>1. p = 2  BY ONLY <1>6, <3>2
      <4>2. m <= n + 2  BY ONLY <1>25, <2>5, <3>2
      <4> QED  BY ONLY <1>1, <1>9, <1>24, <1>25, <2>3, <2>4, <4>1, <4>2
    <3> QED  BY <3>1, <3>2
  <2>7. m # p + z + t  BY ONLY <1>24, <1>25, <2>6
  <2> QED  BY ONLY <1>4, <1>18, <1>23, <2>7
<1>28. CASE LeftAligned(d) /\ d.prec > n + (IF base = 8 THEN 1 ELSE 0)
  <2>1. q = 0  BY ONLY <1>2, <1>28
  <2>2. d.prec > 0 /\ d.prec # NoPrec /\ IsoPrec(d) = d.prec
    <3>1. d.prec > 0
      <4>1. CASE base = 8  BY ONLY <1>1, <1>7, <1>28, <4>1
      <4>2. CASE base # 8  BY ONLY <1>1, <1>7, <1>28, <4>2
      <4> QED  BY ONLY <4>1, <4>2
    <3> QED  BY ONLY <1>7, <1>13, <1>14, <3>1
  <2>3. e = n  BY ONLY <1>1, <1>26, <2>1, <2>2
  <2>4. m < p + z + t
    <3>1. CASE base = 8
      <4>1. d.prec > n + 1 /\ iz = MaxOf(d.prec - n, 1)
        BY ONLY <1>10, <1>28, <2>2, <3>1
      <4>2. iz > 1  BY ONLY <1>1, <1>7, <4>1 DEF MaxOf
      <4>3. m <= n + 1  BY ONLY <1>25, <2>3, <3>1
      <4> QED  BY ONLY <1>1, <1>9, <1>24, <1>25, <4>2, <4>3
    <3>2. CASE base # 8
      <4>1. d.prec > n + 0 /\ iz = MaxOf(d.prec - n, 0)
        BY ONLY <1>10, <1>28, <2>2, <3>2
      <4>2. iz > 0  BY ONLY <1>1, <1>7, <4>1 DEF MaxOf
      <4>3. m <= n + 2 /\ p = 2  BY ONLY <1>6, <1>25, <2>3, <3>2
      <4> QED  BY ONLY <1>1, <1>9, <1>24, <1>25, <4>2, <4>3
    <3> QED  BY <3>1, <3>2
  <2>5. m # p + z + t  BY ONLY <1>24, <1>25, <2>4
  <2> QED  BY ONLY <1>4, <1>18, <1>23, <2>5
<1>29. CASE /\ d.prec = NoPrec /\ len = w
            /\ base = 16 => len - n < 2
            /\ base = 8 => len - n < 1
            /\ base = 2 => len - n # 1
  <2>1. n + q = w
    <3>1. CASE zp
      <4>1. q = MaxOf(MinOf(w, BUFSZ) - n, 0)  BY ONLY <1>2, <1>15, <3>1
      <4>2. w <= BUFSZ  BY ONLY <1>16, <3>1
      <4>3. MinOf(w, BUFSZ) = w  BY ONLY <1>7, <4>2 DEF MinOf
      <4>4. q = MaxOf(w - n, 0)  BY ONLY <4>1, <4>3
      <4>5. MaxOf(n, w) = w  BY ONLY <1>21, <1>29, <3>1
      <4> QED  BY ONLY <1>1, <1>7, <4>4, <4>5 DEF MaxOf
    <3>2. CASE ~zp
      <4>1. n = w  BY ONLY <1>21, <1>29, <3>2
      <4>2. q = 0
        <5>1. CASE LeftAligned(d)  BY ONLY <1>2, <5>1
        <5>2. CASE ~LeftAligned(d)
          <6>1. q = MaxOf(MinOf(MaxOf(d.prec, 0), BUFSZ) - n, 0)
            BY ONLY <1>2, <1>15, <1>29, <3>2, <5>2
          <6>2. MaxOf(d.prec, 0) = 0  BY ONLY <1>14, <1>29 DEF MaxOf
          <6>3. MinOf(0, BUFSZ) = 0  BY ONLY <1>7 DEF MinOf
          <6>4. q = MaxOf(0 - n, 0)  BY ONLY <6>1, <6>2, <6>3
          <6> QED  BY ONLY <1>1, <6>4 DEF MaxOf
        <5> QED  BY <5>1, <5>2
      <4> QED  BY ONLY <1>1, <4>1, <4>2
    <3> QED  BY <3>1, <3>2
  <2>2. w >= n /\ w <= BUFSZ  BY ONLY <1>1, <1>7, <2>1
  <2>3. e = MaxOf(w - (IF base = 16 THEN 2 ELSE 1), 0)
    <3>1. e = MaxOf(n + q - (IF base = 16 THEN 2 ELSE 1), 0)
      BY ONLY <1>3, <1>29, <2>1
    <3> QED  BY ONLY <1>1, <1>7, <2>1, <3>1
  <2>4. IsoPrec(d) = NoPrec /\ iz = IF base = 8 THEN 1 ELSE 0
    <3>1. IsoPrec(d) = NoPrec  BY ONLY <1>13, <1>29
    <3> QED  BY ONLY <1>1, <1>10, <1>14, <3>1 DEF MaxOf
  <2>5. CASE base = 16
    <3>1. p = 2 /\ iz = 0 /\ w < n + 2
      BY ONLY <1>1, <1>6, <1>7, <1>29, <2>4, <2>5
    <3>2. e = MaxOf(w - 2, 0) /\ m <= e + 2  BY ONLY <1>25, <2>3, <2>5
    <3>3. m < n + 2  BY ONLY <1>1, <1>7, <1>25, <3>1, <3>2 DEF MaxOf
    <3>4. m # p + z + t  BY ONLY <1>1, <1>9, <1>24, <1>25, <3>1, <3>3
    <3> QED  BY ONLY <1>4, <1>18, <1>23, <3>4
  <2>6. CASE base = 8
    <3>1. iz = 1 /\ w < n + 1 /\ m <= e + 1
      BY ONLY <1>1, <1>7, <1>25, <1>29, <2>4, <2>6
    <3>2. e = MaxOf(w - 1, 0)  BY ONLY <2>3, <2>6
    <3>3. m < n + 1  BY ONLY <1>1, <1>7, <1>25, <3>1, <3>2 DEF MaxOf
    <3>4. m # p + z + t  BY ONLY <1>1, <1>9, <1>24, <1>25, <3>1, <3>3
    <3> QED  BY ONLY <1>4, <1>18, <1>23, <3>4
  <2>7. CASE base = 2
    <3>1. p = 2 /\ iz = 0 /\ w # n + 1 /\ m <= e + 2
      BY ONLY <1>1, <1>6, <1>7, <1>25, <1>29, <2>4, <2>7
    <3>2. e = w - 1
      <4>1. e = MaxOf(w - 1, 0)  BY ONLY <2>3, <2>7
      <4> QED  BY ONLY <1>1, <1>7, <2>2, <4>1 DEF MaxOf
    <3>3. CASE w = n
      <4>1. m < n + 2  BY ONLY <1>1, <1>7, <1>25, <3>1, <3>2, <3>3
      <4>2. m # p + z + t  BY ONLY <1>1, <1>9, <1>24, <1>25, <3>1, <4>1
      <4> QED  BY ONLY <1>4, <1>18, <1>23, <4>2
    <3>4. CASE w # n
      <4>1. w >= n + 2 /\ len # n  BY ONLY <1>1, <1>7, <1>29, <2>2, <3>1, <3>4
      <4>2. zp  BY ONLY <1>21, <4>1
      <4>3. z = y
        BY ONLY <1>12, <1>15, <1>17, <2>4, <4>2
      <4>4. y = w - 2 - n
        BY ONLY <1>1, <1>7, <1>9, <1>11, <3>1, <4>1 DEF MaxOf
      <4>5. p + z + t = w
        BY ONLY <1>1, <1>7, <1>9, <3>1, <4>3, <4>4
      <4>6. CASE w < BUFSZ
        <5>1. e + 1 < BUFSZ  BY ONLY <1>7, <3>2, <4>6
        <5>2. m = e + 2  BY ONLY <1>4, <2>7, <5>1
        <5>3. m # w  BY ONLY <1>7, <3>2, <5>2
        <5> QED  BY ONLY <1>4, <1>18, <1>23, <4>5, <5>3
      <4>7. CASE w = BUFSZ
        <5>1. e < BUFSZ /\ ~(e + 1 < BUFSZ)  BY ONLY <1>7, <3>2, <4>7
        <5>2. PICK s : OutCore(k, c) = <<Letter(k)>> \o s /\ IsSeq(s)
          <6>1. base # 8  BY ONLY <2>7
          <6> QED  BY ONLY <1>5, <5>1, <6>1
        <5>3. Letter(k) = "b"  BY ONLY <2>7 DEF Letter, base
        <5>4. OutCore(k, c)[1] = "b"
          <6>1. (<<Letter(k)>> \o s)[1] = Letter(k)  BY <5>2, InFront
          <6> QED  BY ONLY <5>2, <5>3, <6>1
        <5>5. IsoCore(d)[1] = "0"
          <6> DEFINE r == Zeros(z) \o IsoDigits(d)
          <6>1. IsSeq(r)
            <7>1. Solid(Zeros(z))  BY <1>24, SolidIs
            <7>2. Solid(r)  BY <1>9, <7>1, SolidConcat
            <7> QED  BY <7>2 DEF Solid
          <6>2. IsoPrefix(d) = <<"0", Letter(k)>>  BY ONLY <1>6, <2>7
          <6> HIDE DEF r
          <6>3. <<"0", Letter(k)>> \o r = <<"0">> \o (<<Letter(k)>> \o r)
            BY <6>1, TwoInFront
          <6>4. IsSeq(<<Letter(k)>> \o r)  BY <6>1, InFront
          <6>5. (<<"0">> \o (<<Letter(k)>> \o r))[1] = "0"  BY <6>4, InFront
          <6>6. IsoCore(d) = IsoPrefix(d) \o r  BY <1>19 DEF r
          <6> QED  BY ONLY <6>2, <6>3, <6>5, <6>6
        <5>6. OutCore(k, c) # IsoCore(d)
          <6>1. "b" # "0"  OBVIOUS
          <6> QED  BY ONLY <5>4, <5>5, <6>1
        <5>7. Len(IsoCore(d)) > 0  BY ONLY <1>7, <1>18, <4>5, <4>7
        <5> QED  BY ONLY <1>23, <5>6, <5>7
      <4> QED  BY ONLY <1>7, <2>2, <4>6, <4>7
    <3> QED  BY ONLY <3>3, <3>4
  <2> QED  BY ONLY <1>6, <2>5, <2>6, <2>7
<1>30. CASE base = 8 /\ ~LeftAligned(d) /\ d.prec > n /\ d.prec < BUFSZ
  <2>1. d.prec > 0 /\ d.prec # NoPrec /\ IsoPrec(d) = d.prec
    <3>1. d.prec > 0  BY ONLY <1>1, <1>7, <1>30
    <3> QED  BY ONLY <1>7, <1>13, <1>14, <3>1
  <2>2. iz = d.prec - n
    <3>1. iz = MaxOf(d.prec - n, 1)  BY ONLY <1>10, <1>30, <2>1
    <3> QED  BY ONLY <1>1, <1>7, <1>30, <3>1 DEF MaxOf
  <2>3. z = 0  BY ONLY <1>12, <1>17, <2>1
  <2>4. q = d.prec - n
    <3>1. q = MaxOf(MinOf(MaxOf(d.prec, 0), BUFSZ) - n, 0)
      BY ONLY <1>2, <1>30, <2>1
    <3>2. MaxOf(d.prec, 0) = d.prec  BY ONLY <1>7, <2>1 DEF MaxOf
    <3>3. MinOf(d.prec, BUFSZ) = d.prec  BY ONLY <1>7, <1>30 DEF MinOf
    <3>4. q = MaxOf(d.prec - n, 0)  BY ONLY <3>1, <3>2, <3>3
    <3> QED  BY ONLY <1>1, <1>7, <1>30, <3>4 DEF MaxOf
  <2>5. e = d.prec  BY ONLY <1>1, <1>7, <1>26, <2>1, <2>4
  <2>6. m = e + 1  BY ONLY <1>4, <1>30, <2>5
  <2>7. p = 0  BY ONLY <1>6, <1>30
  <2>8. m # p + z + t
    BY ONLY <1>1, <1>7, <1>9, <2>2, <2>3, <2>5, <2>6, <2>7
  <2> QED  BY ONLY <1>4, <1>18, <1>23, <2>8
<1> QED  BY ONLY <1>20, <1>27, <1>28, <1>29, <1>30

(* An integer comes out as ISO C has it unless a departure applies.        *)
LEMMA NumberDeparts ==
  ASSUME NEW d, IntDirective(d), NEW b, DigitsMade(d, b)
  PROVE  Written(d, b) = IsoNumber(d) <=> ~Departs(d)
<1>1. ~IsText(d)  BY DEF IntDirective, IsText
<1>2. Departs(d) <=> CharUnsigned(d) \/ BufferShort(d) \/ FittingDeparts(d)
  BY ONLY <1>1 DEF Departs, FittingDeparts
<1>3. Digital(b) /\ Solid(b) /\ Len(b) <= BUFSZ
  BY SolidIs DEF DigitsMade
<1>4. CASE CharUnsigned(d)  BY <1>2, <1>3, <1>4, CharDiffers
<1>5. CASE BufferShort(d)  BY <1>2, <1>3, <1>5, BufferDiffers
<1>6. CASE ~CharUnsigned(d) /\ ~BufferShort(d) /\ FittingDeparts(d)
  <2>1. CASE "#" \in Conversion(d).flags
    <3>1. Written(d, b) # IsoNumber(d)  BY <1>6, <2>1, HashDiffers
    <3> QED  BY ONLY <1>2, <1>6, <3>1
  <2>2. CASE "#" \notin Conversion(d).flags
    <3>1. Written(d, b) # IsoNumber(d)  BY <1>6, <2>2, PlainDiffers
    <3> QED  BY ONLY <1>2, <1>6, <3>1
  <2> QED  BY ONLY <2>1, <2>2
<1>7. CASE ~CharUnsigned(d) /\ ~BufferShort(d) /\ ~FittingDeparts(d)
  <2>1. CASE "#" \in Conversion(d).flags
    <3>1. Written(d, b) = IsoNumber(d)  BY <1>7, <2>1, HashConforms
    <3> QED  BY ONLY <1>2, <1>7, <3>1
  <2>2. CASE "#" \notin Conversion(d).flags
    <3>1. Written(d, b) = IsoNumber(d)  BY <1>7, <2>2, PlainConforms
    <3> QED  BY ONLY <1>2, <1>7, <3>1
  <2> QED  BY ONLY <2>1, <2>2
<1> QED  BY ONLY <1>4, <1>5, <1>6, <1>7

-----------------------------------------------------------------------------
(* Strings and characters.                                                 *)

(* A directive for text: a character outside any directive has no fields.  *)
TextDirective(d) ==
  /\ Matches(d) /\ d.conv \in TextConversions /\ d.flags \subseteq FlagChars
  /\ d.conv = "text" => d.width = 0

TextWritten(d) == IF d.conv = "text" THEN d.arg ELSE OutString(d, d.arg)

(* A string with blanks on one side.                                       *)
Aside(left, s, n) == IF left THEN s \o Repeat(" ", n) ELSE Repeat(" ", n) \o s

(* Blanks, and no more than w of them.                                     *)
BlankIn(s, w) == Len(s) <= w /\ \A i \in DOMAIN s : s[i] = " "

(* Such a string has the width, and shows unless s is blank.               *)
LEMMA AsideHas ==
  ASSUME NEW left \in BOOLEAN, NEW s, IsSeq(s), NEW w \in Nat
  PROVE  /\ Len(s) \in Nat /\ IsSeq(Aside(left, s, w - Len(s)))
         /\ Len(Aside(left, s, w - Len(s))) = MaxOf(w, Len(s))
         /\ Aside(left, s, w - Len(s)) = Blanks(w) <=> BlankIn(s, w)
         /\ w = 0 => Aside(left, s, w - Len(s)) = s
<1> DEFINE n == Len(s)
           x == MaxOf(w - n, 0)
           r == Repeat(" ", w - n)
           a == Aside(left, s, w - n)
<1>1. n \in Nat /\ DOMAIN s = 1..n  BY StringIs DEF IsSeq
<1>2. x \in Nat /\ n + x = MaxOf(w, n)  BY <1>1 DEF MaxOf
<1>3. r = Blanks(x) /\ w - n \in Int
  <2>1. w - n \in Int  BY <1>1
  <2> QED  BY <2>1, RepeatClipped
<1>4. IsSeq(r) /\ Len(r) = x /\ \A i \in 1..x : r[i] = " "
  <2> HIDE DEF x, r
  <2> QED  BY <1>2, <1>3, PaddingHas
<1>5. a = IF left THEN s \o r ELSE r \o s  BY DEF Aside
<1> HIDE DEF n, x, r, a
<1>6. /\ IsSeq(s \o r) /\ Len(s \o r) = n + x
      /\ \A i \in 1..n + x : (s \o r)[i] = IF i <= n THEN s[i] ELSE r[i - n]
      /\ IsSeq(r \o s) /\ Len(r \o s) = x + n
      /\ \A i \in 1..x + n : (r \o s)[i] = IF i <= x THEN r[i] ELSE s[i - x]
  <2>1. Len(s) = n  BY DEF n
  <2>2. /\ IsSeq(s \o r) /\ Len(s \o r) = Len(s) + Len(r)
        /\ \A i \in 1..Len(s) + Len(r) :
             (s \o r)[i] = IF i <= Len(s) THEN s[i] ELSE r[i - Len(s)]
    BY <1>4, Concatenation
  <2>3. /\ IsSeq(r \o s) /\ Len(r \o s) = Len(r) + Len(s)
        /\ \A i \in 1..Len(r) + Len(s) :
             (r \o s)[i] = IF i <= Len(r) THEN r[i] ELSE s[i - Len(r)]
    BY <1>4, Concatenation
  <2> QED  BY ONLY <1>4, <2>1, <2>2, <2>3
<1>7. IsSeq(a) /\ Len(a) = n + x
  <2>1. x + n = n + x  BY ONLY <1>1, <1>2
  <2> QED  BY ONLY <1>5, <1>6, <2>1
(* Every character of s is one of a.                                       *)
<1>8. ASSUME \A i \in 1..n + x : a[i] = " "
      PROVE  \A i \in 1..n : s[i] = " "
  <2>1. CASE left
    <3>1. \A i \in 1..n : i \in 1..n + x /\ i <= n  BY ONLY <1>1, <1>2
    <3> QED  BY ONLY <1>5, <1>6, <1>8, <2>1, <3>1
  <2>2. CASE ~left
    <3>1. \A i \in 1..n : /\ i + x \in 1..x + n /\ ~(i + x <= x)
                          /\ (i + x) - x = i /\ i + x \in 1..n + x
      BY ONLY <1>1, <1>2
    <3> QED  BY ONLY <1>5, <1>6, <1>8, <2>2, <3>1
  <2> QED  BY <2>1, <2>2
<1>9. ASSUME \A i \in 1..n : s[i] = " "
      PROVE  \A i \in 1..n + x : a[i] = " "
  <2>1. CASE left
    <3>1. \A i \in 1..n + x : (i <= n /\ i \in 1..n) \/ (~(i <= n) /\ i - n \in 1..x)
      BY ONLY <1>1, <1>2
    <3> QED  BY ONLY <1>4, <1>5, <1>6, <1>9, <2>1, <3>1
  <2>2. CASE ~left
    <3>1. \A i \in 1..n + x : /\ i \in 1..x + n
                              /\ \/ i <= x /\ i \in 1..x
                                 \/ ~(i <= x) /\ i - x \in 1..n
      BY ONLY <1>1, <1>2
    <3> QED  BY ONLY <1>4, <1>5, <1>6, <1>9, <2>2, <3>1
  <2> QED  BY <2>1, <2>2
<1>10. /\ IsSeq(Blanks(w)) /\ Len(Blanks(w)) = w
       /\ \A i \in 1..w : Blanks(w)[i] = " "
  BY PaddingHas
<1>11. n <= w <=> n + x = w  BY ONLY <1>1, <1>2, w \in Nat DEF MaxOf
<1>12. ASSUME n <= w, \A i \in 1..n : s[i] = " "
       PROVE  a = Blanks(w)
  <2>1. n + x = w  BY ONLY <1>11, <1>12
  <2>2. \A i \in 1..w : a[i] = " "  BY ONLY <1>9, <1>12, <2>1
  <2>3. Len(a) = w  BY ONLY <1>7, <2>1
  <2> HIDE DEF Blanks
  <2>4. \A i \in 1..Len(a) : a[i] = Blanks(w)[i]  BY ONLY <1>10, <2>2, <2>3
  <2> QED  BY <1>7, <1>10, <2>3, <2>4, SameString
<1>13. ASSUME a = Blanks(w)
       PROVE  n <= w /\ \A i \in 1..n : s[i] = " "
  <2>1. n + x = w  BY ONLY <1>7, <1>10, <1>13
  <2>2. \A i \in 1..n + x : a[i] = " "  BY ONLY <1>10, <1>13, <2>1
  <2> QED  BY ONLY <1>8, <1>11, <2>1, <2>2
<1>15. ASSUME w = 0 PROVE a = s
  <2>1. x = 0  BY <1>1, <1>15 DEF x, MaxOf
  <2>2. r = <<>>  BY <1>4, <2>1, EmptyString
  <2> QED  BY <1>5, <2>2, ConcatEmpty
<1> QED
  <2>1. a = Blanks(w) <=> BlankIn(s, w)
    BY ONLY <1>1, <1>12, <1>13 DEF BlankIn, n
  <2> QED  BY ONLY <1>1, <1>2, <1>7, <1>15, <2>1 DEF n, a

(* A string or character comes out as ISO C has it unless its precision is *)
(* negative and it shows.                                                  *)
LEMMA TextDeparts ==
  ASSUME NEW d, TextDirective(d)
  PROVE  TextWritten(d) = IsoText(d) <=> ~Departs(d)
<1> DEFINE s == d.arg
           w == Columns(d)
           left == LeftAligned(d)
           f == Fields(d)
           n == Len(s)
<1>1. /\ d.width \in Int /\ d.prec \in Int /\ IsSeq(s)
      /\ d.conv \in {"text", "c", "s"}
      /\ d.flags \subseteq FlagChars
  BY DEF TextDirective, Matches, TextConversions
<1>2. /\ n \in Nat /\ w \in Nat /\ left \in BOOLEAN /\ DOMAIN s = 1..n
  BY <1>1, StringIs DEF Columns, MaxOf, LeftAligned, IsSeq
<1>3. /\ f.width = w /\ f.prec = MaxOf(d.prec, 0)
      /\ "-" \in f.flags <=> left
      /\ "P" \in f.flags <=> d.prec # NoPrec
  <2>1. f.width = w  BY <1>1 DEF Fields, Columns, MaxOf
  <2>2. f.prec = MaxOf(d.prec, 0)  BY <1>1 DEF Fields, MaxOf
  <2>3. f.flags = d.flags \union (IF d.width < 0 THEN {"-"} ELSE {})
                     \union (IF d.prec = NoPrec THEN {} ELSE {"P"})
    BY DEF Fields
  <2>4. "P" \notin d.flags  BY <1>1 DEF FlagChars
  <2>5. "-" \in f.flags <=> left  BY <2>3 DEF LeftAligned
  <2>6. "P" \in f.flags <=> d.prec # NoPrec  BY <2>3, <2>4
  <2> QED  BY <2>1, <2>2, <2>5, <2>6
<1> DEFINE out == IF "P" \in f.flags /\ d.conv = "s"
                  THEN SubSeq(s, 1, MinOf(n, f.prec)) ELSE s
           iso == IF d.conv = "s" /\ IsoPrec(d) # NoPrec
                  THEN SubSeq(s, 1, MinOf(IsoPrec(d), n)) ELSE s
<1>4. OutString(d, s) = Aside(left, out, w - Len(out))
  <2>1. OutString(d, s) = IF "-" \in f.flags
                          THEN out \o Repeat(" ", f.width - Len(out))
                          ELSE Repeat(" ", f.width - Len(out)) \o out
    BY DEF OutString
  <2> HIDE DEF out, left, w, s
  <2> QED  BY ONLY <1>3, <2>1 DEF Aside
<1>5. IsoString(d) = Aside(left, iso, w - Len(iso))
  <2>1. MaxOf(d.width, -d.width) = w  BY DEF Columns
  <2>2. IsoString(d) = Aside(left, iso, MaxOf(d.width, -d.width) - Len(iso))
    BY DEF IsoString, Aside, LeftAligned
  <2> HIDE DEF iso
  <2> QED  BY ONLY <2>1, <2>2
<1>6. IsText(d) /\ IsoText(d) = IsoString(d) /\ Departs(d) = NegativePrecString(d)
  BY <1>1 DEF IsText, IsoText, Departs
<1>7. CASE d.conv = "text"
  <2>1. w = 0
    <3>1. d.width = 0  BY <1>7 DEF TextDirective
    <3>2. 0 - 0 = 0 /\ ~(0 < 0)  OBVIOUS
    <3> QED  BY <3>1, <3>2 DEF Columns, MaxOf
  <2>2. d.conv # "s"  BY <1>7
  <2>3. iso = s  BY <2>2
  <2>4. IsoString(d) = s
    <3>1. IsoString(d) = Aside(left, s, w - Len(s))  BY <1>5, <2>3
    <3> HIDE DEF w, left, s
    <3>2. Aside(left, s, w - Len(s)) = s  BY <1>1, <1>2, <2>1, AsideHas
    <3> QED  BY ONLY <3>1, <3>2
  <2>5. ~NegativePrecString(d)  BY <2>2 DEF NegativePrecString
  <2> QED  BY <1>6, <1>7, <2>4, <2>5 DEF TextWritten
<1>8. CASE d.conv = "c"
  <2>1. d.conv # "s" /\ d.conv # "text"  BY <1>8
  <2>2. iso = s /\ out = s  BY <2>1
  <2>3. ~NegativePrecString(d)  BY <2>1 DEF NegativePrecString
  <2> QED  BY <1>4, <1>5, <1>6, <2>1, <2>2, <2>3 DEF TextWritten
<1>9. CASE d.conv = "s" /\ (d.prec = NoPrec \/ d.prec >= 0)
  <2>1. iso = out
    <3>1. CASE d.prec = NoPrec
      <4>1. IsoPrec(d) = NoPrec  BY <3>1 DEF IsoPrec
      <4> QED  BY <1>3, <3>1, <4>1
    <3>2. CASE d.prec >= 0
      <4>1. IsoPrec(d) = d.prec /\ d.prec # NoPrec
        BY <1>1, <3>2, NoPrecIs DEF IsoPrec
      <4>2. MinOf(n, MaxOf(d.prec, 0)) = MinOf(d.prec, n)
        BY <1>1, <1>2, <3>2 DEF MinOf, MaxOf
      <4>3. out = SubSeq(s, 1, MinOf(d.prec, n))  BY <1>3, <1>9, <4>1, <4>2
      <4>4. iso = SubSeq(s, 1, MinOf(d.prec, n))  BY <1>9, <4>1
      <4> QED  BY ONLY <4>3, <4>4
    <3> QED  BY ONLY <1>9, <3>1, <3>2
  <2>2. ~NegativePrecString(d)
    <3>1. ~(d.prec < 0 /\ d.prec # NoPrec)  BY <1>1, <1>9
    <3> QED  BY <3>1 DEF NegativePrecString
  <2>3. d.conv # "text"  BY <1>9
  <2> QED  BY <1>4, <1>5, <1>6, <2>1, <2>2, <2>3 DEF TextWritten
<1>10. CASE d.conv = "s" /\ d.prec < 0 /\ d.prec # NoPrec
  <2>1. iso = s
    <3>1. IsoPrec(d) = NoPrec  BY <1>10 DEF IsoPrec
    <3> QED  BY <3>1
  <2>2. out = <<>>
    <3>1. MaxOf(d.prec, 0) = 0  BY <1>1, <1>10 DEF MaxOf
    <3>2. MinOf(n, 0) = 0  BY <1>2 DEF MinOf
    <3>3. out = SubSeq(s, 1, 0)  BY <1>3, <1>10, <3>1, <3>2
    <3>4. 0 \in 0..n  BY <1>2
    <3>5. IsSeq(SubSeq(s, 1, 0)) /\ Len(SubSeq(s, 1, 0)) = 0
      <4> HIDE DEF s
      <4> QED  BY <1>1, <3>4, Beginning DEF n
    <3> QED  BY <3>3, <3>5, EmptyString
  <2>3. OutString(d, s) = Blanks(w)
    <3>1. OutString(d, s) = Aside(left, <<>>, w - Len(<<>>))
      BY <1>4, <2>2
    <3> HIDE DEF w, left, s
    <3>2. Aside(left, <<>>, w - Len(<<>>)) = Blanks(w)
      <4>1. left \in BOOLEAN /\ IsSeq(<<>>) /\ w \in Nat
        BY <1>2, ShortStrings
      <4>2. Aside(left, <<>>, w - Len(<<>>)) = Blanks(w) <=> BlankIn(<<>>, w)
        BY ONLY <4>1, AsideHas
      <4>3. BlankIn(<<>>, w)
        <5>1. Len(<<>>) = 0 /\ DOMAIN <<>> = {}  BY ShortStrings
        <5> QED  BY ONLY <4>1, <5>1 DEF BlankIn
      <4> QED  BY ONLY <4>2, <4>3
    <3> QED  BY ONLY <3>1, <3>2
  <2>4. IsoString(d) = Blanks(w) <=> BlankIn(s, w)
    <3>1. IsoString(d) = Aside(left, s, w - n)  BY <1>5, <2>1
    <3> HIDE DEF w, left, s
    <3> DEFINE a == Aside(left, s, w - Len(s))
    <3>2. a = Blanks(w) <=> BlankIn(s, w)
      <4>1. left \in BOOLEAN /\ IsSeq(s) /\ w \in Nat  BY ONLY <1>1, <1>2
      <4> QED  BY ONLY <4>1, AsideHas
    <3>3. IsoString(d) = a  BY <3>1
    <3> HIDE DEF a
    <3> QED  BY ONLY <3>2, <3>3
  <2>5. NegativePrecString(d) <=>
          n > w \/ \E i \in DOMAIN s : s[i] # " "
    BY <1>10 DEF NegativePrecString
  <2>6. n > w <=> ~(n <= w)
    <3> HIDE DEF n, w
    <3> QED  BY ONLY <1>2
  <2>7. TextWritten(d) = OutString(d, s)  BY <1>10 DEF TextWritten
  <2>9. BlankIn(s, w) <=> n <= w /\ ~\E i \in DOMAIN s : s[i] # " "
    <3> HIDE DEF s, w
    <3> QED  BY ONLY TRUE DEF BlankIn, n
  <2> HIDE DEF n, w, s
  <2>8. OutString(d, s) = IsoString(d) <=> ~NegativePrecString(d)
    BY ONLY <2>3, <2>4, <2>5, <2>6, <2>9
  <2> QED  BY ONLY <1>6, <2>7, <2>8
<1> QED  BY <1>1, <1>7, <1>8, <1>9, <1>10

-----------------------------------------------------------------------------
(* The digit loop.                                                         *)

(* The digits still to make, in front of those in the buffer, are those of *)
(* the number.                                                             *)
DigitsLeft(d, v, b) ==
  /\ Magnitude(d) # 0 \/ d.prec = NoPrec
  /\ Digital(b)
  /\ Numeral(Magnitude(d), Base(d.conv), Upper(d))
       = Numeral(v, Base(d.conv), Upper(d)) \o Reverse(b)

(* What becomes of v and b when a digit goes from the number to the buffer *)
(* that is then a.                                                         *)
Moved(v, w, base, up, b, a) ==
  /\ Digital(a) /\ Len(a) = Len(b) + 1 /\ w \in Nat
  /\ w = 0 => Numeral(v, base, up) \o Reverse(b) = Reverse(a)
  /\ w # 0 => Numeral(v, base, up) \o Reverse(b)
                = Numeral(w, base, up) \o Reverse(a)

(* One digit goes from the number to the buffer.                           *)
LEMMA DigitMoves ==
  ASSUME NEW v \in Nat, NEW base \in {2, 8, 10, 16}, NEW up \in BOOLEAN,
         NEW b, Digital(b)
  PROVE  Moved(v, v \div base, base, up, b, Append(b, Digit(v % base, up)))
<1> DEFINE c == Digit(v % base, up)
           w == v \div base
<1>1. /\ v % base \in 0..15 /\ w \in Nat
      /\ v >= base => w > 0
      /\ v < base => w = 0 /\ v % base = v
  BY DivMod
<1>2. c \notin {" ", "-"}
  <2>1. Digit(v % base, up) \notin {" ", "-"}
    BY ONLY <1>1, up \in BOOLEAN, DigitIs
  <2> QED  BY ONLY <2>1 DEF c
<1> HIDE DEF w
<1> HIDE DEF c
<1>3. Digital(Append(b, c)) /\ Len(Append(b, c)) = Len(b) + 1
  BY <1>2, DigitalAppend
<1>4. IsSeq(b)  BY DEF Digital
<1>5. Reverse(Append(b, c)) = <<c>> \o Reverse(b)
  BY ONLY <1>4, ReverseAppend
<1>6. Numeral(v, base, up) =
        IF v < base THEN <<Digit(v, up)>>
        ELSE Append(Numeral(w, base, up), c)
  <2>1. Numeral(v, base, up) =
          IF v < base THEN <<Digit(v, up)>>
          ELSE Append(Numeral(v \div base, base, up), Digit(v % base, up))
    BY NumeralUnfolds
  <2> QED  BY ONLY <2>1 DEF w, c
<1>7. CASE v < base
  <2>1. c = Digit(v, up)  BY ONLY <1>1, <1>7 DEF c
  <2>2. Numeral(v, base, up) = <<c>>  BY ONLY <1>6, <1>7, <2>1
  <2>3. w = 0  BY ONLY <1>1, <1>7
  <2>4. Moved(v, w, base, up, b, Append(b, c))
    BY ONLY <1>1, <1>3, <1>5, <2>2, <2>3 DEF Moved
  <2> QED  BY ONLY <2>4 DEF w, c
<1>8. CASE ~(v < base)
  <2> DEFINE n == Numeral(w, base, up)
             r == Reverse(b)
  <2>1. NumeralOf(n, w)  BY <1>1, NumeralIs
  <2>2. IsSeq(n)  BY <2>1 DEF NumeralOf, Digital
  <2>3. IsSeq(r)  BY <1>4, ReverseIs
  <2>4. IsSeq(<<c>>)  BY ShortStrings
  <2>5. w # 0
    <3>1. v >= base  BY <1>8
    <3>2. w > 0  BY ONLY <1>1, <3>1
    <3> QED  BY <3>2
  <2>6. Numeral(v, base, up) = Append(n, c)  BY ONLY <1>6, <1>8
  <2> HIDE DEF n, r
  <2>7. Append(n, c) = n \o <<c>>
    <3> DEFINE A == {n[i] : i \in DOMAIN n} \union {c}
    <3>1. n \in Seq(A) /\ c \in A  BY <2>2 DEF IsSeq
    <3> HIDE DEF A
    <3> QED  BY ONLY <3>1
  <2>8. (n \o <<c>>) \o r = n \o (<<c>> \o r)
    BY ONLY <2>2, <2>3, <2>4, ConcatAssoc
  <2>9. Numeral(v, base, up) \o r = n \o Reverse(Append(b, c))
    BY ONLY <1>5, <2>6, <2>7, <2>8 DEF r
  <2>10. Moved(v, w, base, up, b, Append(b, c))
    BY ONLY <1>1, <1>3, <2>5, <2>9 DEF n, r, Moved
  <2> QED  BY ONLY <2>10 DEF w, c
<1> QED  BY ONLY <1>7, <1>8

(* The loop starts with all digits to make, or makes none.                 *)
LEMMA LoopStarts ==
  ASSUME NEW d, IntDirective(d)
  PROVE  /\ Magnitude(d) \in Nat
         /\ Magnitude(d) = 0 /\ d.prec # NoPrec => DigitsMade(d, <<>>)
         /\ ~(Magnitude(d) = 0 /\ d.prec # NoPrec) =>
              DigitsLeft(d, Magnitude(d), <<>>)
<1>1. Magnitude(d) \in Nat
  BY MagnitudeNat DEF IntDirective, TextConversions
<1>2. IsSeq(<<>>) /\ Len(<<>>) = 0  BY ShortStrings
<1>3. Digital(<<>>)  BY <1>2 DEF Digital
<1>4. Len(<<>>) <= BUFSZ  BY <1>2, PrintfAssumption
<1>5. Reverse(<<>>) = <<>>
  <2>1. IsSeq(Reverse(<<>>)) /\ Len(Reverse(<<>>)) = 0
    BY ONLY <1>2, ReverseIs
  <2> QED  BY ONLY <2>1, EmptyString
<1>6. Base(d.conv) \in {2, 8, 10, 16} /\ Upper(d) \in BOOLEAN
  BY IsoValueIs
<1> DEFINE n == Numeral(Magnitude(d), Base(d.conv), Upper(d))
<1>7. IsSeq(n)
  <2>1. NumeralOf(n, Magnitude(d))  BY ONLY <1>1, <1>6, NumeralIs
  <2> QED  BY <2>1 DEF NumeralOf, Digital
<1>8. n \o Reverse(<<>>) = n  BY ONLY <1>5, <1>7, ConcatEmpty
<1>9. Magnitude(d) = 0 /\ d.prec # NoPrec => DigitsMade(d, <<>>)
  BY ONLY <1>3, <1>4 DEF DigitsMade
<1>10. ~(Magnitude(d) = 0 /\ d.prec # NoPrec) =>
         DigitsLeft(d, Magnitude(d), <<>>)
  BY ONLY <1>3, <1>8 DEF DigitsLeft
<1> QED  BY <1>1, <1>9, <1>10

(* A turn of the loop, and what is in the buffer when it ends.             *)
LEMMA LoopTurns ==
  ASSUME NEW d, IntDirective(d), NEW v \in Nat, NEW b, DigitsLeft(d, v, b),
         Len(b) < BUFSZ, NEW c, c = Digit(v % Base(d.conv), Upper(d))
  PROVE  LET w == v \div Base(d.conv)
             a == Append(b, c)
         IN  IF w # 0 /\ Len(a) < BUFSZ THEN DigitsLeft(d, w, a)
             ELSE DigitsMade(d, a)
<1> DEFINE base == Base(d.conv)
           up == Upper(d)
           w == v \div base
           a == Append(b, c)
           n == Numeral(Magnitude(d), base, up)
           m == Numeral(w, base, up)
<1>1. base \in {2, 8, 10, 16} /\ up \in BOOLEAN  BY IsoValueIs
<1>2. /\ Magnitude(d) # 0 \/ d.prec = NoPrec
      /\ Digital(b) /\ n = Numeral(v, base, up) \o Reverse(b)
  BY DEF DigitsLeft
<1>3. c = Digit(v % base, up)  OBVIOUS
<1> HIDE DEF base, up
<1>4. /\ Digital(a) /\ Len(a) = Len(b) + 1 /\ w \in Nat
      /\ w = 0 => n = Reverse(a)
      /\ w # 0 => n = m \o Reverse(a)
  <2>1. Moved(v, v \div base, base, up, b, Append(b, Digit(v % base, up)))
    BY ONLY <1>1, <1>2, v \in Nat, DigitMoves
  <2>2. Moved(v, w, base, up, b, a)  BY ONLY <1>3, <2>1 DEF w, a
  <2> HIDE DEF w, a
  <2> QED  BY ONLY <1>2, <2>2 DEF m, Moved
<1>5. Len(b) \in Nat /\ IsSeq(a) /\ BUFSZ \in Nat
  <2>1. IsSeq(b) /\ IsSeq(a)  BY ONLY <1>2, <1>4 DEF Digital
  <2> QED  BY <2>1, StringIs, PrintfAssumption DEF IsSeq
<1> HIDE DEF w, a, n, m
<1>6. Len(a) <= BUFSZ  BY ONLY <1>4, <1>5, Len(b) < BUFSZ
<1>8. CASE w # 0 /\ Len(a) < BUFSZ
  <2>1. DigitsLeft(d, w, a)
    BY ONLY <1>2, <1>4, <1>8 DEF DigitsLeft, n, m, base, up
  <2> QED  BY ONLY <1>8, <2>1 DEF w, a, base
<1>9. CASE w = 0
  <2>1. DigitsMade(d, a)
    BY ONLY <1>2, <1>4, <1>6, <1>9 DEF DigitsMade, n, base, up
  <2> QED  BY ONLY <1>9, <2>1 DEF w, a, base
<1>10. CASE w # 0 /\ ~(Len(a) < BUFSZ)
  <2>1. Len(a) = BUFSZ  BY ONLY <1>4, <1>5, <1>6, <1>10
  <2>2. Len(n) > BUFSZ
    <3>1. NumeralOf(m, w)  BY ONLY <1>1, <1>4, NumeralIs DEF m
    <3>2. IsSeq(m) /\ Len(m) \in Nat \ {0}
      BY ONLY <3>1 DEF NumeralOf, Digital
    <3>3. IsSeq(Reverse(a)) /\ Len(Reverse(a)) = Len(a)
      BY ONLY <1>5, ReverseIs
    <3>4. Len(m \o Reverse(a)) = Len(m) + Len(Reverse(a))
      BY ONLY <3>2, <3>3, Concatenation
    <3>5. n = m \o Reverse(a)  BY ONLY <1>4, <1>10
    <3> QED  BY ONLY <1>5, <2>1, <3>2, <3>3, <3>4, <3>5
  <2>3. DigitsMade(d, a)
    BY ONLY <1>2, <1>4, <1>6, <2>1, <2>2 DEF DigitsMade, n, base, up
  <2> QED  BY ONLY <1>10, <2>3 DEF w, a, base
<1> QED  BY ONLY <1>8, <1>9, <1>10

-----------------------------------------------------------------------------
(* The inductive invariant: the digits made so far and those left are the  *)
(* digits of the number, and what is about to be put out, or has been, is  *)
(* what ISO C has unless the directive departs.                            *)

(* Formats of one directive, an integer, a string, a character or plain    *)
(* text, with the flags printf knows.                                      *)
Single(f) == Len(f) = 1 /\ (IntDirective(f[1]) \/ TextDirective(f[1]))
SingleFormats == \A f \in FORMATS : Single(f)

DepartsRight(s, d) == s = IsoText(d) <=> ~Departs(d)

WorkInv ==
  /\ pc \in {"digits", "ntoa"} =>
       IntDirective(fmt[1]) /\ conv = Conversion(fmt[1])
  /\ pc = "digits" => DigitsLeft(fmt[1], value, buf)
  /\ pc = "ntoa" => DigitsMade(fmt[1], buf)

PlaceInv ==
  /\ pos \in {1, 2}
  /\ pc \in {"digits", "ntoa", "out"} => pos = 1
  /\ pc = "done" => pos = 2

WrittenInv ==
  /\ pos = 1 => text = <<>>
  /\ pc = "out" => DepartsRight(todo, fmt[1])
  /\ pos = 2 => DepartsRight(text, fmt[1])

DepartsInv == Single(fmt) /\ WorkInv /\ PlaceInv /\ WrittenInv

(* A call starts with the invariant.                                       *)
LEMMA DepartsInitially ==
  ASSUME SingleFormats, PrintfInit
  PROVE  DepartsInv
<1>1. Single(fmt)  BY DEF SingleFormats, PrintfInit
<1>2. pc = "format" /\ pos = 1 /\ text = <<>>  BY DEF PrintfInit
<1> QED
  BY ONLY <1>1, <1>2 DEF DepartsInv, WorkInv, PlaceInv, WrittenInv

(* A text directive,                                                       *)
LEMMA DepartsFormatText ==
  ASSUME DepartsInv, FormatText
  PROVE  DepartsInv'
<1> USE DEF callVars, numberVars, outVars
<1>1. /\ Single(fmt) /\ pos = 1 /\ text = <<>>
      /\ fmt[1].conv \in TextConversions
  <2>1. pos <= 1  BY DEF DepartsInv, Single, FormatText
  <2>2. pos \in {1, 2}  BY DEF DepartsInv, PlaceInv
  <2>3. pos = 1  BY <2>1, <2>2
  <2> QED  BY <2>3 DEF DepartsInv, WrittenInv, FormatText
<1>2. TextDirective(fmt[1])
  <2>1. ~IntDirective(fmt[1])  BY <1>1 DEF IntDirective, TextConversions
  <2> QED  BY <1>1, <2>1 DEF Single
<1>3. todo' = TextWritten(fmt[1])
  BY <1>1 DEF FormatText, TextWritten
<1>4. fmt' = fmt /\ pos' = pos /\ text' = text /\ pc' = "out"
  BY DEF FormatText
<1>5. DepartsRight(todo', fmt[1])
  <2>1. TextWritten(fmt[1]) = IsoText(fmt[1]) <=> ~Departs(fmt[1])
    BY ONLY <1>2, TextDeparts
  <2> QED  BY ONLY <1>3, <2>1 DEF DepartsRight
<1>6. Single(fmt)'  BY ONLY <1>1, <1>4
<1>7. WorkInv'  BY ONLY <1>4 DEF WorkInv
<1>8. PlaceInv'  BY ONLY <1>1, <1>4 DEF PlaceInv
<1>9. WrittenInv'  BY ONLY <1>1, <1>4, <1>5 DEF WrittenInv
<1> QED  BY ONLY <1>6, <1>7, <1>8, <1>9 DEF DepartsInv

(* the start of an integer,                                                *)
LEMMA DepartsFormatInt ==
  ASSUME DepartsInv, FormatInt
  PROVE  DepartsInv'
<1> USE DEF callVars, numberVars, outVars
<1> DEFINE d == fmt[1]
<1>1. /\ Single(fmt) /\ pos = 1 /\ text = <<>>
      /\ d.conv \notin TextConversions
  <2>1. pos <= 1  BY DEF DepartsInv, Single, FormatInt
  <2>2. pos \in {1, 2}  BY DEF DepartsInv, PlaceInv
  <2>3. pos = 1  BY <2>1, <2>2
  <2> QED  BY <2>3 DEF DepartsInv, WrittenInv, FormatInt
<1>2. IntDirective(d)
  <2>1. ~TextDirective(d)  BY <1>1 DEF TextDirective
  <2> QED  BY <1>1, <2>1 DEF Single
<1>3. /\ conv' = Conversion(d) /\ value' = Magnitude(d) /\ buf' = <<>>
      /\ pc' = IF "P" \in conv'.flags /\ value' = 0 THEN "ntoa" ELSE "digits"
      /\ fmt' = fmt /\ pos' = pos /\ text' = text
  BY <1>1 DEF FormatInt
<1> HIDE DEF d
<1>4. "P" \in Conversion(d).flags <=> d.prec # NoPrec
  BY <1>2, ConversionHas
<1>5. /\ Magnitude(d) = 0 /\ d.prec # NoPrec => DigitsMade(d, <<>>)
      /\ ~(Magnitude(d) = 0 /\ d.prec # NoPrec) =>
              DigitsLeft(d, Magnitude(d), <<>>)
  BY ONLY <1>2, LoopStarts
<1>6. Single(fmt)'  BY ONLY <1>1, <1>3
<1>7. WorkInv'
  <2>1. CASE Magnitude(d) = 0 /\ d.prec # NoPrec
    <3>1. pc' = "ntoa"  BY ONLY <1>3, <1>4, <2>1
    <3>2. DigitsMade(d, buf')  BY ONLY <1>3, <1>5, <2>1
    <3> QED  BY ONLY <1>2, <1>3, <3>1, <3>2 DEF WorkInv, d
  <2>2. CASE ~(Magnitude(d) = 0 /\ d.prec # NoPrec)
    <3>1. pc' = "digits"  BY ONLY <1>3, <1>4, <2>2
    <3>2. DigitsLeft(d, value', buf')  BY ONLY <1>3, <1>5, <2>2
    <3> QED  BY ONLY <1>2, <1>3, <3>1, <3>2 DEF WorkInv, d
  <2> QED  BY ONLY <2>1, <2>2
<1>8. pc' \in {"digits", "ntoa"}  BY ONLY <1>3
<1>9. PlaceInv'  BY ONLY <1>1, <1>3, <1>8 DEF PlaceInv
<1>10. WrittenInv'  BY ONLY <1>1, <1>3, <1>8 DEF WrittenInv
<1> QED  BY ONLY <1>6, <1>7, <1>9, <1>10 DEF DepartsInv

(* a turn of the digit loop,                                               *)
LEMMA DepartsNtoaDigit ==
  ASSUME PrintfIInv, DepartsInv, NtoaDigit
  PROVE  DepartsInv'
<1> USE DEF callVars, numberVars, outVars
<1> DEFINE d == fmt[1]
           c == Digit(value % Base(d.conv), Upper(d))
           w == value \div Base(d.conv)
           a == Append(buf, c)
<1>1. /\ Single(fmt) /\ pos = 1 /\ text = <<>>
      /\ IntDirective(d) /\ conv = Conversion(d)
      /\ DigitsLeft(d, value, buf)
  BY DEF DepartsInv, WorkInv, PlaceInv, WrittenInv, NtoaDigit
<1>2. value \in Nat /\ Len(buf) < BUFSZ
  BY DEF PrintfIInv, NumberInv, NtoaDigit
<1> HIDE DEF d
<1>3. conv.base = Base(d.conv) /\ ("U" \in conv.flags <=> Upper(d))
  BY <1>1, ConversionHas
<1>4. ("U" \in conv.flags) = Upper(d)
  <2>1. Upper(d) \in BOOLEAN  BY DEF Upper
  <2> QED  BY <1>3, <2>1
<1>5. /\ buf' = a /\ value' = w
      /\ pc' = IF w # 0 /\ Len(a) < BUFSZ THEN "digits" ELSE "ntoa"
      /\ fmt' = fmt /\ pos' = pos /\ text' = text /\ conv' = conv
  <2>1. Digit(value % conv.base, "U" \in conv.flags) = c
    BY ONLY <1>3, <1>4
  <2> HIDE DEF c
  <2> QED  BY <1>3, <2>1 DEF NtoaDigit
<1>6. IF w # 0 /\ Len(a) < BUFSZ THEN DigitsLeft(d, w, a)
      ELSE DigitsMade(d, a)
  BY <1>1, <1>2, LoopTurns
<1> HIDE DEF c, w, a
<1>7. Single(fmt)'  BY ONLY <1>1, <1>5
<1>8. WorkInv'
  <2>1. CASE w # 0 /\ Len(a) < BUFSZ
    BY ONLY <1>1, <1>5, <1>6, <2>1 DEF WorkInv, d
  <2>2. CASE ~(w # 0 /\ Len(a) < BUFSZ)
    BY ONLY <1>1, <1>5, <1>6, <2>2 DEF WorkInv, d
  <2> QED  BY ONLY <2>1, <2>2
<1>9. pc' \in {"digits", "ntoa"}  BY ONLY <1>5
<1>10. PlaceInv'  BY ONLY <1>1, <1>5, <1>9 DEF PlaceInv
<1>11. WrittenInv'  BY ONLY <1>1, <1>5, <1>9 DEF WrittenInv
<1> QED  BY ONLY <1>7, <1>8, <1>10, <1>11 DEF DepartsInv

(* the padding, prefix and sign,                                           *)
LEMMA DepartsNtoa ==
  ASSUME DepartsInv, Ntoa
  PROVE  DepartsInv'
<1> USE DEF callVars, numberVars, outVars
<1> DEFINE d == fmt[1]
<1>1. /\ Single(fmt) /\ pos = 1 /\ text = <<>>
      /\ IntDirective(d) /\ conv = Conversion(d) /\ DigitsMade(d, buf)
  BY DEF DepartsInv, WorkInv, PlaceInv, WrittenInv, Ntoa
<1>2. /\ todo' = OutRev(conv, NtoaFormat(conv, buf)) /\ pc' = "out"
      /\ fmt' = fmt /\ pos' = pos /\ text' = text
  BY DEF Ntoa
<1> HIDE DEF d
<1>3. todo' = Written(d, buf)  BY ONLY <1>1, <1>2 DEF Written
<1>4. DepartsRight(todo', d)
  <2>1. Written(d, buf) = IsoNumber(d) <=> ~Departs(d)
    BY ONLY <1>1, NumberDeparts
  <2>2. ~IsText(d)  BY ONLY <1>1 DEF IntDirective, IsText
  <2>3. IsoText(d) = IsoNumber(d)  BY ONLY <2>2 DEF IsoText
  <2> QED  BY ONLY <1>3, <2>1, <2>3 DEF DepartsRight
<1>5. Single(fmt)'  BY ONLY <1>1, <1>2
<1>6. WorkInv'  BY ONLY <1>2 DEF WorkInv
<1>7. PlaceInv'  BY ONLY <1>1, <1>2 DEF PlaceInv
<1>8. WrittenInv'  BY ONLY <1>1, <1>2, <1>4 DEF WrittenInv, d
<1> QED  BY ONLY <1>5, <1>6, <1>7, <1>8 DEF DepartsInv

(* the output,                                                             *)
LEMMA DepartsOut ==
  ASSUME PrintfIInv, DepartsInv, Out
  PROVE  DepartsInv'
<1> USE DEF callVars, numberVars, outVars
<1>1. /\ Single(fmt) /\ pos = 1 /\ text = <<>> /\ DepartsRight(todo, fmt[1])
  BY DEF DepartsInv, PlaceInv, WrittenInv, Out
<1>2. IsSeq(todo)  BY DEF PrintfIInv, OutInv
<1>3. fmt' = fmt /\ pos' = pos + 1 /\ text' = text \o todo /\ pc' = "format"
  BY DEF Out
<1>4. text' = todo
  <2>1. <<>> \o todo = todo  BY ONLY <1>2, ConcatEmpty
  <2> QED  BY ONLY <1>1, <1>3, <2>1
<1>5. pos' = 2  BY <1>1, <1>3
<1>6. Single(fmt)'  BY ONLY <1>1, <1>3
<1>7. WorkInv'  BY ONLY <1>3 DEF WorkInv
<1>8. PlaceInv'  BY ONLY <1>3, <1>5 DEF PlaceInv
<1>9. WrittenInv'
  <2>1. DepartsRight(text', fmt'[1])  BY ONLY <1>1, <1>3, <1>4
  <2>2. pos' # 1  BY <1>5
  <2> QED  BY ONLY <1>3, <2>1, <2>2 DEF WrittenInv
<1> QED  BY ONLY <1>6, <1>7, <1>8, <1>9 DEF DepartsInv

(* the end of the call,                                                    *)
LEMMA DepartsTerminate ==
  ASSUME DepartsInv, Terminate
  PROVE  DepartsInv'
<1> USE DEF callVars, numberVars, outVars
<1>1. /\ Single(fmt) /\ WrittenInv /\ pos = 2
  <2>1. pos > 1  BY DEF DepartsInv, Single, Terminate
  <2>2. pos \in {1, 2}  BY DEF DepartsInv, PlaceInv
  <2>3. pos = 2  BY <2>1, <2>2
  <2> QED  BY <2>3 DEF DepartsInv
<1>2. fmt' = fmt /\ pos' = pos /\ text' = text /\ pc' = "done"
  BY DEF Terminate
<1>3. Single(fmt)'  BY ONLY <1>1, <1>2
<1>4. WorkInv'  BY ONLY <1>2 DEF WorkInv
<1>5. PlaceInv'  BY ONLY <1>1, <1>2 DEF PlaceInv
<1>6. WrittenInv'  BY ONLY <1>1, <1>2 DEF WrittenInv
<1> QED  BY ONLY <1>3, <1>4, <1>5, <1>6 DEF DepartsInv

(* and no step at all.                                                     *)
LEMMA DepartsStutters ==
  ASSUME DepartsInv, UNCHANGED printfVars
  PROVE  DepartsInv'
BY DEF DepartsInv, WorkInv, PlaceInv, WrittenInv, printfVars, callVars,
       numberVars, outVars

(* DepartsTheorem: whatever the flags, width, precision, length, base and  *)
(* argument, the sizes of the integers and of the digit buffer, what is    *)
(* printed for a directive is what ISO C asks for, unless one of the six   *)
(* departures applies, and then it is not.                                 *)
THEOREM DepartsTheorem ==
  ASSUME SingleFormats
  PROVE  PrintfSpec => []DepartsExactly
<1>1. PrintfInit => DepartsInv  BY DepartsInitially
<1>2. PrintfIInv /\ DepartsInv /\ [PrintfNext]_printfVars => DepartsInv'
  <2> SUFFICES ASSUME PrintfIInv, DepartsInv, [PrintfNext]_printfVars
               PROVE  DepartsInv'
    OBVIOUS
  <2>1. CASE FormatText  BY <2>1, DepartsFormatText
  <2>2. CASE FormatInt  BY <2>2, DepartsFormatInt
  <2>3. CASE NtoaDigit  BY <2>3, DepartsNtoaDigit
  <2>4. CASE Ntoa  BY <2>4, DepartsNtoa
  <2>5. CASE Out  BY <2>5, DepartsOut
  <2>6. CASE Terminate  BY <2>6, DepartsTerminate
  <2>7. CASE UNCHANGED printfVars  BY <2>7, DepartsStutters
  <2> QED
    BY <2>1, <2>2, <2>3, <2>4, <2>5, <2>6, <2>7 DEF PrintfNext
<1>3. DepartsInv => DepartsExactly
  BY DEF DepartsInv, PlaceInv, WrittenInv, DepartsRight, DepartsExactly
<1>4. PrintfSpec => []PrintfIInv  BY PrintfInvariance
<1> QED  BY <1>1, <1>2, <1>3, <1>4, PTL DEF PrintfSpec

=============================================================================
