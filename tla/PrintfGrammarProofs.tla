------------------------ MODULE PrintfGrammarProofs -------------------------
(***************************************************************************)
(* The scanner against the grammar, for every format: printf reads beyond  *)
(* the NUL that ends its format just when the format ends within a         *)
(* conversion specification (LeavesFormatExactly), and it reads every      *)
(* spelling of a directive as the directive it spells                      *)
(* (ImplementsDirectives).                                                 *)
(*                                                                         *)
(* The scanner is greedy: it ends each field where the characters of the   *)
(* field end.  The grammar only asks that there be some way to split the   *)
(* characters behind a `%' into fields, and takes the longest stretch that *)
(* can be split.  GreedyLongest shows that the two agree, field by field:  *)
(* no split gets past the place where the scanner ends the same field.     *)
(*                                                                         *)
(* For the second result, a numeral is read back as what an unsigned int   *)
(* keeps of its number (NumeralReads) and each field ends where its        *)
(* spelling does, since nothing that may follow could go on with it        *)
(* (FieldsRead).  So what has been read so far is always a beginning of    *)
(* what is meant, and the scanner stands where its spelling ends (ReadInv).*)
(***************************************************************************)
EXTENDS PrintfGrammar, PrintfIsoProofs, SequenceTheorems

-----------------------------------------------------------------------------
(* Parts of a string.                                                      *)

(* What a part of a string consists of.                                    *)
LEMMA PartIs ==
  ASSUME NEW s, IsSeq(s), NEW b \in Int, NEW e \in Int,
         1 <= b, b <= e + 1, e <= Len(s)
  PROVE  /\ IsSeq(SubSeq(s, b, e))
         /\ Len(SubSeq(s, b, e)) = e + 1 - b
         /\ \A i \in 1..e + 1 - b : SubSeq(s, b, e)[i] = s[b + i - 1]
<1> DEFINE A == {s[i] : i \in DOMAIN s}
<1>1. Len(s) \in Nat /\ DOMAIN s = 1..Len(s)  BY StringIs DEF IsSeq
<1>2. \A i \in b..e : s[i] \in A  BY <1>1
<1> HIDE DEF A
<1>3. /\ SubSeq(s, b, e) \in Seq(A)
      /\ Len(SubSeq(s, b, e)) = IF b <= e THEN e - b + 1 ELSE 0
      /\ \A i \in 1..e - b + 1 : SubSeq(s, b, e)[i] = s[b + i - 1]
  BY <1>2, SubSeqProperties
<1>4. IsSeq(SubSeq(s, b, e))  BY <1>3, StringIs
<1>5. Len(SubSeq(s, b, e)) = e + 1 - b  BY <1>3
<1>6. e - b + 1 = e + 1 - b  OBVIOUS
<1> QED  BY <1>3, <1>4, <1>5, <1>6

(* A part has only characters of S.                                        *)
LEMMA PartWithin ==
  ASSUME NEW s, IsSeq(s), NEW b \in Int, NEW e \in Int,
         1 <= b, b <= e + 1, e <= Len(s), NEW S
  PROVE  Range(SubSeq(s, b, e)) \subseteq S <=> \A k \in b..e : s[k] \in S
<1> DEFINE t == SubSeq(s, b, e)
<1>1. /\ IsSeq(t) /\ Len(t) = e + 1 - b
      /\ \A i \in 1..e + 1 - b : t[i] = s[b + i - 1]
  BY PartIs
<1>2. DOMAIN t = 1..e + 1 - b  BY <1>1, StringIs DEF IsSeq
<1> HIDE DEF t
<1>3. Range(t) \subseteq S <=> \A i \in 1..e + 1 - b : t[i] \in S
  BY <1>2 DEF Range
<1>4. ASSUME \A i \in 1..e + 1 - b : t[i] \in S, NEW k \in b..e
      PROVE  s[k] \in S
  <2>1. k - b + 1 \in 1..e + 1 - b /\ b + (k - b + 1) - 1 = k  OBVIOUS
  <2> QED  BY <1>1, <1>4, <2>1
<1>5. ASSUME \A k \in b..e : s[k] \in S, NEW i \in 1..e + 1 - b
      PROVE  t[i] \in S
  <2>1. b + i - 1 \in b..e  OBVIOUS
  <2> QED  BY <1>1, <1>5, <2>1
<1> QED  BY <1>3, <1>4, <1>5 DEF t

(* A part of a part.                                                       *)
LEMMA PartOfPart ==
  ASSUME NEW s, IsSeq(s), NEW b \in Int, NEW e \in Int,
         1 <= b, b <= e + 1, e <= Len(s),
         NEW p \in Int, NEW q \in Int,
         1 <= p, p <= q + 1, q <= e + 1 - b
  PROVE  SubSeq(SubSeq(s, b, e), p, q) = SubSeq(s, b + p - 1, b + q - 1)
<1> DEFINE t == SubSeq(s, b, e)
           u == SubSeq(t, p, q)
           v == SubSeq(s, b + p - 1, b + q - 1)
<1>1. /\ IsSeq(t) /\ Len(t) = e + 1 - b
      /\ \A i \in 1..e + 1 - b : t[i] = s[b + i - 1]
  BY PartIs
<1> HIDE DEF t
<1>2. IsSeq(u) /\ Len(u) = q + 1 - p /\ \A i \in 1..q + 1 - p : u[i] = t[p + i - 1]
  BY <1>1, PartIs
<1>3. /\ IsSeq(v) /\ Len(v) = q + 1 - p
      /\ \A i \in 1..q + 1 - p : v[i] = s[(b + p - 1) + i - 1]
  <2>1. /\ b + p - 1 \in Int /\ b + q - 1 \in Int /\ 1 <= b + p - 1
        /\ b + p - 1 <= (b + q - 1) + 1 /\ b + q - 1 <= Len(s)
        /\ (b + q - 1) + 1 - (b + p - 1) = q + 1 - p
    BY StringIs DEF IsSeq
  <2> HIDE DEF v
  <2>2. /\ IsSeq(v) /\ Len(v) = (b + q - 1) + 1 - (b + p - 1)
        /\ \A i \in 1..(b + q - 1) + 1 - (b + p - 1) :
             v[i] = s[(b + p - 1) + i - 1]
    BY <2>1, PartIs DEF v
  <2> QED  BY <2>1, <2>2
<1> HIDE DEF u, v
<1>4. ASSUME NEW i \in 1..q + 1 - p
      PROVE  u[i] = v[i]
  <2>1. p + i - 1 \in 1..e + 1 - b /\ b + (p + i - 1) - 1 = (b + p - 1) + i - 1
    OBVIOUS
  <2> QED  BY <1>1, <1>2, <1>3, <2>1
<1>5. u = [i \in 1..q + 1 - p |-> u[i]] /\ v = [i \in 1..q + 1 - p |-> v[i]]
  BY <1>2, <1>3 DEF IsSeq
<1>6. u = v  BY <1>4, <1>5
<1> QED  BY <1>6 DEF t, u, v

-----------------------------------------------------------------------------
(* The grammar in terms of places in the format.                           *)

(* A number stands at the places from b to before e.                       *)
NumberAt(s, b, e) ==
  \/ e = b + 1 /\ s[b] = "*"
  \/ \A k \in b..e-1 : s[k] \in DigitChars

(* A length modifier, or none, stands there.                               *)
LengthAt(s, b, e) ==
  \/ e = b
  \/ e = b + 1 /\ s[b] \in {"l", "h", "t", "j", "z"}
  \/ e = b + 2 /\ s[b] \in {"l", "h"} /\ s[b + 1] = s[b]

(* Flags, width, precision and length modifier end before x, y, z and e.   *)
SplitAt(s, b, x, y, z, e) ==
  /\ b <= x /\ x <= y /\ y <= z /\ z <= e
  /\ \A k \in b..x-1 : s[k] \in FlagChars
  /\ NumberAt(s, x, y)
  /\ y = z \/ (y < z /\ s[y] = "." /\ NumberAt(s, y + 1, z))
  /\ LengthAt(s, z, e)

(* A part of a string is a number if one stands there,                     *)
LEMMA NumberParts ==
  ASSUME NEW s, IsSeq(s), NEW b \in Int, NEW e \in Int,
         1 <= b, b <= e, e <= Len(s) + 1
  PROVE  IsNumber(SubSeq(s, b, e - 1)) <=> NumberAt(s, b, e)
<1> DEFINE t == SubSeq(s, b, e - 1)
<1>0. Len(s) \in Nat  BY StringIs DEF IsSeq
<1>1. /\ IsSeq(t) /\ Len(t) = e - b
      /\ \A i \in 1..e - b : t[i] = s[b + i - 1]
  <2>1. e - 1 \in Int /\ b <= (e - 1) + 1 /\ e - 1 <= Len(s)
        /\ (e - 1) + 1 - b = e - b
    BY <1>0
  <2> HIDE DEF t
  <2>2. /\ IsSeq(t) /\ Len(t) = (e - 1) + 1 - b
        /\ \A i \in 1..(e - 1) + 1 - b : t[i] = s[b + i - 1]
    BY <2>1, PartIs DEF t
  <2> QED  BY <2>1, <2>2
<1>2. Range(t) \subseteq DigitChars <=> \A k \in b..e-1 : s[k] \in DigitChars
  BY <1>0, PartWithin
<1> HIDE DEF t
<1>7. e = b + 1 => t[1] = s[b]
  <2>1. b + 1 - 1 = b  OBVIOUS
  <2>2. e = b + 1 => 1 \in 1..e - b  OBVIOUS
  <2>3. e = b + 1 => t[1] = s[b + 1 - 1]  BY <1>1, <2>2
  <2> QED  BY <2>1, <2>3
<1>3. t = <<"*">> <=> e = b + 1 /\ s[b] = "*"
  <2>1. t = [i \in 1..Len(t) |-> t[i]]  BY <1>1 DEF IsSeq
  <2>2. ASSUME e = b + 1, s[b] = "*"  PROVE t = <<"*">>
    <3>1. Len(t) = 1 /\ t[1] = "*"  BY <1>1, <1>7, <2>2
    <3> QED  BY <2>1, <3>1
  <2>3. ASSUME t = <<"*">>  PROVE e = b + 1 /\ s[b] = "*"
    <3>1. Len(t) = 1 /\ t[1] = "*"  BY <2>3
    <3>2. e - b = 1 => e = b + 1  OBVIOUS
    <3>3. e = b + 1  BY <1>1, <3>1, <3>2
    <3> QED  BY <1>7, <3>1, <3>3
  <2> QED  BY <2>2, <2>3
<1>4. IsNumber(t) <=> NumberAt(s, b, e)  BY <1>2, <1>3 DEF IsNumber, NumberAt
<1> QED  BY <1>4 DEF t

(* and a length modifier likewise.                                         *)
LEMMA LengthParts ==
  ASSUME NEW s, IsSeq(s), NEW b \in Int, NEW e \in Int,
         1 <= b, b <= e, e <= Len(s) + 1
  PROVE  SubSeq(s, b, e - 1) \in
           {<<>>, <<"l">>, <<"l", "l">>, <<"h">>, <<"h", "h">>,
            <<"t">>, <<"j">>, <<"z">>}
         <=> LengthAt(s, b, e)
<1> DEFINE t == SubSeq(s, b, e - 1)
<1>0. Len(s) \in Nat  BY StringIs DEF IsSeq
<1>1. /\ IsSeq(t) /\ Len(t) = e - b
      /\ \A i \in 1..e - b : t[i] = s[b + i - 1]
  <2>1. e - 1 \in Int /\ b <= (e - 1) + 1 /\ e - 1 <= Len(s)
        /\ (e - 1) + 1 - b = e - b
    BY <1>0
  <2> HIDE DEF t
  <2>2. /\ IsSeq(t) /\ Len(t) = (e - 1) + 1 - b
        /\ \A i \in 1..(e - 1) + 1 - b : t[i] = s[b + i - 1]
    BY <2>1, PartIs DEF t
  <2> QED  BY <2>1, <2>2
<1> HIDE DEF t
<1>2. t = [i \in 1..Len(t) |-> t[i]]  BY <1>1 DEF IsSeq
<1>7. e - b \in {1, 2} => t[1] = s[b]
  <2>1. b + 1 - 1 = b  OBVIOUS
  <2>2. e - b \in {1, 2} => 1 \in 1..e - b  OBVIOUS
  <2>3. e - b \in {1, 2} => t[1] = s[b + 1 - 1]  BY <1>1, <2>2
  <2> QED  BY <2>1, <2>3
<1>8. e - b = 2 => t[2] = s[b + 1]
  <2>1. b + 2 - 1 = b + 1  OBVIOUS
  <2>2. e - b = 2 => 2 \in 1..e - b  OBVIOUS
  <2>3. e - b = 2 => t[2] = s[b + 2 - 1]  BY <1>1, <2>2
  <2> QED  BY <2>1, <2>3
<1>9. /\ e - b = 1 <=> e = b + 1
      /\ e - b = 2 <=> e = b + 2
  OBVIOUS
<1>3. t = <<>> <=> e = b
  <2>1. t = <<>> => Len(t) = 0  OBVIOUS
  <2>2. Len(t) = 0 => t = <<>>  BY <1>2
  <2> QED  BY <1>1, <2>1, <2>2
<1>4. ASSUME NEW c
      PROVE  t = <<c>> <=> e = b + 1 /\ s[b] = c
  <2>1. t = <<c>> => Len(t) = 1 /\ t[1] = c  OBVIOUS
  <2>2. Len(t) = 1 /\ t[1] = c => t = <<c>>  BY <1>2
  <2> QED  BY <1>1, <1>7, <1>9, <2>1, <2>2
<1>5. ASSUME NEW c
      PROVE  t = <<c, c>> <=> e = b + 2 /\ s[b] = c /\ s[b + 1] = c
  <2>1. t = <<c, c>> => Len(t) = 2 /\ t[1] = c /\ t[2] = c  OBVIOUS
  <2>2. Len(t) = 2 /\ t[1] = c /\ t[2] = c => t = <<c, c>>  BY <1>2
  <2>3. Len(t) = 2 => t[1] = s[b] /\ t[2] = s[b + 1]  BY <1>1, <1>7, <1>8
  <2> QED  BY <1>1, <1>9, <2>1, <2>2, <2>3
<1>6. t \in {<<>>, <<"l">>, <<"l", "l">>, <<"h">>, <<"h", "h">>,
             <<"t">>, <<"j">>, <<"z">>}
      <=> LengthAt(s, b, e)
  BY <1>3, <1>4, <1>5 DEF LengthAt
<1> QED  BY <1>6 DEF t

(* Fields of a specification stand between b and e if the characters there *)
(* can be split into them.                                                 *)
LEMMA FieldsParts ==
  ASSUME NEW s, IsSeq(s), NEW b \in Int, NEW e \in Int,
         1 <= b, b <= e, e <= Len(s) + 1
  PROVE  IsFields(SubSeq(s, b, e - 1))
         <=> \E x \in Int, y \in Int, z \in Int : SplitAt(s, b, x, y, z, e)
<1> DEFINE t == SubSeq(s, b, e - 1)
           n == e - b
<1>0. Len(s) \in Nat /\ n \in Nat /\ e - 1 \in Int /\ e - 1 <= Len(s)
      /\ b <= (e - 1) + 1 /\ (e - 1) + 1 - b = n
  BY StringIs DEF IsSeq
<1>1. /\ IsSeq(t) /\ Len(t) = n
      /\ \A i \in 1..n : t[i] = s[b + i - 1]
  <2> HIDE DEF t, n
  <2>1. /\ IsSeq(t) /\ Len(t) = (e - 1) + 1 - b
        /\ \A i \in 1..(e - 1) + 1 - b : t[i] = s[b + i - 1]
    BY <1>0, PartIs DEF t
  <2> QED  BY <1>0, <2>1
<1>2. ASSUME NEW p \in Int, NEW q \in Int, 1 <= p, p <= q + 1, q <= n
      PROVE  SubSeq(t, p, q) = SubSeq(s, b + p - 1, (b + q) - 1)
  <2> HIDE DEF n
  <2>1. SubSeq(SubSeq(s, b, e - 1), p, q) = SubSeq(s, b + p - 1, b + q - 1)
    BY <1>0, <1>2, PartOfPart
  <2>2. b + q - 1 = (b + q) - 1  OBVIOUS
  <2> QED  BY <2>1, <2>2 DEF t
<1> HIDE DEF t
(* The three places as indices into t and into s.                          *)
<1> DEFINE Split(i, j, k) ==
      /\ i <= j /\ j <= k
      /\ Range(SubSeq(t, 1, i)) \subseteq FlagChars
      /\ IsNumber(SubSeq(t, i + 1, j))
      /\ \/ j = k
         \/ t[j + 1] = "." /\ IsNumber(SubSeq(t, j + 2, k))
      /\ SubSeq(t, k + 1, n) \in
           {<<>>, <<"l">>, <<"l", "l">>, <<"h">>, <<"h", "h">>,
            <<"t">>, <<"j">>, <<"z">>}
<1>3. IsFields(t) <=> \E i \in 0..n, j \in 0..n, k \in 0..n : Split(i, j, k)
  BY <1>1 DEF IsFields
<1>4. ASSUME NEW i \in 0..n, NEW j \in 0..n, NEW k \in 0..n
      PROVE  Split(i, j, k) <=> SplitAt(s, b, b + i, b + j, b + k, e)
  <2>1. i <= j /\ j <= k <=>
          b <= b + i /\ b + i <= b + j /\ b + j <= b + k /\ b + k <= e
    BY <1>0
  <2> SUFFICES ASSUME i <= j, j <= k
               PROVE  Split(i, j, k) <=> SplitAt(s, b, b + i, b + j, b + k, e)
    BY <2>1 DEF SplitAt
  <2>2. Range(SubSeq(t, 1, i)) \subseteq FlagChars <=>
          \A m \in b..(b + i) - 1 : s[m] \in FlagChars
    <3>1. SubSeq(t, 1, i) = SubSeq(s, b, (b + i) - 1)
      <4>1. SubSeq(t, 1, i) = SubSeq(s, b + 1 - 1, (b + i) - 1)
        BY <1>0, <1>2
      <4> QED  BY <4>1
    <3>2. /\ (b + i) - 1 \in Int /\ b <= (b + i) - 1 + 1
          /\ (b + i) - 1 <= Len(s)
      BY <1>0
    <3>3. Range(SubSeq(s, b, (b + i) - 1)) \subseteq FlagChars <=>
            \A m \in b..(b + i) - 1 : s[m] \in FlagChars
      <4> HIDE DEF n, Split
      <4> QED  BY <3>2, PartWithin
    <3> HIDE DEF n, Split
    <3> QED  BY <3>1, <3>3
  <2>3. IsNumber(SubSeq(t, i + 1, j)) <=> NumberAt(s, b + i, b + j)
    <3>1. SubSeq(t, i + 1, j) = SubSeq(s, b + i, (b + j) - 1)
      <4>1. SubSeq(t, i + 1, j) = SubSeq(s, b + (i + 1) - 1, (b + j) - 1)
        BY <1>0, <1>2
      <4>2. b + (i + 1) - 1 = b + i  OBVIOUS
      <4> QED  BY <4>1, <4>2
    <3>2. /\ b + i \in Int /\ b + j \in Int /\ 1 <= b + i
          /\ b + i <= b + j /\ b + j <= Len(s) + 1
      BY <1>0
    <3> HIDE DEF n, Split
    <3>3. IsNumber(SubSeq(s, b + i, (b + j) - 1)) <=> NumberAt(s, b + i, b + j)
      BY <3>2, NumberParts
    <3> QED  BY <3>1, <3>3
  <2>4. (j = k \/ (t[j + 1] = "." /\ IsNumber(SubSeq(t, j + 2, k))))
        <=> \/ b + j = b + k
            \/ /\ b + j < b + k /\ s[b + j] = "."
               /\ NumberAt(s, b + j + 1, b + k)
    <3>1. CASE j = k
      <4> HIDE DEF n, Split
      <4> QED  BY <3>1
    <3>2. CASE j < k
      <4>1. t[j + 1] = s[b + j]
        <5>1. j + 1 \in 1..n /\ b + (j + 1) - 1 = b + j  BY <3>2
        <5> QED  BY <1>1, <5>1
      <4>2. SubSeq(t, j + 2, k) = SubSeq(s, b + j + 1, (b + k) - 1)
        <5>1. SubSeq(t, j + 2, k) = SubSeq(s, b + (j + 2) - 1, (b + k) - 1)
          BY <1>0, <1>2, <3>2
        <5>2. b + (j + 2) - 1 = b + j + 1  OBVIOUS
        <5> QED  BY <5>1, <5>2
      <4>3. IsNumber(SubSeq(t, j + 2, k)) <=> NumberAt(s, b + j + 1, b + k)
        <5>1. /\ b + j + 1 \in Int /\ b + k \in Int /\ 1 <= b + j + 1
              /\ b + j + 1 <= b + k /\ b + k <= Len(s) + 1
          BY <1>0, <3>2
        <5> HIDE DEF n, Split
        <5>2. IsNumber(SubSeq(s, b + j + 1, (b + k) - 1))
                <=> NumberAt(s, b + j + 1, b + k)
          BY <5>1, NumberParts
        <5> QED  BY <4>2, <5>2
      <4>4. j # k /\ b + j < b + k /\ b + j # b + k  BY <3>2
      <4> HIDE DEF n, Split
      <4> QED  BY <4>1, <4>3, <4>4
    <3> HIDE DEF n, Split
    <3> QED  BY <3>1, <3>2
  <2>5. SubSeq(t, k + 1, n) \in
           {<<>>, <<"l">>, <<"l", "l">>, <<"h">>, <<"h", "h">>,
            <<"t">>, <<"j">>, <<"z">>}
        <=> LengthAt(s, b + k, e)
    <3>1. SubSeq(t, k + 1, n) = SubSeq(s, b + k, e - 1)
      <4>1. SubSeq(t, k + 1, n) = SubSeq(s, b + (k + 1) - 1, (b + n) - 1)
        <5>1. n \in Int /\ k + 1 \in Int /\ 1 <= k + 1 /\ k + 1 <= n + 1 /\ n <= n
          BY <1>0
        <5> HIDE DEF n, Split
        <5> QED  BY <1>2, <5>1
      <4>2. b + (k + 1) - 1 = b + k /\ (b + n) - 1 = e - 1  OBVIOUS
      <4> QED  BY <4>1, <4>2
    <3>2. b + k \in Int /\ 1 <= b + k /\ b + k <= e  BY <1>0
    <3> HIDE DEF n, Split
    <3> QED  BY <3>1, <3>2, LengthParts
  <2> HIDE DEF n
  <2> QED  BY <2>1, <2>2, <2>3, <2>4, <2>5 DEF SplitAt
<1>5. ASSUME NEW x \in Int, NEW y \in Int, NEW z \in Int,
             SplitAt(s, b, x, y, z, e)
      PROVE  /\ x - b \in 0..n /\ y - b \in 0..n /\ z - b \in 0..n
             /\ SplitAt(s, b, b + (x - b), b + (y - b), b + (z - b), e)
  <2>1. b <= x /\ x <= y /\ y <= z /\ z <= e  BY <1>5 DEF SplitAt
  <2>2. b + (x - b) = x /\ b + (y - b) = y /\ b + (z - b) = z  OBVIOUS
  <2> QED  BY <1>5, <2>1, <2>2
<1> HIDE DEF n, Split
<1>6. ASSUME IsFields(t)
      PROVE  \E x \in Int, y \in Int, z \in Int : SplitAt(s, b, x, y, z, e)
  <2>1. PICK i \in 0..n, j \in 0..n, k \in 0..n : Split(i, j, k)
    BY <1>3, <1>6
  <2>2. b + i \in Int /\ b + j \in Int /\ b + k \in Int  BY <1>0
  <2> QED  BY <1>4, <2>1, <2>2
<1>7. ASSUME NEW x \in Int, NEW y \in Int, NEW z \in Int,
             SplitAt(s, b, x, y, z, e)
      PROVE  IsFields(t)
  BY <1>3, <1>4, <1>5, <1>7
<1> QED  BY <1>6, <1>7 DEF t

-----------------------------------------------------------------------------
(* Where the scanner ends a field.                                         *)

NumberEnd(i) == IF CharAt(i) = "*" THEN i + 1 ELSE RunEnd(i, DigitChars)
PrecEnd(i) == IF CharAt(i) = "." THEN NumberEnd(i + 1) ELSE i
LengthEnd(i) ==
  IF CharAt(i) \notin {"l", "h", "t", "j", "z"} THEN i
  ELSE IF CharAt(i) \in {"l", "h"} /\ CharAt(i + 1) = CharAt(i)
  THEN i + 2 ELSE i + 1

(* The places the scanner goes through from i on.                          *)
Greedy(i, f, w, q, e) ==
  /\ f = RunEnd(i, FlagChars)
  /\ w = NumberEnd(f)
  /\ q = PrecEnd(w)
  /\ e = LengthEnd(q)

(* A run ends, at the NUL if not before.                                   *)
LEMMA RunEndIs ==
  ASSUME IsSeq(call.chars), NEW i \in 1..Len(call.chars) + 1,
         NEW S, NUL \notin S
  PROVE  /\ RunEnd(i, S) \in i..Len(call.chars) + 1
         /\ CharAt(RunEnd(i, S)) \notin S
         /\ \A k \in i..RunEnd(i, S) - 1 : CharAt(k) \in S
<1> DEFINE n == Len(call.chars)
           T == {j \in i..n + 1 : CharAt(j) \notin S}
           P(j) == CharAt(j) \notin S /\ \A k \in i..j-1 : CharAt(k) \in S
<1>0. n \in Nat  BY StringIs DEF IsSeq
<1>1. CharAt(n + 1) = NUL  BY <1>0 DEF CharAt
<1>2. T \in SUBSET Nat /\ n + 1 \in T  BY <1>0, <1>1
<1>3. PICK j \in T : \A k \in T : j <= k
  <2> HIDE DEF T
  <2> QED  BY <1>2, LeastNat
<1>4. j \in i..n + 1 /\ P(j)
  <2>1. ASSUME NEW k \in i..j-1  PROVE CharAt(k) \in S
    <3>1. k \in i..n + 1 /\ ~(j <= k)  BY <1>0
    <3> QED  BY <1>3, <3>1
  <2> QED  BY <1>3, <2>1
<1>5. RunEnd(i, S) = CHOOSE r \in i..n + 1 : P(r)  BY DEF RunEnd
<1> HIDE DEF P, n
<1>6. RunEnd(i, S) \in i..n + 1 /\ P(RunEnd(i, S))  BY <1>4, <1>5
<1> QED  BY <1>6 DEF P, n

(* A number ends within the format.                                        *)
LEMMA NumberEndIs ==
  ASSUME IsSeq(call.chars), NEW i \in 1..Len(call.chars) + 1
  PROVE  /\ NumberEnd(i) \in i..Len(call.chars) + 1
         /\ NumberAt(call.chars, i, NumberEnd(i))
         /\ \A k \in i..NumberEnd(i) - 1 : CharAt(k) \in DigitChars \union {"*"}
<1> DEFINE n == Len(call.chars)
<1>0. n \in Nat  BY StringIs DEF IsSeq
<1>1. CASE CharAt(i) = "*"
  <2>1. i <= n  BY <1>0, <1>1 DEF CharAt, NUL
  <2>2. call.chars[i] = "*"  BY <1>1, <2>1 DEF CharAt
  <2>3. NumberEnd(i) = i + 1  BY <1>1 DEF NumberEnd
  <2>4. \A k \in i..i + 1 - 1 : k = i  OBVIOUS
  <2> QED  BY <1>0, <1>1, <2>1, <2>2, <2>3, <2>4 DEF NumberAt
<1>2. CASE CharAt(i) # "*"
  <2> DEFINE r == RunEnd(i, DigitChars)
  <2>1. NumberEnd(i) = r  BY <1>2 DEF NumberEnd
  <2>2. NUL \notin DigitChars  BY DEF NUL, DigitChars
  <2>3. r \in i..n + 1 /\ \A k \in i..r-1 : CharAt(k) \in DigitChars
    BY <2>2, RunEndIs
  <2> HIDE DEF r
  <2>4. ASSUME NEW k \in i..r-1  PROVE call.chars[k] \in DigitChars
    <3>1. k <= n  BY <1>0, <2>3
    <3> QED  BY <2>3, <3>1 DEF CharAt
  <2> QED  BY <2>1, <2>3, <2>4 DEF NumberAt
<1> QED  BY <1>1, <1>2

(* No number that starts where this one does gets further.                 *)
LEMMA NumberLongest ==
  ASSUME IsSeq(call.chars), NEW i \in 1..Len(call.chars) + 1,
         NEW b \in 1..i, NEW e \in Int, e <= Len(call.chars) + 1,
         NumberAt(call.chars, b, e),
         b = i \/ CharAt(b) # "*"
  PROVE  e <= NumberEnd(i)
<1> DEFINE n == Len(call.chars)
<1>0. n \in Nat /\ b \in Int /\ i \in Int  BY StringIs DEF IsSeq
<1>1. NumberEnd(i) \in i..n + 1  BY NumberEndIs
<1> SUFFICES ASSUME e > i  PROVE e <= NumberEnd(i)
  BY <1>0, <1>1
<1>2. b <= n /\ CharAt(b) = call.chars[b]  BY <1>0 DEF CharAt
<1>3. CASE e = b + 1 /\ call.chars[b] = "*"
  <2>1. b = i  BY <1>2, <1>3
  <2>2. NumberEnd(i) = i + 1  BY <1>2, <1>3, <2>1 DEF NumberEnd
  <2> QED  BY <1>3, <2>1, <2>2
<1>4. CASE \A k \in b..e-1 : call.chars[k] \in DigitChars
  <2>1. ASSUME NEW k \in b..e-1  PROVE CharAt(k) \in DigitChars
    <3>1. k <= n  BY <1>0
    <3> QED  BY <1>4, <3>1 DEF CharAt
  <2>2. CharAt(i) # "*"
    <3>1. CharAt(i) \in DigitChars  BY <1>0, <2>1
    <3> QED  BY <3>1 DEF DigitChars
  <2> DEFINE r == RunEnd(i, DigitChars)
  <2>3. NumberEnd(i) = r  BY <2>2 DEF NumberEnd
  <2>4. NUL \notin DigitChars  BY DEF NUL, DigitChars
  <2>5. r \in i..n + 1 /\ CharAt(r) \notin DigitChars  BY <2>4, RunEndIs
  <2> HIDE DEF r
  <2>6. ~(r < e)
    <3> SUFFICES ASSUME r < e PROVE FALSE
      OBVIOUS
    <3>1. r \in b..e-1  BY <1>0, <2>5
    <3> QED  BY <2>1, <2>5, <3>1
  <2> QED  BY <1>0, <2>3, <2>5, <2>6
<1> QED  BY <1>3, <1>4 DEF NumberAt

(* The characters that may stand before a precision, and before a length   *)
(* modifier.                                                               *)
BeforePrec == FlagChars \union DigitChars \union {"*"}
BeforeLength == BeforePrec \union {"."}

(* The scanner's places are in order, and what it skips are the characters *)
(* of its fields.                                                          *)
LEMMA GreedyIs ==
  ASSUME IsSeq(call.chars), NEW i \in 1..Len(call.chars) + 1,
         NEW f, NEW w, NEW q, NEW e, Greedy(i, f, w, q, e)
  PROVE  /\ f \in i..Len(call.chars) + 1 /\ CharAt(f) \notin FlagChars
         /\ \A k \in i..f-1 : CharAt(k) \in FlagChars
         /\ w \in f..Len(call.chars) + 1
         /\ \A k \in i..w-1 : CharAt(k) \in BeforePrec
         /\ q \in w..Len(call.chars) + 1
         /\ \A k \in i..q-1 : CharAt(k) \in BeforeLength
         /\ e \in q..Len(call.chars) + 1
<1> DEFINE n == Len(call.chars)
<1>0. n \in Nat  BY StringIs DEF IsSeq
<1>1. NUL \notin FlagChars  BY DEF NUL, FlagChars
<1>2. /\ f \in i..n + 1 /\ CharAt(f) \notin FlagChars
      /\ \A k \in i..f-1 : CharAt(k) \in FlagChars
  BY <1>1, RunEndIs DEF Greedy
<1>3. f \in 1..n + 1  BY <1>0, <1>2
<1>4. /\ w \in f..n + 1
      /\ \A k \in f..w-1 : CharAt(k) \in DigitChars \union {"*"}
  BY <1>3, NumberEndIs DEF Greedy
<1>5. \A k \in i..w-1 : CharAt(k) \in BeforePrec
  <2> TAKE k \in i..w-1
  <2>1. k \in i..f-1 \/ k \in f..w-1  BY <1>2, <1>4
  <2> QED  BY <1>2, <1>4, <2>1 DEF BeforePrec
<1>6. /\ q \in w..n + 1
      /\ \A k \in w..q-1 : CharAt(k) \in DigitChars \union {"*", "."}
  <2>1. CASE CharAt(w) # "."
    <3>1. q = w  BY <2>1 DEF Greedy, PrecEnd
    <3> QED  BY <1>0, <1>4, <3>1
  <2>2. CASE CharAt(w) = "."
    <3>1. w <= n  BY <1>0, <1>4, <2>2 DEF CharAt, NUL
    <3>2. w + 1 \in 1..n + 1  BY <1>0, <1>3, <1>4, <3>1
    <3>3. q = NumberEnd(w + 1)  BY <2>2 DEF Greedy, PrecEnd
    <3>4. /\ q \in w + 1..n + 1
          /\ \A k \in w + 1..q-1 : CharAt(k) \in DigitChars \union {"*"}
      BY <3>2, <3>3, NumberEndIs
    <3>5. ASSUME NEW k \in w..q-1
          PROVE  CharAt(k) \in DigitChars \union {"*", "."}
      <4>1. k = w \/ k \in w + 1..q-1  BY <1>0, <1>4, <3>4
      <4> QED  BY <2>2, <3>4, <4>1
    <3> QED  BY <1>0, <1>4, <3>4, <3>5
  <2> QED  BY <2>1, <2>2
<1>7. \A k \in i..q-1 : CharAt(k) \in BeforeLength
  <2> TAKE k \in i..q-1
  <2>1. k \in i..w-1 \/ k \in w..q-1  BY <1>2, <1>4, <1>6
  <2> QED  BY <1>5, <1>6, <2>1 DEF BeforePrec, BeforeLength
<1>8. e \in q..n + 1
  <2>1. CharAt(q) \in {"l", "h", "t", "j", "z"} => q <= n
    BY <1>0, <1>3, <1>4, <1>6 DEF CharAt, NUL
  <2>2. CharAt(q + 1) \in {"l", "h"} => q + 1 <= n
    BY <1>0, <1>3, <1>4, <1>6 DEF CharAt, NUL
  <2> QED  BY <1>0, <1>3, <1>4, <1>6, <2>1, <2>2 DEF Greedy, LengthEnd
<1> QED  BY <1>2, <1>4, <1>5, <1>6, <1>7, <1>8

(* What the scanner reads are fields,                                      *)
LEMMA GreedySplits ==
  ASSUME IsSeq(call.chars), NEW i \in 1..Len(call.chars) + 1,
         NEW f, NEW w, NEW q, NEW e, Greedy(i, f, w, q, e)
  PROVE  SplitAt(call.chars, i, f, w, q, e)
<1> DEFINE n == Len(call.chars)
<1>0. n \in Nat  BY StringIs DEF IsSeq
<1>1. /\ f \in i..n + 1 /\ w \in f..n + 1 /\ q \in w..n + 1 /\ e \in q..n + 1
      /\ \A k \in i..f-1 : CharAt(k) \in FlagChars
  BY GreedyIs
<1>2. \A k \in i..f-1 : call.chars[k] \in FlagChars
  <2> TAKE k \in i..f-1
  <2>1. k <= n  BY <1>0, <1>1
  <2> QED  BY <1>1, <2>1 DEF CharAt
<1>3. NumberAt(call.chars, f, w)
  <2>1. f \in 1..n + 1  BY <1>0, <1>1
  <2> QED  BY <2>1, NumberEndIs DEF Greedy
<1>4. w = q \/ (w < q /\ call.chars[w] = "." /\ NumberAt(call.chars, w + 1, q))
  <2>1. CASE CharAt(w) # "."  BY <2>1 DEF Greedy, PrecEnd
  <2>2. CASE CharAt(w) = "."
    <3>1. w <= n  BY <1>0, <1>1, <2>2 DEF CharAt, NUL
    <3>2. w + 1 \in 1..n + 1  BY <1>0, <1>1, <3>1
    <3>3. q = NumberEnd(w + 1)  BY <2>2 DEF Greedy, PrecEnd
    <3>4. q \in w + 1..n + 1 /\ NumberAt(call.chars, w + 1, q)
      BY <3>2, <3>3, NumberEndIs
    <3>5. call.chars[w] = "."  BY <2>2, <3>1 DEF CharAt
    <3> QED  BY <1>0, <1>1, <3>4, <3>5
  <2> QED  BY <2>1, <2>2
<1>5. LengthAt(call.chars, q, e)
  <2>1. CharAt(q) \in {"l", "h", "t", "j", "z"} =>
          q <= n /\ CharAt(q) = call.chars[q]
    BY <1>0, <1>1 DEF CharAt, NUL
  <2>2. CharAt(q + 1) \in {"l", "h"} => CharAt(q + 1) = call.chars[q + 1]
    BY <1>0, <1>1 DEF CharAt, NUL
  <2> QED  BY <1>0, <1>1, <2>1, <2>2 DEF Greedy, LengthEnd, LengthAt
<1>6. i <= f /\ f <= w /\ w <= q /\ q <= e  BY <1>0, <1>1
<1> QED  BY <1>2, <1>3, <1>4, <1>5, <1>6 DEF SplitAt

(* and no fields behind the `%' get further.                               *)
LEMMA GreedyLongest ==
  ASSUME IsSeq(call.chars), NEW i \in 1..Len(call.chars) + 1,
         NEW f, NEW w, NEW q, NEW e, Greedy(i, f, w, q, e),
         NEW x \in Int, NEW y \in Int, NEW z \in Int,
         NEW m \in Int, m <= Len(call.chars) + 1,
         SplitAt(call.chars, i, x, y, z, m)
  PROVE  m <= e
<1> DEFINE n == Len(call.chars)
<1>0. n \in Nat  BY StringIs DEF IsSeq
<1>1. /\ f \in i..n + 1 /\ w \in f..n + 1 /\ q \in w..n + 1 /\ e \in q..n + 1
      /\ CharAt(f) \notin FlagChars
      /\ \A k \in i..f-1 : CharAt(k) \in FlagChars
      /\ \A k \in i..w-1 : CharAt(k) \in BeforePrec
      /\ \A k \in i..q-1 : CharAt(k) \in BeforeLength
  BY GreedyIs
<1>2. i <= x /\ x <= y /\ y <= z /\ z <= m  BY DEF SplitAt
<1>3. \A k \in i..m-1 : CharAt(k) = call.chars[k]  BY <1>0, <1>2 DEF CharAt
(* Flags.                                                                  *)
<1>4. x <= f
  <2> SUFFICES ASSUME f < x PROVE FALSE
    BY <1>0, <1>1
  <2>1. f \in i..x-1 /\ f \in i..m-1  BY <1>0, <1>1, <1>2
  <2>2. call.chars[f] \in FlagChars  BY <2>1 DEF SplitAt
  <2> QED  BY <1>1, <1>3, <2>1, <2>2
(* Width.                                                                  *)
<1>5. y <= w
  <2>1. x = f \/ CharAt(x) # "*"
    <3> SUFFICES ASSUME x < f PROVE CharAt(x) # "*"
      BY <1>0, <1>1, <1>4
    <3>1. CharAt(x) \in FlagChars  BY <1>0, <1>1, <1>2
    <3> QED  BY <3>1 DEF FlagChars
  <2>2. NumberAt(call.chars, x, y)  BY DEF SplitAt
  <2>3. f \in 1..n + 1 /\ x \in 1..f /\ y <= n + 1
    BY <1>0, <1>1, <1>2, <1>4
  <2>4. y <= NumberEnd(f)  BY <2>1, <2>2, <2>3, NumberLongest
  <2> QED  BY <2>4 DEF Greedy
(* Precision.                                                              *)
<1>6. z <= q
  <2>1. CASE y = z  BY <1>0, <1>1, <1>5, <2>1
  <2>2. CASE y < z /\ call.chars[y] = "." /\ NumberAt(call.chars, y + 1, z)
    <3>1. y \in i..m-1 /\ CharAt(y) = "."  BY <1>2, <1>3, <2>2
    <3>2. y = w
      <4> SUFFICES ASSUME y < w PROVE FALSE
        BY <1>0, <1>1, <1>5
      <4>1. CharAt(y) \in BeforePrec  BY <1>0, <1>1, <1>2
      <4> QED  BY <3>1, <4>1 DEF BeforePrec, FlagChars, DigitChars
    <3>3. q = NumberEnd(w + 1)  BY <3>1, <3>2 DEF Greedy, PrecEnd
    <3>4. w + 1 \in 1..n + 1 /\ w + 1 \in 1..w + 1 /\ z <= n + 1
      BY <1>0, <1>1, <1>2, <2>2, <3>2
    <3>5. z <= NumberEnd(w + 1)  BY <2>2, <3>2, <3>4, NumberLongest
    <3> QED  BY <3>3, <3>5
  <2> QED  BY <2>1, <2>2 DEF SplitAt
(* Length modifier.                                                        *)
<1>7. CASE m = z  BY <1>0, <1>1, <1>6, <1>7
<1>8. CASE m > z
  <2>1. LengthAt(call.chars, z, m)  BY DEF SplitAt
  <2>2. call.chars[z] \in {"l", "h", "t", "j", "z"}
    BY <1>8, <2>1 DEF LengthAt
  <2>3. CharAt(z) = call.chars[z]  BY <1>2, <1>3, <1>8
  <2>4. z = q
    <3> SUFFICES ASSUME z < q PROVE FALSE
      BY <1>0, <1>1, <1>6
    <3>1. CharAt(z) \in BeforeLength  BY <1>0, <1>1, <1>2
    <3> QED
      BY <2>2, <2>3, <3>1 DEF BeforeLength, BeforePrec, FlagChars, DigitChars
  <2>5. CASE m = z + 1
    <3>1. CharAt(q) \in {"l", "h", "t", "j", "z"}  BY ONLY <2>2, <2>3, <2>4
    <3>2. e = LengthEnd(q)  BY DEF Greedy
    <3>3. e \in {q + 1, q + 2}  BY ONLY <3>1, <3>2 DEF LengthEnd
    <3> QED  BY <1>0, <1>1, <2>4, <2>5, <3>3
  <2>6. CASE /\ m = z + 2 /\ call.chars[z] \in {"l", "h"}
             /\ call.chars[z + 1] = call.chars[z]
    <3>1. z + 1 \in i..m-1  BY <1>2, <2>6
    <3>2. CharAt(z + 1) = CharAt(z)  BY <1>3, <2>3, <2>6, <3>1
    <3>3. e = q + 2  BY <2>3, <2>4, <2>6, <3>2 DEF Greedy, LengthEnd
    <3> QED  BY <2>4, <2>6, <3>3
  <2> QED  BY <1>8, <2>1, <2>5, <2>6 DEF LengthAt
<1> QED  BY <1>2, <1>7, <1>8

-----------------------------------------------------------------------------
(* The longest fields, and where they cut a format short.                  *)

LongestFields(s, i, j) ==
  /\ IsFields(SubSeq(s, i + 1, j))
  /\ \A k \in j+1..Len(s) : ~IsFields(SubSeq(s, i + 1, k))

(* There are longest fields: at least the empty ones.                      *)
LEMMA FieldsEndIs ==
  ASSUME NEW s, IsSeq(s), NEW i \in 1..Len(s)
  PROVE  FieldsEnd(s, i) \in i..Len(s) /\ LongestFields(s, i, FieldsEnd(s, i))
<1> DEFINE n == Len(s)
           T == {m \in 0..n - i : IsFields(SubSeq(s, i + 1, n - m))}
<1>0. n \in Nat  BY StringIs DEF IsSeq
<1>1. IsFields(SubSeq(s, i + 1, i))
  <2>1. SplitAt(s, i + 1, i + 1, i + 1, i + 1, i + 1)
    BY DEF SplitAt, NumberAt, LengthAt
  <2>2. i + 1 \in Int /\ 1 <= i + 1 /\ i + 1 <= n + 1 /\ (i + 1) - 1 = i
    BY <1>0
  <2>3. IsFields(SubSeq(s, i + 1, (i + 1) - 1))  BY <2>1, <2>2, FieldsParts
  <2> QED  BY <2>2, <2>3
<1>2. n - i \in T
  <2>1. n - (n - i) = i /\ n - i \in 0..n - i  BY <1>0
  <2> QED  BY <1>1, <2>1
<1>3. T \in SUBSET Nat  BY <1>0
<1>4. PICK m \in T : \A k \in T : m <= k
  <2> HIDE DEF T
  <2> QED  BY <1>2, <1>3, LeastNat
<1>5. n - m \in i..n /\ LongestFields(s, i, n - m)
  <2>1. n - m \in i..n  BY <1>0
  <2>2. ASSUME NEW k \in (n - m)+1..n, IsFields(SubSeq(s, i + 1, k))
        PROVE  FALSE
    <3>1. n - k \in 0..n - i /\ n - (n - k) = k /\ ~(m <= n - k)  BY <1>0
    <3>2. n - k \in T  BY <2>2, <3>1
    <3> QED  BY <1>4, <3>1, <3>2
  <2> QED  BY <2>1, <2>2 DEF LongestFields
<1>6. FieldsEnd(s, i) = CHOOSE j \in i..n : LongestFields(s, i, j)
  BY DEF FieldsEnd, LongestFields
<1> QED  BY <1>5, <1>6

(* The scanner ends the fields where the grammar does.                     *)
LEMMA ScannedFields ==
  ASSUME IsSeq(call.chars), NEW i \in 1..Len(call.chars),
         NEW f, NEW w, NEW q, NEW e, Greedy(i + 1, f, w, q, e)
  PROVE  FieldsEnd(call.chars, i) = e - 1 /\ e \in i + 1..Len(call.chars) + 1
<1> DEFINE s == call.chars
           n == Len(s)
           j == FieldsEnd(s, i)
<1>0. n \in Nat /\ i + 1 \in 1..n + 1  BY StringIs DEF IsSeq
<1>1. j \in i..n /\ LongestFields(s, i, j)  BY FieldsEndIs
<1>2. e \in i + 1..n + 1 /\ f \in Int /\ w \in Int /\ q \in Int
  <2>1. /\ f \in i + 1..n + 1 /\ w \in f..n + 1 /\ q \in w..n + 1
        /\ e \in q..n + 1
    BY <1>0, GreedyIs
  <2> QED  BY <1>0, <2>1
<1> HIDE DEF j
<1>3. ~(j < e - 1)
  <2> SUFFICES ASSUME j < e - 1 PROVE FALSE
    OBVIOUS
  <2>1. SplitAt(s, i + 1, f, w, q, e)  BY <1>0, GreedySplits
  <2>2. /\ i + 1 \in Int /\ e \in Int /\ 1 <= i + 1 /\ i + 1 <= e /\ e <= n + 1
    BY <1>0, <1>2
  <2>3. IsFields(SubSeq(s, i + 1, e - 1))
    BY <1>2, <2>1, <2>2, FieldsParts
  <2>4. e - 1 \in j+1..n  BY <1>0, <1>1, <1>2
  <2> QED  BY <1>1, <2>3, <2>4 DEF LongestFields
<1>4. ~(j > e - 1)
  <2> SUFFICES ASSUME j > e - 1 PROVE FALSE
    OBVIOUS
  <2>1. /\ i + 1 \in Int /\ j + 1 \in Int /\ 1 <= i + 1 /\ i + 1 <= j + 1
        /\ j + 1 <= n + 1 /\ (j + 1) - 1 = j
    BY <1>0, <1>1
  <2>2. IsFields(SubSeq(s, i + 1, (j + 1) - 1))  BY <1>1, <2>1 DEF LongestFields
  <2>3. PICK x \in Int, y \in Int, z \in Int : SplitAt(s, i + 1, x, y, z, j + 1)
    BY <2>1, <2>2, FieldsParts
  <2>4. j + 1 <= e  BY <1>0, <2>1, <2>3, GreedyLongest
  <2> QED  BY <1>1, <1>2, <2>4
<1> QED  BY <1>1, <1>2, <1>3, <1>4 DEF j

(* What CutFrom says of position i, given what c says of the later ones.   *)
CutStep(s, c, i) ==
  IF i = Len(s) + 1 THEN FALSE
  ELSE IF s[i] # "%" THEN c[i + 1]
  ELSE IF FieldsEnd(s, i) = Len(s) THEN TRUE
  ELSE c[FieldsEnd(s, i) + 2]

IsCut(s, m, c) == c = [i \in m..Len(s)+1 |-> CutStep(s, c, i)]

(* A step asks for later positions within the string only.                 *)
LEMMA CutStepLooksAhead ==
  ASSUME NEW s, IsSeq(s), NEW i \in 1..Len(s) + 1, NEW c, NEW d,
         \A k \in i+1..Len(s) + 1 : c[k] = d[k]
  PROVE  CutStep(s, c, i) = CutStep(s, d, i)
<1>0. Len(s) \in Nat  BY StringIs DEF IsSeq
<1>1. CASE i = Len(s) + 1  BY <1>1 DEF CutStep
<1>2. CASE i # Len(s) + 1
  <2>1. i \in 1..Len(s)  BY <1>0, <1>2
  <2>2. FieldsEnd(s, i) \in i..Len(s)  BY <2>1, FieldsEndIs
  <2>3. i + 1 \in i+1..Len(s) + 1  BY <1>0, <2>1
  <2>4. FieldsEnd(s, i) # Len(s) =>
          FieldsEnd(s, i) + 2 \in i+1..Len(s) + 1
    BY <1>0, <2>1, <2>2
  <2> QED  BY <2>3, <2>4 DEF CutStep
<1> QED  BY <1>1, <1>2

(* CutFrom is defined: such a function exists from the end of the string   *)
(* on, and with m + 1 from m on.                                           *)
LEMMA CutExists ==
  ASSUME NEW s, IsSeq(s)
  PROVE  \E c : IsCut(s, 1, c)
<1> DEFINE n == Len(s)
           T == {m \in 1..n + 1 : \E c : IsCut(s, m, c)}
<1>0. n \in Nat  BY StringIs DEF IsSeq
<1>1. n + 1 \in T
  <2> DEFINE c == [i \in n+1..n+1 |-> FALSE]
  <2>1. \A i \in n+1..n+1 : CutStep(s, c, i) = FALSE
    <3> HIDE DEF c
    <3>1. \A i \in n+1..n+1 : i = n + 1  BY <1>0
    <3> QED  BY <3>1 DEF CutStep
  <2>2. c = [i \in n+1..n+1 |-> CutStep(s, c, i)]
    <3> DEFINE d == [i \in n+1..n+1 |-> CutStep(s, c, i)]
    <3> HIDE DEF d
    <3>1. d = [i \in n+1..n+1 |-> FALSE]  BY <2>1 DEF d
    <3> QED  BY <3>1 DEF d
  <2> HIDE DEF c
  <2> QED  BY <1>0, <2>2 DEF IsCut
<1>2. T \in SUBSET Nat  OBVIOUS
<1>3. PICK m \in T : \A k \in T : m <= k
  <2> HIDE DEF T
  <2> QED  BY <1>1, <1>2, LeastNat
<1>4. m = 1
  <2> SUFFICES ASSUME m # 1 PROVE FALSE
    OBVIOUS
  <2>1. m \in 2..n + 1 /\ m - 1 \in 1..n + 1 /\ ~(m <= m - 1)  BY <1>0
  <2>2. PICK c : IsCut(s, m, c)  OBVIOUS
  <2> DEFINE d == [i \in m-1..n+1 |-> IF i = m - 1 THEN CutStep(s, c, i)
                                                   ELSE c[i]]
  <2>3. \A i \in m..n+1 : d[i] = c[i]
    BY <1>0, <2>1
  <2>4. d = [i \in m-1..n+1 |-> CutStep(s, d, i)]
    <3>1. ASSUME NEW i \in m-1..n+1
          PROVE  d[i] = CutStep(s, d, i)
      <4> HIDE DEF d
      <4>1. CutStep(s, d, i) = CutStep(s, c, i)
        <5>1. i \in 1..n + 1 /\ \A k \in i+1..n+1 : k \in m..n+1
          BY <1>0, <2>1
        <5>2. \A k \in i+1..n+1 : d[k] = c[k]  BY <2>3, <5>1
        <5> QED  BY <5>1, <5>2, CutStepLooksAhead
      <4>2. CASE i = m - 1
        <5>1. d[i] = CutStep(s, c, i)  BY <4>2 DEF d
        <5> QED  BY <4>1, <5>1
      <4>3. CASE i # m - 1
        <5>1. i \in m..n+1  BY <1>0, <2>1, <4>3
        <5>2. c[i] = CutStep(s, c, i)  BY <2>2, <5>1 DEF IsCut
        <5> QED  BY <2>3, <4>1, <5>1, <5>2
      <4> QED  BY <4>2, <4>3
    <3>2. d = [i \in m-1..n+1 |-> d[i]]  OBVIOUS
    <3> HIDE DEF d
    <3> QED  BY <3>1, <3>2
  <2> HIDE DEF d
  <2>5. IsCut(s, m - 1, d)  BY <2>4 DEF IsCut
  <2>6. m - 1 \in T  BY <2>1, <2>5
  <2> QED  BY <1>3, <2>1, <2>6
<1> QED  BY <1>4

(* So it can be unfolded.                                                  *)
LEMMA CutUnfolds ==
  ASSUME NEW s, IsSeq(s), NEW i \in 1..Len(s) + 1
  PROVE  CutFrom(s)[i] = CutStep(s, CutFrom(s), i)
<1>1. CutFrom(s) = CHOOSE c : IsCut(s, 1, c)  BY DEF CutFrom, IsCut, CutStep
<1>2. IsCut(s, 1, CutFrom(s))  BY <1>1, CutExists, Zenon
<1> HIDE DEF CutFrom
<1> QED  BY <1>2 DEF IsCut

-----------------------------------------------------------------------------
(* Where the scanner stands, the rest of the format is cut short just when *)
(* the whole is; it gets behind the NUL only by a specification that is    *)
(* cut short.                                                              *)
ScanInv ==
  /\ call \in CALLS /\ at \in 1..Len(call.chars) + 2
  /\ IF at = Len(call.chars) + 2 THEN CutShort(call.chars)
     ELSE CutFrom(call.chars)[at] = CutShort(call.chars)
  /\ pc = "done" => at = Len(call.chars) + 1

(* The formats are strings.                                                *)
LEMMA CallIs ==
  ASSUME ScanInv
  PROVE  IsSeq(call.chars) /\ Len(call.chars) \in Nat
BY CallsAssumption, StringIs DEF ScanInv, IsSeq

(* The steps one by one: an ordinary character,                            *)
LEMMA ScanCharStep ==
  ASSUME ScanInv, ScanChar
  PROVE  ScanInv'
<1>1. IsSeq(call.chars) /\ Len(call.chars) \in Nat  BY CallIs
<1>2. at \in 1..Len(call.chars) /\ call.chars[at] # "%"
  BY <1>1 DEF ScanInv, ScanChar, Reading, CharAt
<1>3. CutFrom(call.chars)[at] = CutFrom(call.chars)[at + 1]
  <2>1. CutFrom(call.chars)[at] = CutStep(call.chars, CutFrom(call.chars), at)
    BY <1>1, <1>2, CutUnfolds
  <2>2. at # Len(call.chars) + 1  BY <1>1, <1>2
  <2> QED  BY <1>2, <2>1, <2>2 DEF CutStep
<1>4. call' = call /\ at' = at + 1 /\ pc' = pc /\ pc = "format"
  BY DEF ScanChar, Reading
<1> QED  BY <1>1, <1>2, <1>3, <1>4 DEF ScanInv

(* a conversion specification, cut short or not: width and precision leave *)
(* a record what it is,                                                    *)
LEMMA FieldsKept ==
  ASSUME NEW c
  PROVE  DOMAIN ScanPrec(ScanWidth(c)) = DOMAIN c
<1>1. \A b : DOMAIN ScanWidth(b) = DOMAIN b  BY DEF ScanWidth
<1>2. \A b : DOMAIN ScanPrec(b) = DOMAIN b  BY DEF ScanPrec
<1> QED  BY ONLY <1>1, <1>2

(* and the length modifier ends where LengthEnd says,                      *)
LEMMA LengthEnds ==
  ASSUME NEW c, "at" \in DOMAIN c
  PROVE  ScanLength(c).at = LengthEnd(c.at)
BY DEF ScanLength, LengthEnd

(* so that the whole step is a step of the grammar,                        *)
LEMMA ScanDirectiveStep ==
  ASSUME ScanInv, ScanDirective
  PROVE  ScanInv'
<1> DEFINE s == call.chars
           n == Len(s)
           f == ScanFlags(at + 1)
           w == ScanWidth(f)
           q == ScanPrec(w)
           e == ScanLength(q)
<1>1. IsSeq(s) /\ n \in Nat  BY CallIs
<1>2. at \in 1..n /\ s[at] = "%"
  BY <1>1 DEF ScanInv, ScanDirective, Reading, CharAt
<1>3. Greedy(at + 1, f.at, w.at, q.at, e.at)
  <2>1. f.at = RunEnd(at + 1, FlagChars)  BY DEF ScanFlags
  <2>2. w.at = NumberEnd(f.at)
    BY DEF ScanFlags, ScanWidth, Number, NumberEnd
  <2>3. q.at = PrecEnd(w.at)
    BY DEF ScanFlags, ScanWidth, ScanPrec, Number, NumberEnd, PrecEnd
  <2>4. e.at = LengthEnd(q.at)
    <3>1. "at" \in DOMAIN f  BY DEF ScanFlags
    <3> HIDE DEF f
    <3>2. "at" \in DOMAIN q  BY <3>1, FieldsKept
    <3> HIDE DEF q
    <3> QED  BY <3>2, LengthEnds
  <2> QED  BY <2>1, <2>2, <2>3, <2>4 DEF Greedy
<1>4. call' = call /\ at' = e.at + 1 /\ pc' = pc /\ pc = "format"
  BY DEF ScanDirective, Reading
<1> HIDE DEF f, w, q, e
<1>5. FieldsEnd(s, at) = e.at - 1 /\ e.at \in at + 1..n + 1
  BY <1>1, <1>2, <1>3, ScannedFields
<1>6. CutFrom(s)[at] = CutStep(s, CutFrom(s), at)  BY <1>1, <1>2, CutUnfolds
<1>7. at # n + 1 /\ at # n + 2  BY <1>1, <1>2
<1>8. CASE e.at = n + 1
  <2>1. CutFrom(s)[at] = TRUE  BY <1>1, <1>2, <1>5, <1>6, <1>7, <1>8 DEF CutStep
  <2>2. CutShort(s)  BY <1>7, <2>1 DEF ScanInv
  <2>3. at' = Len(call'.chars) + 2  BY <1>1, <1>4, <1>8
  <2>4. at' \in 1..Len(call'.chars) + 2  BY <1>1, <1>4, <2>3
  <2>5. CutShort(call'.chars)  BY <1>4, <2>2
  <2>6. call' \in CALLS /\ pc' # "done"  BY <1>4 DEF ScanInv
  <2> HIDE DEF s, n
  <2> QED  BY <2>3, <2>4, <2>5, <2>6 DEF ScanInv
<1>9. CASE e.at # n + 1
  <2>1. CutFrom(s)[at] = CutFrom(s)[e.at + 1]
    <3>1. FieldsEnd(s, at) # n /\ FieldsEnd(s, at) + 2 = e.at + 1
      BY <1>1, <1>2, <1>5, <1>9
    <3> QED  BY <1>2, <1>6, <1>7, <3>1 DEF CutStep
  <2>2. CutFrom(s)[e.at + 1] = CutShort(s)  BY <1>7, <2>1 DEF ScanInv
  <2>3. at' \in 1..n + 1  BY <1>1, <1>2, <1>4, <1>5, <1>9
  <2>4. at' # n + 2  BY <1>1, <2>3
  <2> QED  BY <1>1, <1>4, <2>2, <2>3, <2>4 DEF ScanInv
<1> QED  BY <1>8, <1>9

(* the formatting of what was read,                                        *)
LEMMA FormatStep ==
  ASSUME ScanInv, Format
  PROVE  ScanInv'
<1>1. pc' # "done"
  BY DEF Format, FormatText, FormatInt, NtoaDigit, Ntoa, Out
<1>2. call' = call /\ at' = at  BY DEF Format, scanVars
<1> QED  BY <1>1, <1>2 DEF ScanInv

(* and the end.                                                            *)
LEMMA ScanEndStep ==
  ASSUME ScanInv, ScanEnd
  PROVE  ScanInv'
BY DEF ScanInv, ScanEnd, scanVars

(* LeavesTheorem: whatever the format, printf reads beyond its NUL just    *)
(* when the format ends before the specification it is in does.            *)
THEOREM LeavesTheorem == ScanSpec => []LeavesFormatExactly
<1>1. ScanInit => ScanInv
  <2> SUFFICES ASSUME ScanInit PROVE ScanInv
    OBVIOUS
  <2>1. IsSeq(call.chars) /\ Len(call.chars) \in Nat
    BY CallsAssumption, StringIs DEF ScanInit, IsSeq
  <2>2. pc = "format" /\ at = 1 /\ call \in CALLS
    BY DEF ScanInit, PrintfInit
  <2> QED  BY <2>1, <2>2 DEF ScanInv, CutShort
<1>2. ScanInv /\ [ScanNext]_<<printfVars, scanVars>> => ScanInv'
  <2> SUFFICES ASSUME ScanInv, [ScanNext]_<<printfVars, scanVars>>
               PROVE  ScanInv'
    OBVIOUS
  <2>1. CASE UNCHANGED <<printfVars, scanVars>>
    BY <2>1 DEF ScanInv, printfVars, scanVars
  <2> QED
    BY <2>1, ScanCharStep, ScanDirectiveStep, FormatStep, ScanEndStep
    DEF ScanNext
<1>3. ScanInv => LeavesFormatExactly
  <2> SUFFICES ASSUME ScanInv PROVE LeavesFormatExactly
    OBVIOUS
  <2>1. IsSeq(call.chars) /\ Len(call.chars) \in Nat  BY CallIs
  <2>2. at > Len(call.chars) + 1 => CutShort(call.chars)
    BY <2>1 DEF ScanInv
  <2>3. pc = "done" => ~CutShort(call.chars)
    <3> SUFFICES ASSUME pc = "done" PROVE ~CutShort(call.chars)
      OBVIOUS
    <3>1. at = Len(call.chars) + 1 /\ at \in 1..Len(call.chars) + 1
          /\ at # Len(call.chars) + 2
      BY <2>1 DEF ScanInv
    <3>2. CutFrom(call.chars)[at] = FALSE
      <4>1. CutFrom(call.chars)[at]
              = CutStep(call.chars, CutFrom(call.chars), at)
        BY <2>1, <3>1, CutUnfolds
      <4> QED  BY <3>1, <4>1 DEF CutStep
    <3>3. CutFrom(call.chars)[at] = CutShort(call.chars)  BY <3>1 DEF ScanInv
    <3> QED  BY <3>2, <3>3
  <2> QED  BY <2>2, <2>3 DEF LeavesFormatExactly
<1> QED  BY <1>1, <1>2, <1>3, PTL DEF ScanSpec

-----------------------------------------------------------------------------
(* Numbers in a format.                                                    *)

(* A decimal digit is read as what it was written for.                     *)
LEMMA DigitReads ==
  ASSUME NEW n \in 0..9
  PROVE  Digit(n, FALSE) \in DigitChars /\ DigitValue(Digit(n, FALSE)) = n
<1> DEFINE D(m) == Digit(m, FALSE)
<1>3. /\ D(0) = "0" /\ D(1) = "1" /\ D(2) = "2" /\ D(3) = "3" /\ D(4) = "4"
      /\ D(5) = "5" /\ D(6) = "6" /\ D(7) = "7" /\ D(8) = "8" /\ D(9) = "9"
  BY DEF Digit
<1> HIDE DEF D
<1>4. \A m \in 0..9 : m = 0 \/ m = 1 \/ m = 2 \/ m = 3 \/ m = 4 \/ m = 5
                      \/ m = 6 \/ m = 7 \/ m = 8 \/ m = 9
  OBVIOUS
<1>5. \A m \in 0..9 : D(m) \in DigitChars
  BY ONLY <1>3, <1>4 DEF DigitChars
<1>6. \A m \in 0..9 : D(m) = D(n) => m = n
  <2> TAKE m \in 0..9
  <2>1. n \in 0..9  OBVIOUS
  <2> QED  BY ONLY <1>3, <1>4, <2>1, m \in 0..9
<1>7. DigitValue(D(n)) = CHOOSE m \in 0..9 : D(m) = D(n)
  BY DEF DigitValue, D
<1>8. DigitValue(D(n)) = n
  <2>1. n \in 0..9 /\ D(n) = D(n)  OBVIOUS
  <2> QED  BY ONLY <1>6, <1>7, <2>1
<1> QED  BY <1>5, <1>8 DEF D

(* f is what Atoi is defined by, for the first k characters of s.          *)
AtoiStep(f, s, n) ==
  IF n = 0 THEN 0
  ELSE (f[n - 1] * 10 + DigitValue(s[n])) % Two(BITS["int"])

IsAtoi(f, s, k) == f = [n \in 0..k |-> AtoiStep(f, s, n)]

(* There is such a function,                                               *)
LEMMA AtoiExists ==
  ASSUME NEW s, NEW k \in Nat
  PROVE  \E f : IsAtoi(f, s, k)
<1> DEFINE T == {j \in Nat : ~\E f : IsAtoi(f, s, j)}
<1> SUFFICES ASSUME T # {} PROVE FALSE
  OBVIOUS
<1>1. PICK j \in T : \A i \in T : j <= i
  <2>1. T \in SUBSET Nat  OBVIOUS
  <2> HIDE DEF T
  <2> QED  BY <2>1, LeastNat
<1>2. CASE j = 0
  <2> DEFINE f == [n \in 0..0 |-> 0]
  <2>1. \A n \in 0..0 : AtoiStep(f, s, n) = 0
    <3>1. \A n \in 0..0 : n = 0  OBVIOUS
    <3> HIDE DEF f
    <3> QED  BY <3>1 DEF AtoiStep
  <2>2. f = [n \in 0..0 |-> AtoiStep(f, s, n)]
    <3> DEFINE g == [n \in 0..0 |-> AtoiStep(f, s, n)]
    <3>1. g = [n \in 0..0 |-> 0]
      <4> HIDE DEF f
      <4> QED  BY ONLY <2>1
    <3> QED  BY ONLY <3>1
  <2> HIDE DEF f
  <2>3. IsAtoi(f, s, j)  BY <1>2, <2>2 DEF IsAtoi
  <2> QED  BY <2>3
<1>3. CASE j > 0
  <2>1. j - 1 \in Nat /\ ~(j <= j - 1)  BY <1>3
  <2>2. PICK g : IsAtoi(g, s, j - 1)  BY <1>1, <2>1
  <2> DEFINE f == [n \in 0..j |-> AtoiStep(g, s, n)]
  <2>3. \A n \in 0..j - 1 : g[n] = AtoiStep(g, s, n)  BY <2>2 DEF IsAtoi
  <2>4. \A n \in 0..j : f[n] = AtoiStep(g, s, n)  OBVIOUS
  <2>5. f = [n \in 0..j |-> f[n]]  OBVIOUS
  <2> HIDE DEF f
  <2>6. ASSUME NEW n \in 0..j
        PROVE  AtoiStep(g, s, n) = AtoiStep(f, s, n)
    <3>1. CASE n = 0  BY <3>1 DEF AtoiStep
    <3>2. CASE n # 0
      <4>1. n - 1 \in 0..j - 1 /\ n - 1 \in 0..j  BY <2>1, <3>2
      <4>2. f[n - 1] = g[n - 1]  BY <2>3, <2>4, <4>1
      <4> QED  BY <3>2, <4>2 DEF AtoiStep
    <3> QED  BY <3>1, <3>2
  <2>7. \A n \in 0..j : f[n] = AtoiStep(f, s, n)  BY ONLY <2>4, <2>6
  <2>8. IsAtoi(f, s, j)  BY ONLY <2>5, <2>7 DEF IsAtoi
  <2> QED  BY <2>8
<1> QED  BY <1>2, <1>3

(* and it depends on the first characters only.                            *)
LEMMA AtoiUnique ==
  ASSUME NEW m \in Nat, NEW k \in Nat, NEW l \in Nat, m <= k, m <= l,
         NEW s, NEW t, \A i \in 1..m : s[i] = t[i],
         NEW f, IsAtoi(f, s, k), NEW g, IsAtoi(g, t, l)
  PROVE  f[m] = g[m]
<1> DEFINE T == {j \in 0..m : f[j] # g[j]}
<1> SUFFICES ASSUME T # {} PROVE FALSE
  OBVIOUS
<1>1. PICK j \in T : \A i \in T : j <= i
  <2>1. T \in SUBSET Nat  OBVIOUS
  <2> HIDE DEF T
  <2> QED  BY <2>1, LeastNat
<1>2. f[j] = AtoiStep(f, s, j) /\ g[j] = AtoiStep(g, t, j)
  <2>1. j \in 0..k /\ j \in 0..l  OBVIOUS
  <2> QED  BY <2>1 DEF IsAtoi
<1>3. CASE j = 0  BY <1>2, <1>3 DEF AtoiStep
<1>4. CASE j # 0
  <2>1. j - 1 \in 0..m /\ ~(j <= j - 1) /\ j \in 1..m  BY <1>4
  <2>2. f[j - 1] = g[j - 1]  BY <1>1, <2>1
  <2>3. s[j] = t[j]  BY <2>1
  <2> QED  BY <1>1, <1>2, <1>4, <2>2, <2>3 DEF AtoiStep
<1> QED  BY <1>3, <1>4

(* So a number is read digit by digit.                                     *)
LEMMA AtoiUnfolds ==
  ASSUME NEW s, IsSeq(s), NEW c
  PROVE  /\ Atoi(<<>>) = 0
         /\ Atoi(Append(s, c))
              = (Atoi(s) * 10 + DigitValue(c)) % Two(BITS["int"])
<1>1. ASSUME NEW t, Len(t) \in Nat
      PROVE  \E f : IsAtoi(f, t, Len(t)) /\ Atoi(t) = f[Len(t)]
  <2> DEFINE f == CHOOSE f : IsAtoi(f, t, Len(t))
  <2>1. Atoi(t) = f[Len(t)]  BY DEF Atoi, IsAtoi, AtoiStep
  <2>2. IsAtoi(f, t, Len(t))  BY <1>1, AtoiExists, Zenon
  <2> HIDE DEF f
  <2> QED  BY <2>1, <2>2
<1>2. Atoi(<<>>) = 0
  <2>1. Len(<<>>) = 0  BY ShortStrings
  <2>2. PICK f : IsAtoi(f, <<>>, 0) /\ Atoi(<<>>) = f[0]  BY <1>1, <2>1
  <2>3. f[0] = AtoiStep(f, <<>>, 0)  BY <2>2 DEF IsAtoi
  <2> QED  BY <2>2, <2>3 DEF AtoiStep
<1> DEFINE a == Append(s, c)
           n == Len(s)
<1>3. n \in Nat  BY StringIs DEF IsSeq
<1>4. IsSeq(a) /\ Len(a) = n + 1  BY Appending
<1>5. a[n + 1] = c /\ \A i \in 1..n : s[i] = a[i]
  <2>1. s \in Seq({s[i] : i \in DOMAIN s})  BY DEF IsSeq
  <2> QED  BY ONLY <2>1
<1> HIDE DEF a
<1>6. PICK f : IsAtoi(f, s, n) /\ Atoi(s) = f[n]
  <2>1. \E f : IsAtoi(f, s, Len(s)) /\ Atoi(s) = f[Len(s)]  BY <1>1, <1>3
  <2> QED  BY <2>1
<1> HIDE DEF n
<1>7. PICK g : IsAtoi(g, a, n + 1) /\ Atoi(a) = g[n + 1]
  <2>1. n + 1 \in Nat  BY <1>3
  <2> QED  BY <1>1, <1>4, <2>1
<1>8. f[n] = g[n]
  <2>1. n \in Nat /\ n + 1 \in Nat /\ n <= n /\ n <= n + 1  BY <1>3
  <2> QED  BY ONLY <1>5, <1>6, <1>7, <2>1, AtoiUnique
<1>9. g[n + 1] = (g[n] * 10 + DigitValue(c)) % Two(BITS["int"])
  <2>1. n + 1 \in 0..n + 1 /\ n + 1 # 0 /\ (n + 1) - 1 = n  BY <1>3
  <2>2. g[n + 1] = AtoiStep(g, a, n + 1)  BY ONLY <1>7, <2>1 DEF IsAtoi
  <2> QED  BY ONLY <1>5, <2>1, <2>2 DEF AtoiStep
<1> QED  BY <1>2, <1>6, <1>7, <1>8, <1>9 DEF a

(* What is left of a number when m is taken off as often as it can be,     *)
LEMMA Rest ==
  ASSUME NEW m \in Nat \ {0}, NEW x \in Nat
  PROVE  \E k \in Nat : x = m * k + (x % m) /\ x % m \in 0..m-1
<1>1. x \div m \in Nat /\ x = m * (x \div m) + (x % m) /\ x % m \in 0..m-1
  BY SMT
<1> QED  BY <1>1

(* whatever the number is made of,                                         *)
LEMMA RestIs ==
  ASSUME NEW m \in Nat \ {0}, NEW k \in Nat, NEW r \in 0..m-1
  PROVE  (m * k + r) % m = r
<1> DEFINE x == m * k + r
           s == x % m
<1>1. x \in Nat
  <2>1. m * k \in Nat  OBVIOUS
  <2> QED  BY <2>1
<1> HIDE DEF x
<1>2. PICK q \in Nat : x = m * q + s /\ s \in 0..m-1  BY <1>1, Rest
<1> HIDE DEF s
<1>3. m * k + r = m * q + s  BY <1>2 DEF x
<1>4. CASE q >= k + 1
  <2> DEFINE j == q - (k + 1)
  <2>1. j \in Nat /\ q = k + 1 + j  BY <1>4
  <2> HIDE DEF j
  <2>2. m * q = m * k + m + m * j /\ m * j \in Nat /\ m * k \in Nat
    BY <2>1
  <2> QED  BY <1>2, <1>3, <2>2
<1>5. CASE k >= q + 1
  <2> DEFINE j == k - (q + 1)
  <2>1. j \in Nat /\ k = q + 1 + j  BY <1>5
  <2> HIDE DEF j
  <2>2. m * k = m * q + m + m * j /\ m * j \in Nat /\ m * q \in Nat
    BY <2>1
  <2> QED  BY <1>2, <1>3, <2>2
<1>6. CASE q = k
  <2>1. m * k \in Nat  OBVIOUS
  <2>2. s = r  BY <1>2, <1>3, <1>6, <2>1
  <2> QED  BY <2>2 DEF s, x
<1> QED  BY <1>4, <1>5, <1>6

(* can be taken after every digit or once at the end.                      *)
LEMMA RestOfDigits ==
  ASSUME NEW m \in Nat \ {0}, NEW q \in Nat, NEW r \in 0..9
  PROVE  ((q % m) * 10 + r) % m = (q * 10 + r) % m
<1> DEFINE b == q % m
           y == b * 10 + r
           s == y % m
<1>1. PICK a \in Nat : q = m * a + b /\ b \in 0..m-1  BY Rest
<1> HIDE DEF b
<1>2. y \in Nat  BY <1>1
<1> HIDE DEF y
<1>3. PICK c \in Nat : y = m * c + s /\ s \in 0..m-1  BY <1>2, Rest
<1> HIDE DEF s
<1> DEFINE k == a * 10 + c
<1>4. k \in Nat  OBVIOUS
<1>5. m * k = (m * a) * 10 + m * c /\ m * a \in Nat /\ m * c \in Nat  OBVIOUS
<1> HIDE DEF k
<1>6. q * 10 + r = m * k + s  BY <1>1, <1>3, <1>5 DEF y
<1>7. (m * k + s) % m = s  BY <1>3, <1>4, RestIs
<1> QED  BY <1>6, <1>7 DEF s, y, b

(* s is a numeral for n, also with a zero in front.                        *)
ReadsAs(s, n) ==
  /\ IsSeq(s) /\ Len(s) \in Nat \ {0}
  /\ \A i \in 1..Len(s) : s[i] \in DigitChars
  /\ Atoi(s) = n /\ Atoi(<<"0">> \o s) = n

(* A numeral is read as what an unsigned int keeps of its number.          *)
LEMMA NumeralReads ==
  ASSUME NEW n \in Nat
  PROVE  ReadsAs(Numeral(n, 10, FALSE), n % Two(BITS["int"]))
<1> DEFINE M == Two(BITS["int"])
           N(k) == Numeral(k, 10, FALSE)
           T == {k \in Nat : ~ReadsAs(N(k), k % M)}
<1>1. M \in Nat \ {0}  BY PrintfAssumption, TwoAssumption
<1>2. Atoi(<<>>) = 0 /\ IsSeq(<<>>) /\ Len(<<>>) = 0
  BY AtoiUnfolds, ShortStrings
<1>3. \A s, c : IsSeq(s) => Atoi(Append(s, c)) = (Atoi(s) * 10 + DigitValue(c)) % M
  BY AtoiUnfolds
<1>4. \A c : Append(<<>>, c) = <<c>>  OBVIOUS
<1>5. IsSeq(<<"0">>) /\ Atoi(<<"0">>) = 0
  <2>1. Digit(0, FALSE) = "0"  BY DEF Digit
  <2>2. DigitValue("0") = 0
    <3>1. 0 \in 0..9  OBVIOUS
    <3>2. DigitValue(Digit(0, FALSE)) = 0  BY <3>1, DigitReads
    <3> QED  BY <2>1, <3>2
  <2>3. Atoi(<<"0">>) = (0 * 10 + 0) % M
    <3>1. Atoi(Append(<<>>, "0")) = (Atoi(<<>>) * 10 + DigitValue("0")) % M
      BY ONLY <1>2, <1>3
    <3>2. Append(<<>>, "0") = <<"0">>  BY <1>4
    <3> QED  BY ONLY <1>2, <2>2, <3>1, <3>2
  <2>4. (0 * 10 + 0) % M = 0  BY <1>1
  <2> QED  BY <2>3, <2>4, ShortStrings
<1>6. ASSUME NEW s, NEW k \in Nat, NEW q \in Nat, NEW r \in 0..9,
             k = q * 10 + r,
             IsSeq(s), Len(s) \in Nat, \A i \in 1..Len(s) : s[i] \in DigitChars,
             Atoi(s) = q % M, Atoi(<<"0">> \o s) = q % M
      PROVE  ReadsAs(Append(s, Digit(r, FALSE)), k % M)
  <2> DEFINE c == Digit(r, FALSE)
             a == Append(s, c)
             z == <<"0">> \o s
  <2>1. c \in DigitChars /\ DigitValue(c) = r  BY DigitReads
  <2> HIDE DEF c
  <2>2. IsSeq(a) /\ Len(a) = Len(s) + 1  BY <1>6, Appending
  <2>3. \A i \in 1..Len(a) : a[i] \in DigitChars
    <3>1. s \in Seq({s[i] : i \in DOMAIN s})  BY <1>6 DEF IsSeq
    <3>2. a[Len(s) + 1] = c /\ \A i \in 1..Len(s) : a[i] = s[i]
      BY ONLY <3>1
    <3> HIDE DEF a
    <3> TAKE i \in 1..Len(a)
    <3>3. i \in 1..Len(s) \/ i = Len(s) + 1  BY <1>6, <2>2
    <3> QED  BY <1>6, <2>1, <3>2, <3>3
  <2>4. ((q % M) * 10 + r) % M = k % M  BY ONLY <1>1, <1>6, RestOfDigits
  <2>5. Atoi(a) = k % M
    <3>1. Atoi(a) = (Atoi(s) * 10 + DigitValue(c)) % M  BY <1>3, <1>6
    <3> QED  BY ONLY <1>6, <2>1, <2>4, <3>1
  <2>6. Atoi(Append(z, c)) = k % M
    <3>1. IsSeq(z)  BY <1>5, <1>6, Concatenation
    <3> HIDE DEF z
    <3>2. Atoi(Append(z, c)) = (Atoi(z) * 10 + DigitValue(c)) % M
      BY <1>3, <3>1
    <3>3. Atoi(z) = q % M  BY <1>6 DEF z
    <3> QED  BY ONLY <2>1, <2>4, <3>2, <3>3
  <2>7. <<"0">> \o a = Append(z, c)
    <3> DEFINE A == {s[i] : i \in DOMAIN s} \union {"0", c}
    <3>1. s \in Seq(A) /\ c \in A /\ "0" \in A  BY <1>6 DEF IsSeq
    <3> HIDE DEF A, c
    <3>2. <<"0">> \in Seq(A)  BY <3>1
    <3> QED  BY ONLY <3>1, <3>2 DEF a, z
  <2>8. Len(a) \in Nat \ {0}  BY <1>6, <2>2
  <2>9. Atoi(<<"0">> \o a) = k % M
    <3> HIDE DEF a, z, c
    <3> QED  BY ONLY <2>6, <2>7
  <2>10. ReadsAs(a, k % M)
    <3> HIDE DEF a, z, c
    <3> QED  BY ONLY <2>2, <2>3, <2>5, <2>8, <2>9 DEF ReadsAs
  <2> QED  BY ONLY <2>10 DEF a, c
<1> SUFFICES ASSUME T # {} PROVE FALSE
  OBVIOUS
<1>7. PICK k \in T : \A j \in T : k <= j
  <2>1. T \in SUBSET Nat  OBVIOUS
  <2> HIDE DEF T
  <2> QED  BY <2>1, LeastNat
<1>8. k \in Nat /\ ~ReadsAs(N(k), k % M)  OBVIOUS
<1>9. N(k) = IF k < 10 THEN <<Digit(k, FALSE)>>
             ELSE Append(N(k \div 10), Digit(k % 10, FALSE))
  BY <1>8, NumeralUnfolds
<1>10. CASE k < 10
  <2>1. k \in 0..9 /\ 0 \in Nat /\ k = 0 * 10 + k  BY <1>8, <1>10
  <2>2. <<"0">> \o <<>> = <<"0">>  BY <1>5, ConcatEmpty
  <2>3. \A i \in 1..Len(<<>>) : <<>>[i] \in DigitChars  BY <1>2
  <2>4. Len(<<>>) \in Nat /\ Atoi(<<"0">> \o <<>>) = 0  BY <1>2, <1>5, <2>2
  <2>5. 0 % M = 0  BY <1>1
  <2>6. ReadsAs(Append(<<>>, Digit(k, FALSE)), k % M)
    <3> HIDE DEF M, N, T
    <3> QED  BY <1>2, <1>6, <1>8, <2>1, <2>3, <2>4, <2>5
  <2>7. N(k) = Append(<<>>, Digit(k, FALSE))  BY <1>4, <1>9, <1>10
  <2> QED  BY <1>8, <2>6, <2>7
<1>11. CASE ~(k < 10)
  <2> DEFINE q == k \div 10
             r == k % 10
  <2>1. q \in Nat /\ q < k /\ r \in 0..9 /\ k = q * 10 + r  BY <1>8, <1>11
  <2> HIDE DEF q, r
  <2>2. ~(k <= q)  BY <1>8, <2>1
  <2>3. ReadsAs(N(q), q % M)
    <3>1. q \notin T  BY <1>7, <2>2
    <3> QED  BY <2>1, <2>2, <3>1
  <2> HIDE DEF M, N, T
  <2> DEFINE s == N(q)
  <2>7. /\ k \in Nat /\ IsSeq(s) /\ Len(s) \in Nat
        /\ \A i \in 1..Len(s) : s[i] \in DigitChars
        /\ Atoi(s) = q % M /\ Atoi(<<"0">> \o s) = q % M
    BY <1>8, <2>3 DEF ReadsAs
  <2> HIDE DEF s
  <2>8. ReadsAs(Append(s, Digit(r, FALSE)), k % M)
    BY ONLY <1>6, <2>1, <2>7
  <2>4. ReadsAs(Append(N(q), Digit(r, FALSE)), k % M)  BY ONLY <2>8 DEF s
  <2>5. N(k) = Append(N(q), Digit(r, FALSE))  BY <1>9, <1>11 DEF q, r
  <2> QED  BY <1>8, <2>4, <2>5
<1> QED  BY <1>10, <1>11

-----------------------------------------------------------------------------
(* What stands where.                                                      *)

(* One string after the other.                                             *)
LEMMA HereTwice ==
  ASSUME NEW s, NEW i \in Nat, NEW t, IsSeq(t), NEW u, IsSeq(u),
         Len(s) \in Nat, Here(s, i, t \o u)
  PROVE  /\ Here(s, i, t) /\ Here(s, i + Len(t), u)
         /\ Len(t \o u) = Len(t) + Len(u) /\ IsSeq(t \o u)
         /\ Len(t) \in Nat /\ Len(u) \in Nat
<1> DEFINE l == Len(t)
           m == Len(u)
           c == t \o u
<1>1. l \in Nat /\ m \in Nat  BY StringIs DEF IsSeq
<1>2. /\ IsSeq(c) /\ Len(c) = l + m
      /\ \A k \in 1..l + m : c[k] = IF k <= l THEN t[k] ELSE u[k - l]
  BY Concatenation
<1>3. i + Len(c) <= Len(s) + 1 /\ \A k \in 1..Len(c) : s[i + k - 1] = c[k]
  BY DEF Here
<1> HIDE DEF l, m, c
<1>4. \A k \in 1..l : s[i + k - 1] = t[k]
  <2> TAKE k \in 1..l
  <2>1. k \in 1..l + m /\ k <= l  BY <1>1
  <2> QED  BY <1>2, <1>3, <2>1
<1>5. \A k \in 1..m : s[(i + l) + k - 1] = u[k]
  <2> TAKE k \in 1..m
  <2>1. /\ l + k \in 1..l + m /\ ~(l + k <= l) /\ (l + k) - l = k
        /\ i + (l + k) - 1 = (i + l) + k - 1
    BY <1>1
  <2>2. s[i + (l + k) - 1] = c[l + k]  BY <1>2, <1>3, <2>1
  <2>3. c[l + k] = u[(l + k) - l]  BY <1>2, <2>1
  <2> QED  BY <2>1, <2>2, <2>3
<1>6. i + l <= Len(s) + 1 /\ (i + l) + m <= Len(s) + 1  BY <1>1, <1>2, <1>3
<1>7. Here(s, i, t)  BY <1>4, <1>6 DEF Here, l
<1>8. Here(s, i + l, u)  BY <1>5, <1>6 DEF Here, m
<1> QED  BY <1>1, <1>2, <1>7, <1>8 DEF l, m, c

(* What stands in the format is what the scanner reads.                    *)
LEMMA HereReads ==
  ASSUME Len(call.chars) \in Nat, NEW i \in Nat \ {0}, NEW t, IsSeq(t),
         Here(call.chars, i, t)
  PROVE  /\ Len(t) \in Nat /\ i + Len(t) \in 1..Len(call.chars) + 1
         /\ \A k \in 1..Len(t) : CharAt(i + k - 1) = t[k]
         /\ Len(t) > 0 => CharAt(i) = t[1]
<1>1. Len(t) \in Nat  BY StringIs DEF IsSeq
<1>2. /\ i + Len(t) <= Len(call.chars) + 1
      /\ \A k \in 1..Len(t) : call.chars[i + k - 1] = t[k]
  BY DEF Here
<1>3. \A k \in 1..Len(t) : CharAt(i + k - 1) = t[k]
  <2> TAKE k \in 1..Len(t)
  <2>1. i + k - 1 <= Len(call.chars)  BY <1>1, <1>2
  <2> QED  BY <1>2, <2>1 DEF CharAt
<1>4. Len(t) > 0 => CharAt(i) = t[1]
  <2>1. i + 1 - 1 = i  OBVIOUS
  <2>2. Len(t) > 0 => 1 \in 1..Len(t)  BY <1>1
  <2> QED  BY <1>3, <2>1, <2>2
<1> QED  BY <1>1, <1>2, <1>3, <1>4

(* The run that ends at j is what RunEnd finds.                            *)
LEMMA RunEndAt ==
  ASSUME IsSeq(call.chars), NEW i \in 1..Len(call.chars) + 1,
         NEW S, NUL \notin S, NEW j \in i..Len(call.chars) + 1,
         CharAt(j) \notin S, \A k \in i..j-1 : CharAt(k) \in S
  PROVE  RunEnd(i, S) = j
<1> DEFINE r == RunEnd(i, S)
<1>1. Len(call.chars) \in Nat  BY StringIs DEF IsSeq
<1>2. /\ r \in i..Len(call.chars) + 1 /\ CharAt(r) \notin S
      /\ \A k \in i..r-1 : CharAt(k) \in S
  BY RunEndIs
<1> HIDE DEF r
<1>3. r < j => r \in i..j-1  BY <1>1, <1>2
<1>4. j < r => j \in i..r-1  BY <1>1, <1>2
<1>5. ~(r < j) /\ ~(j < r)  BY <1>2, <1>3, <1>4
<1> QED  BY <1>1, <1>2, <1>5 DEF r

-----------------------------------------------------------------------------
(* The spellings of a directive: its flags in any order and any number,    *)
(* its width and precision as numerals or as a `*' with an argument, or    *)
(* left out where they have a default; and how each field is read.         *)

LengthChars == {"l", "h", "t", "j", "z"}
Ends == Conversions \union {"%"}

NumberPiece(p, v) ==
  \/ p = StarPiece(v)
  \/ /\ IsSeq(p.chars) /\ p.args = <<>> /\ Atoi(p.chars) = v
     /\ \A i \in 1..Len(p.chars) : p.chars[i] \in DigitChars

FlagsPiece(p, fl) ==
  /\ IsSeq(p.chars) /\ p.args = <<>>
  /\ {p.chars[i] : i \in 1..Len(p.chars)} = fl

WidthPiece(p, w) ==
  NumberPiece(p, w) /\ (Len(p.chars) > 0 => p.chars[1] # "0")

PrecPiece(p, pr) ==
  IF pr = NoPrec THEN p = Nothing
  ELSE \E q : NumberPiece(q, pr) /\ p = Piece(<<".">>, <<>>) ++ q

(* c is at i and has taken u arguments, with these fields read.            *)
Scanned(c, i, u, fl, w, pr, m) ==
  /\ DOMAIN c = {"at", "used", "flags", "width", "prec", "mod"}
  /\ c.at = i /\ c.used = u
  /\ c.flags = fl /\ c.width = w /\ c.prec = pr /\ c.mod = m

(* The strings of a number's spelling.                                     *)
LEMMA NumberPieceIs ==
  ASSUME NEW p, NEW v, NumberPiece(p, v)
  PROVE  /\ IsSeq(p.chars) /\ IsSeq(p.args)
         /\ Len(p.chars) \in Nat /\ Len(p.args) \in Nat
         /\ \A i \in 1..Len(p.chars) : p.chars[i] \in DigitChars \union {"*"}
<1>1. CASE p = StarPiece(v)
  <2>1. p.chars = <<"*">> /\ p.args = <<v>>
    BY <1>1 DEF StarPiece, Piece
  <2>2. /\ IsSeq(<<"*">>) /\ Len(<<"*">>) = 1 /\ <<"*">>[1] = "*"
        /\ IsSeq(<<v>>) /\ Len(<<v>>) = 1
    BY ShortStrings
  <2>3. \A i \in 1..1 : i = 1  OBVIOUS
  <2> QED  BY ONLY <2>1, <2>2, <2>3
<1>2. CASE p # StarPiece(v)
  <2>1. /\ IsSeq(p.chars) /\ p.args = <<>>
        /\ \A i \in 1..Len(p.chars) : p.chars[i] \in DigitChars
    BY <1>2 DEF NumberPiece
  <2>2. IsSeq(<<>>) /\ Len(<<>>) = 0  BY ShortStrings
  <2>3. Len(p.chars) \in Nat  BY <2>1, StringIs DEF IsSeq
  <2> QED  BY ONLY <2>1, <2>2, <2>3
<1> QED  BY <1>1, <1>2

NumberIs(i, u, j, v, n) == Number(i, u) = [at |-> j, used |-> v, val |-> n]

(* A number is read as what was written, up to what is no digit.           *)
LEMMA NumberReads ==
  ASSUME IsSeq(call.chars), NEW i \in Nat \ {0}, NEW u \in Nat,
         NEW p, NEW v, NumberPiece(p, v), Here(call.chars, i, p.chars),
         Here(call.args, u + 1, p.args),
         CharAt(i + Len(p.chars)) \notin DigitChars \union {"*"}
  PROVE  NumberIs(i, u, i + Len(p.chars), u + Len(p.args), v)
<1> DEFINE t == p.chars
           n == Len(call.chars)
           j == i + Len(t)
<1>1. n \in Nat  BY StringIs DEF IsSeq
<1>2. IsSeq(t) /\ Len(t) \in Nat /\ IsSeq(p.args) /\ Len(p.args) \in Nat
  BY NumberPieceIs
<1>3. /\ j \in 1..n + 1
      /\ \A k \in 1..Len(t) : CharAt(i + k - 1) = t[k]
      /\ Len(t) > 0 => CharAt(i) = t[1]
  BY <1>1, <1>2, HereReads
<1>4. CASE p = StarPiece(v)
  <2>1. p.chars = <<"*">> /\ p.args = <<v>>
    BY <1>4 DEF StarPiece, Piece
  <2>2. /\ Len(<<"*">>) = 1 /\ <<"*">>[1] = "*"
        /\ Len(<<v>>) = 1 /\ <<v>>[1] = v
    BY ShortStrings
  <2>3. CharAt(i) = "*"  BY <1>3, <2>1, <2>2
  <2>4. call.args[u + 1] = v
    <3>1. \A k \in 1..Len(p.args) : call.args[(u + 1) + k - 1] = p.args[k]
      BY DEF Here
    <3>2. 1 \in 1..1 /\ (u + 1) + 1 - 1 = u + 1  OBVIOUS
    <3>3. call.args[(u + 1) + 1 - 1] = v  BY ONLY <2>1, <2>2, <3>1, <3>2
    <3> QED  BY ONLY <3>2, <3>3
  <2> QED  BY <2>1, <2>2, <2>3, <2>4 DEF Number, NumberIs
<1>5. CASE p # StarPiece(v)
  <2>1. /\ p.args = <<>> /\ Atoi(t) = v
        /\ \A k \in 1..Len(t) : t[k] \in DigitChars
    BY <1>5 DEF NumberPiece
  <2>2. Len(<<>>) = 0  BY ShortStrings
  <2>3. CharAt(j) \notin DigitChars \union {"*"}  OBVIOUS
  <2> HIDE DEF t, n
  <2>4. \A k \in i..j-1 : CharAt(k) \in DigitChars
    <3> TAKE k \in i..j-1
    <3>1. k - i + 1 \in 1..Len(t) /\ i + (k - i + 1) - 1 = k  BY <1>2
    <3>2. CharAt(i + (k - i + 1) - 1) = t[k - i + 1]  BY <1>3, <3>1
    <3> QED  BY ONLY <2>1, <3>1, <3>2
  <2>5. CharAt(i) # "*"
    <3>1. CASE Len(t) = 0
      <4>1. j = i  BY <3>1
      <4> QED  BY <2>3, <4>1
    <3>2. CASE Len(t) # 0
      <4>1. i \in i..j-1  BY <1>2, <3>2
      <4>2. CharAt(i) \in DigitChars  BY <2>4, <4>1
      <4> QED  BY ONLY <4>2 DEF DigitChars
    <3> QED  BY <3>1, <3>2
  <2>6. RunEnd(i, DigitChars) = j
    <3>1. i \in 1..n + 1 /\ j \in i..n + 1  BY <1>1, <1>2, <1>3
    <3>2. NUL \notin DigitChars  BY DEF NUL, DigitChars
    <3> HIDE DEF j
    <3> QED  BY <2>3, <2>4, <3>1, <3>2, RunEndAt DEF n
  <2>7. SubSeq(call.chars, i, j - 1) = t
    <3> DEFINE s == SubSeq(call.chars, i, j - 1)
    <3>1. /\ j - 1 \in Int /\ 1 <= i /\ i <= (j - 1) + 1 /\ j - 1 <= n
          /\ (j - 1) + 1 - i = Len(t)
      BY <1>1, <1>2, <1>3
    <3>2. /\ IsSeq(s) /\ Len(s) = Len(t)
          /\ \A k \in 1..Len(t) : s[k] = call.chars[i + k - 1]
      BY <3>1, PartIs DEF n
    <3>3. \A k \in 1..Len(t) : call.chars[i + k - 1] = t[k]
      BY DEF Here, t
    <3> HIDE DEF s
    <3> QED  BY ZenonT(60), <1>2, <3>2, <3>3, SameString DEF s
  <2>8. u + Len(p.args) = u  BY <2>1, <2>2
  <2> QED  BY <2>1, <2>5, <2>6, <2>7, <2>8 DEF Number, NumberIs, t
<1> QED  BY <1>4, <1>5

(* The flags,                                                              *)
LEMMA FlagsRead ==
  ASSUME IsSeq(call.chars), NEW i \in Nat \ {0}, NEW p, NEW fl,
         FlagsPiece(p, fl), fl \subseteq FlagChars,
         Here(call.chars, i, p.chars), CharAt(i + Len(p.chars)) \notin FlagChars
  PROVE  Scanned(ScanFlags(i), i + Len(p.chars), used, fl, 0, NoPrec, "int")
<1> DEFINE t == p.chars
           n == Len(call.chars)
           j == i + Len(t)
<1>1. n \in Nat /\ IsSeq(t) /\ {t[k] : k \in 1..Len(t)} = fl
  BY StringIs DEF IsSeq, FlagsPiece
<1>2. /\ Len(t) \in Nat /\ j \in 1..n + 1
      /\ \A k \in 1..Len(t) : CharAt(i + k - 1) = t[k]
  BY <1>1, HereReads
<1>3. CharAt(j) \notin FlagChars  OBVIOUS
<1> HIDE DEF t, n
<1>4. \A k \in i..j-1 : k - i + 1 \in 1..Len(t) /\ CharAt(k) = t[k - i + 1]
  <2> TAKE k \in i..j-1
  <2>1. k - i + 1 \in 1..Len(t) /\ i + (k - i + 1) - 1 = k  BY <1>2
  <2>2. CharAt(i + (k - i + 1) - 1) = t[k - i + 1]  BY <1>2, <2>1
  <2> QED  BY ONLY <2>1, <2>2
<1>5. \A k \in 1..Len(t) : i + k - 1 \in i..j-1  BY <1>2
<1>6. {CharAt(k) : k \in i..j-1} = fl
  <2>1. ASSUME NEW k \in i..j-1  PROVE CharAt(k) \in fl
    BY <1>1, <1>4
  <2>2. ASSUME NEW c \in fl  PROVE \E k \in i..j-1 : CharAt(k) = c
    <3>1. PICK k \in 1..Len(t) : t[k] = c  BY <1>1
    <3>2. i + k - 1 \in i..j-1 /\ CharAt(i + k - 1) = c  BY <1>2, <1>5, <3>1
    <3> QED  BY ONLY <3>2
  <2> QED  BY ONLY <2>1, <2>2
<1>7. RunEnd(i, FlagChars) = j
  <2>1. i \in 1..n + 1 /\ j \in i..n + 1  BY <1>1, <1>2
  <2>2. NUL \notin FlagChars  BY DEF NUL, FlagChars
  <2>3. \A k \in i..j-1 : CharAt(k) \in FlagChars  BY <1>6
  <2> HIDE DEF j
  <2> QED  BY <1>3, <2>1, <2>2, <2>3, RunEndAt DEF n
<1> QED  BY <1>6, <1>7 DEF ScanFlags, Scanned, t

(* the width,                                                              *)
LEMMA WidthRead ==
  ASSUME NEW c, NEW i, NEW u, NEW fl, NEW j, NEW v, NEW w,
         Scanned(c, i, u, fl, 0, NoPrec, "int"),
         NumberIs(i, u, j, v, w)
  PROVE  Scanned(ScanWidth(c), j, v, fl, w, NoPrec, "int")
<1> DEFINE n == Number(i, u)
<1>1. c.at = i /\ c.used = u  BY DEF Scanned
<1>2. n.at = j /\ n.used = v /\ n.val = w  BY DEF NumberIs
<1> HIDE DEF n
<1>3. ScanWidth(c) = [c EXCEPT !.at = n.at, !.used = n.used, !.width = n.val]
  BY <1>1 DEF ScanWidth, n
<1>4. ScanWidth(c) = [c EXCEPT !.at = j, !.used = v, !.width = w]
  BY ONLY <1>2, <1>3
<1> HIDE DEF ScanWidth
<1> QED  BY <1>4 DEF Scanned

(* The spellings of a length modifier: none, one letter, or two.           *)
LengthForm(p, m) ==
  \/ p = Nothing /\ m = "int"
  \/ \E x \in LengthChars : /\ p = Piece(<<x>>, <<>>)
                            /\ m = IF x = "h" THEN "h" ELSE "l"
  \/ \E x \in {"l", "h"} : /\ p = Piece(<<x, x>>, <<>>)
                           /\ m = IF x = "h" THEN "hh" ELSE "l"

(* LengthPieces has these.                                                 *)
LEMMA LengthForms ==
  ASSUME NEW d, d.mod \in {"int", "h", "hh", "l"}, NEW p \in LengthPieces(d)
  PROVE  LengthForm(p, d.mod)
<1>1. CASE d.mod = "int"  BY <1>1 DEF LengthForm, LengthPieces
<1>2. CASE d.mod = "h"  BY <1>2 DEF LengthForm, LengthPieces, LengthChars
<1>3. CASE d.mod = "hh"  BY <1>3 DEF LengthForm, LengthPieces
<1>4. CASE d.mod = "l"
  <2>1. PICK t \in {<<"l">>, <<"l", "l">>, <<"t">>, <<"j">>, <<"z">>} :
               p = Piece(t, <<>>)
    BY <1>4 DEF LengthPieces
  <2> QED  BY <1>4, <2>1 DEF LengthForm, LengthChars
<1> QED  BY <1>1, <1>2, <1>3, <1>4

(* None of them takes an argument.                                         *)
LEMMA LengthPieceIs ==
  ASSUME NEW d, d.mod \in {"int", "h", "hh", "l"}, NEW p \in LengthPieces(d)
  PROVE  p.args = <<>> /\ IsSeq(p.chars)
<1>1. LengthForm(p, d.mod)  BY LengthForms
<1>2. CASE p = Nothing
  BY <1>2, ShortStrings DEF Nothing, Piece
<1>3. ASSUME NEW x, p = Piece(<<x>>, <<>>)  PROVE p.args = <<>> /\ IsSeq(p.chars)
  BY <1>3, ShortStrings DEF Piece
<1>4. ASSUME NEW x, p = Piece(<<x, x>>, <<>>)  PROVE p.args = <<>> /\ IsSeq(p.chars)
  <2>1. <<x, x>> \in Seq({x})  OBVIOUS
  <2>2. IsSeq(<<x, x>>)  BY <2>1, StringIs
  <2> QED  BY <1>4, <2>2 DEF Piece
<1> QED  BY <1>1, <1>2, <1>3, <1>4 DEF LengthForm

(* the precision,                                                          *)
LEMMA PrecRead ==
  ASSUME IsSeq(call.chars), NEW i \in Nat \ {0}, NEW u \in Nat,
         NEW c, NEW fl, NEW w, Scanned(c, i, u, fl, w, NoPrec, "int"),
         NEW p, NEW pr, PrecPiece(p, pr),
         Here(call.chars, i, p.chars), Here(call.args, u + 1, p.args),
         CharAt(i + Len(p.chars)) \in LengthChars \union Ends
  PROVE  Scanned(ScanPrec(c), i + Len(p.chars), u + Len(p.args), fl, w, pr, "int")
<1>1. /\ Len(call.chars) \in Nat /\ c.at = i /\ c.used = u
      /\ CharAt(i + Len(p.chars)) \notin DigitChars \union {"*", "."}
  BY StringIs DEF IsSeq, LengthChars, Ends, Conversions, DigitChars, Scanned
<1>2. CASE pr = NoPrec
  <2>1. p.chars = <<>> /\ p.args = <<>> /\ Len(<<>>) = 0
    BY <1>2, ShortStrings DEF PrecPiece, Nothing, Piece
  <2>2. i + Len(p.chars) = i /\ u + Len(p.args) = u  BY <2>1
  <2>3. CharAt(i) # "."  BY <1>1, <2>2
  <2>4. ScanPrec(c) = c  BY <1>1, <2>3 DEF ScanPrec
  <2> QED  BY <1>2, <2>2, <2>4
<1>3. CASE pr # NoPrec
  <2>1. PICK q : NumberPiece(q, pr) /\ p = Piece(<<".">>, <<>>) ++ q
    BY <1>3 DEF PrecPiece
  <2>2. p.chars = <<".">> \o q.chars /\ p.args = <<>> \o q.args
    BY <2>1 DEF Piece, ++
  <2>3. /\ IsSeq(q.chars) /\ IsSeq(q.args)
        /\ Len(q.chars) \in Nat /\ Len(q.args) \in Nat
    BY <2>1, NumberPieceIs
  <2>4. IsSeq(<<".">>) /\ Len(<<".">>) = 1 /\ <<".">>[1] = "."
    BY ShortStrings
  <2>5. p.args = q.args  BY <2>2, <2>3, ConcatEmpty
  <2>6. /\ Here(call.chars, i, <<".">>) /\ Here(call.chars, i + 1, q.chars)
        /\ Len(p.chars) = 1 + Len(q.chars)
    <3>1. i \in Nat /\ Here(call.chars, i, <<".">> \o q.chars)  BY <2>2
    <3>2. /\ Here(call.chars, i, <<".">>)
          /\ Here(call.chars, i + Len(<<".">>), q.chars)
          /\ Len(<<".">> \o q.chars) = Len(<<".">>) + Len(q.chars)
      <4> DEFINE s == call.chars
                 x == <<".">>
                 y == q.chars
      <4>1. Len(s) \in Nat /\ IsSeq(x) /\ IsSeq(y) /\ Here(s, i, x \o y)
            /\ i \in Nat
        BY <1>1, <2>3, <2>4, <3>1
      <4> HIDE DEF s, x, y
      <4>2. /\ Here(s, i, x) /\ Here(s, i + Len(x), y)
            /\ Len(x \o y) = Len(x) + Len(y)
        BY ONLY <4>1, HereTwice
      <4> QED  BY ONLY <4>2 DEF s, x, y
    <3> QED  BY ONLY <2>2, <2>4, <3>2
  <2>7. CharAt(i) = "."
    <3>1. Len(<<".">>) > 0  BY ONLY <2>4
    <3> QED  BY <1>1, <2>4, <2>6, <3>1, HereReads
  <2>8. (i + 1) + Len(q.chars) = i + Len(p.chars)
    <3>1. \A a, b \in Nat : (a + 1) + b = a + (1 + b)  OBVIOUS
    <3>2. (i + 1) + Len(q.chars) = i + (1 + Len(q.chars))
      BY ONLY i \in Nat \ {0}, <2>3, <3>1
    <3>3. Len(p.chars) = 1 + Len(q.chars)  BY <2>6
    <3> QED  BY ONLY <3>2, <3>3
  <2>9. NumberIs(i + 1, u, i + Len(p.chars), u + Len(p.args), pr)
    <3>1. CharAt((i + 1) + Len(q.chars)) \notin DigitChars \union {"*"}
      BY <1>1, <2>8
    <3>2. Here(call.args, u + 1, q.args)  BY <2>5
    <3>3. i + 1 \in Nat \ {0}  OBVIOUS
    <3>4. NumberIs(i + 1, u, (i + 1) + Len(q.chars), u + Len(q.args), pr)
      <4> DEFINE k == i + 1
      <4>1. /\ IsSeq(call.chars) /\ k \in Nat \ {0} /\ u \in Nat
            /\ NumberPiece(q, pr) /\ Here(call.chars, k, q.chars)
            /\ Here(call.args, u + 1, q.args)
            /\ CharAt(k + Len(q.chars)) \notin DigitChars \union {"*"}
        BY <2>1, <2>6, <3>1, <3>2, <3>3
      <4> HIDE DEF k
      <4>2. NumberIs(k, u, k + Len(q.chars), u + Len(q.args), pr)
        BY ONLY <4>1, NumberReads
      <4> QED  BY ONLY <4>2 DEF k
    <3> QED  BY <2>5, <2>8, <3>4
  <2> DEFINE n == Number(i + 1, u)
  <2>10. n.at = i + Len(p.chars) /\ n.used = u + Len(p.args) /\ n.val = pr
    BY <2>9 DEF NumberIs
  <2> HIDE DEF n
  <2>11. ScanPrec(c) =
           [c EXCEPT !.at = n.at, !.used = n.used, !.prec = n.val]
    BY <1>1, <2>7 DEF ScanPrec, n
  <2> HIDE DEF ScanPrec
  <2> QED  BY <2>10, <2>11 DEF Scanned
<1> QED  BY <1>2, <1>3

(* and the length modifier: two fields change.                             *)
LEMMA LengthSteps ==
  ASSUME NEW c, NEW i, NEW u, NEW fl, NEW w, NEW pr,
         Scanned(c, i, u, fl, w, pr, "int"), NEW j, NEW m, NEW d,
         d = [c EXCEPT !.at = j, !.mod = m]
  PROVE  Scanned(d, j, u, fl, w, pr, m)
BY DEF Scanned

(* What is read of a length modifier spelled p.                            *)
LengthReads(c, i, u, fl, w, pr, m, p) ==
  Scanned(ScanLength(c), i + Len(p.chars), u, fl, w, pr, m)

(* The length modifier ends at the conversion.                             *)
LEMMA LengthRead ==
  ASSUME IsSeq(call.chars), NEW i \in Nat \ {0},
         NEW d, d.mod \in {"int", "h", "hh", "l"}, NEW p \in LengthPieces(d),
         NEW u, NEW fl, NEW w, NEW pr,
         NEW c, Scanned(c, i, u, fl, w, pr, "int"), Here(call.chars, i, p.chars),
         CharAt(i + Len(p.chars)) \in Ends
  PROVE  /\ LengthReads(c, i, u, fl, w, pr, d.mod, p)
         /\ p.args = <<>> /\ IsSeq(p.chars)
         /\ CharAt(i) \in LengthChars \union Ends
<1>1. Len(call.chars) \in Nat  BY StringIs DEF IsSeq
<1>2. c.at = i  BY DEF Scanned
<1>3. \A x \in Ends : x \notin LengthChars
  BY DEF Ends, Conversions, LengthChars
<1>4. CASE p = Nothing /\ d.mod = "int"
  <2>1. p.chars = <<>> /\ p.args = <<>> /\ Len(<<>>) = 0 /\ IsSeq(<<>>)
    BY <1>4, ShortStrings DEF Nothing, Piece
  <2>2. i + Len(p.chars) = i  BY <2>1
  <2>3. CharAt(i) \in Ends /\ CharAt(i) \notin LengthChars
    BY <1>3, <2>2
  <2>4. ScanLength(c) = c
    BY <1>2, <2>3 DEF ScanLength, LengthChars
  <2> QED  BY <1>4, <2>1, <2>2, <2>3, <2>4 DEF LengthReads
<1>5. ASSUME NEW x \in LengthChars, p = Piece(<<x>>, <<>>),
             d.mod = IF x = "h" THEN "h" ELSE "l"
      PROVE  /\ Scanned(ScanLength(c), i + Len(p.chars), u, fl, w, pr, d.mod)
             /\ p.args = <<>> /\ IsSeq(p.chars) /\ CharAt(i) \in LengthChars
  <2>1. /\ p.chars = <<x>> /\ p.args = <<>> /\ Len(<<x>>) = 1 /\ IsSeq(<<x>>)
        /\ <<x>>[1] = x
    BY <1>5, ShortStrings DEF Piece
  <2>2. i + Len(p.chars) = i + 1  BY <2>1
  <2>3. CharAt(i) = x
    <3>1. Len(<<x>>) > 0 /\ Here(call.chars, i, <<x>>)  BY <2>1
    <3> QED  BY <1>1, <2>1, <3>1, HereReads
  <2>4. CharAt(i + 1) # x  BY <1>3, <2>2
  <2>5. ScanLength(c) = [c EXCEPT !.at = i + 1, !.mod = d.mod]
    BY <1>2, <1>5, <2>3, <2>4 DEF ScanLength, LengthChars
  <2>6. Scanned(ScanLength(c), i + 1, u, fl, w, pr, d.mod)
    BY ONLY <2>5, LengthSteps, Scanned(c, i, u, fl, w, pr, "int")
  <2> QED  BY <2>1, <2>2, <2>3, <2>6
<1>6. ASSUME NEW x \in {"l", "h"}, p = Piece(<<x, x>>, <<>>),
             d.mod = IF x = "h" THEN "hh" ELSE "l"
      PROVE  /\ Scanned(ScanLength(c), i + Len(p.chars), u, fl, w, pr, d.mod)
             /\ p.args = <<>> /\ IsSeq(p.chars) /\ CharAt(i) \in LengthChars
  <2>1. /\ p.chars = <<x, x>> /\ p.args = <<>> /\ Len(<<x, x>>) = 2
        /\ IsSeq(<<x, x>>) /\ <<x, x>>[1] = x /\ <<x, x>>[2] = x
    <3>1. <<x, x>> \in Seq({x})  OBVIOUS
    <3>2. IsSeq(<<x, x>>)  BY <3>1, StringIs
    <3> QED  BY <1>6, <3>2 DEF Piece
  <2>2. i + Len(p.chars) = i + 2  BY <2>1
  <2>3. CharAt(i) = x /\ CharAt(i + 1) = x
    <3>1. \A k \in 1..Len(p.chars) : CharAt(i + k - 1) = p.chars[k]
      BY ZenonT(60), <1>1, <2>1, HereReads
    <3>2. 1 \in 1..2 /\ 2 \in 1..2 /\ i + 1 - 1 = i /\ i + 2 - 1 = i + 1
      OBVIOUS
    <3>3. CharAt(i + 1 - 1) = x /\ CharAt(i + 2 - 1) = x
      BY ONLY <2>1, <3>1, <3>2
    <3> QED  BY ONLY <3>2, <3>3
  <2>5. ScanLength(c) = [c EXCEPT !.at = i + 2, !.mod = d.mod]
    BY <1>2, <1>6, <2>3 DEF ScanLength
  <2>6. Scanned(ScanLength(c), i + 2, u, fl, w, pr, d.mod)
    BY ONLY <2>5, LengthSteps, Scanned(c, i, u, fl, w, pr, "int")
  <2> QED  BY <2>1, <2>2, <2>3, <2>6 DEF LengthChars
<1>7. LengthForm(p, d.mod)  BY LengthForms
<1> QED  BY <1>4, <1>5, <1>6, <1>7 DEF LengthForm, LengthReads

(* The strings of a precision's spelling.                                  *)
LEMMA PrecPieceIs ==
  ASSUME NEW p, NEW pr, PrecPiece(p, pr)
  PROVE  /\ IsSeq(p.chars) /\ IsSeq(p.args) /\ Len(p.args) \in Nat
         /\ Len(p.chars) > 0 => p.chars[1] = "."
<1>1. CASE pr = NoPrec
  <2>1. p.chars = <<>> /\ p.args = <<>>
    BY <1>1 DEF PrecPiece, Nothing, Piece
  <2>2. IsSeq(<<>>) /\ Len(<<>>) = 0  BY ShortStrings
  <2> QED  BY ONLY <2>1, <2>2
<1>2. CASE pr # NoPrec
  <2>1. PICK q : NumberPiece(q, pr) /\ p = Piece(<<".">>, <<>>) ++ q
    BY <1>2 DEF PrecPiece
  <2>2. p.chars = <<".">> \o q.chars /\ p.args = <<>> \o q.args
    BY <2>1 DEF Piece, ++
  <2>3. IsSeq(q.chars) /\ IsSeq(q.args) /\ Len(q.args) \in Nat
    BY <2>1, NumberPieceIs
  <2>4. IsSeq(p.chars) /\ p.chars[1] = "."  BY <2>2, <2>3, InFront
  <2>5. p.args = q.args  BY <2>2, <2>3, ConcatEmpty
  <2> QED  BY <2>3, <2>4, <2>5
<1> QED  BY <1>1, <1>2

(* The spellings of all fields of d, one behind the other.                 *)
Laid(d, f, w, q, l, i, j, k, m, e, v) ==
  /\ i \in Nat \ {0} /\ d.mod \in {"int", "h", "hh", "l"}
  /\ d.flags \subseteq FlagChars
  /\ FlagsPiece(f, d.flags) /\ WidthPiece(w, d.width)
  /\ PrecPiece(q, d.prec) /\ l \in LengthPieces(d)
  /\ j = i + Len(f.chars) /\ k = j + Len(w.chars)
  /\ m = k + Len(q.chars) /\ e = m + Len(l.chars)
  /\ Here(call.chars, i, f.chars) /\ Here(call.chars, j, w.chars)
  /\ Here(call.chars, k, q.chars) /\ Here(call.chars, m, l.chars)
  /\ v = used + Len(w.args) /\ Here(call.args, used + 1, w.args)
  /\ Here(call.args, v + 1, q.args) /\ CharAt(e) \in Ends

(* All the fields are read as what is spelled.                             *)
LEMMA FieldsRead ==
  ASSUME IsSeq(call.chars), IsSeq(call.args), used \in Nat,
         NEW d, NEW f, NEW w, NEW q, NEW l, NEW i, NEW j, NEW k, NEW m, NEW e,
         NEW v, Laid(d, f, w, q, l, i, j, k, m, e, v)
  PROVE  Scanned(ScanLength(ScanPrec(ScanWidth(ScanFlags(i)))), e,
                 v + Len(q.args), d.flags, d.width, d.prec, d.mod)
<1>9. /\ i \in Nat \ {0} /\ d.mod \in {"int", "h", "hh", "l"}
      /\ d.flags \subseteq FlagChars
      /\ FlagsPiece(f, d.flags) /\ WidthPiece(w, d.width)
      /\ PrecPiece(q, d.prec) /\ l \in LengthPieces(d)
      /\ j = i + Len(f.chars) /\ k = j + Len(w.chars)
      /\ m = k + Len(q.chars) /\ e = m + Len(l.chars)
      /\ Here(call.chars, i, f.chars) /\ Here(call.chars, j, w.chars)
      /\ Here(call.chars, k, q.chars) /\ Here(call.chars, m, l.chars)
      /\ v = used + Len(w.args) /\ Here(call.args, used + 1, w.args)
      /\ Here(call.args, v + 1, q.args) /\ CharAt(e) \in Ends
  BY DEF Laid
<1> USE <1>9
<1>0. Len(call.chars) \in Nat  BY StringIs DEF IsSeq
<1>1. IsSeq(f.chars) /\ NumberPiece(w, d.width)
  BY DEF FlagsPiece, WidthPiece
<1>2. IsSeq(w.chars) /\ Len(w.args) \in Nat  BY <1>1, NumberPieceIs
<1>3. /\ IsSeq(q.chars) /\ Len(q.args) \in Nat
      /\ Len(q.chars) > 0 => q.chars[1] = "."
  BY PrecPieceIs
<1>4. j \in Nat \ {0} /\ k \in Nat \ {0} /\ m \in Nat \ {0} /\ v \in Nat
  <2>1. Len(f.chars) \in Nat /\ Len(w.chars) \in Nat /\ Len(q.chars) \in Nat
    BY <1>1, <1>2, <1>3, StringIs DEF IsSeq
  <2>2. \A x \in Nat \ {0}, y \in Nat : x + y \in Nat \ {0}  OBVIOUS
  <2>3. \A x, y \in Nat : x + y \in Nat  OBVIOUS
  <2>4. j \in Nat \ {0}
    BY ONLY <1>9, <2>1, <2>2, i \in Nat \ {0}, j = i + Len(f.chars)
  <2>5. k \in Nat \ {0}  BY ONLY <1>9, <2>1, <2>2, <2>4, k = j + Len(w.chars)
  <2>6. m \in Nat \ {0}  BY ONLY <1>9, <2>1, <2>2, <2>5, m = k + Len(q.chars)
  <2>7. v \in Nat  BY ONLY <1>9, <1>2, <2>3, used \in Nat, v = used + Len(w.args)
  <2> QED  BY ONLY <1>9, <2>4, <2>5, <2>6, <2>7
<1>5. CharAt(m) \in LengthChars \union Ends
  <2>1. \E c : Scanned(c, m, 0, {}, 0, 0, "int")
    <3>1. Scanned([at |-> m, used |-> 0, flags |-> {}, width |-> 0, prec |-> 0,
                   mod |-> "int"], m, 0, {}, 0, 0, "int")
      BY DEF Scanned
    <3> QED  BY <3>1
  <2>2. CharAt(m + Len(l.chars)) \in Ends  OBVIOUS
  <2> QED  BY ONLY <1>4, <2>1, <2>2, LengthRead, IsSeq(call.chars),
           d.mod \in {"int", "h", "hh", "l"}, l \in LengthPieces(d),
           Here(call.chars, m, l.chars)
<1>6. CharAt(k) \in {"."} \union LengthChars \union Ends
  <2>1. CASE Len(q.chars) > 0
    <3>1. CharAt(k) = q.chars[1]  BY <1>0, <1>3, <1>4, <2>1, HereReads
    <3> QED  BY <1>3, <2>1, <3>1
  <2>2. CASE ~(Len(q.chars) > 0)
    <3>1. Len(q.chars) \in Nat  BY <1>3, StringIs DEF IsSeq
    <3>2. \A x \in Nat, y \in Nat : ~(y > 0) => x + y = x  OBVIOUS
    <3>3. m = k  BY ONLY <1>9, <1>4, <2>2, <3>1, <3>2, m = k + Len(q.chars)
    <3> QED  BY <1>5, <3>3
  <2> QED  BY <2>1, <2>2
<1>7. CharAt(k) \notin DigitChars \union {"*"}
  BY <1>6 DEF LengthChars, Ends, Conversions, DigitChars
<1>8. CharAt(j) \notin FlagChars
  <2>1. CASE Len(w.chars) > 0
    <3>1. CharAt(j) = w.chars[1]  BY <1>0, <1>2, <1>4, <2>1, HereReads
    <3>2. w.chars[1] \in DigitChars \union {"*"}
      <4>1. Len(w.chars) \in Nat  BY <1>1, NumberPieceIs
      <4>2. 1 \in 1..Len(w.chars)  BY <2>1, <4>1
      <4> QED  BY <1>1, <4>2, NumberPieceIs
    <3>3. w.chars[1] # "0"  BY <2>1 DEF WidthPiece
    <3> QED  BY <3>1, <3>2, <3>3 DEF DigitChars, FlagChars
  <2>2. CASE ~(Len(w.chars) > 0)
    <3>1. Len(w.chars) \in Nat  BY <1>2, StringIs DEF IsSeq
    <3>2. \A x \in Nat, y \in Nat : ~(y > 0) => x + y = x  OBVIOUS
    <3>3. k = j  BY ONLY <1>9, <1>4, <2>2, <3>1, <3>2, k = j + Len(w.chars)
    <3> QED  BY <1>6, <3>3 DEF LengthChars, Ends, Conversions, FlagChars
  <2> QED  BY <2>1, <2>2
<1>11. Scanned(ScanFlags(i), j, used, d.flags, 0, NoPrec, "int")
  <2>1. CharAt(i + Len(f.chars)) \notin FlagChars  BY <1>8
  <2>2. Scanned(ScanFlags(i), i + Len(f.chars), used, d.flags, 0, NoPrec, "int")
    BY <2>1, FlagsRead
  <2> QED  BY <2>2
<1>12. Scanned(ScanWidth(ScanFlags(i)), k, v, d.flags, d.width, NoPrec, "int")
  <2>1. CharAt(j + Len(w.chars)) \notin DigitChars \union {"*"}  BY <1>7
  <2>2. NumberIs(j, used, j + Len(w.chars), used + Len(w.args), d.width)
    BY <1>1, <1>4, <2>1, NumberReads
  <2>3. NumberIs(j, used, k, v, d.width)  BY <2>2
  <2> QED  BY <1>11, <2>3, WidthRead
<1> DEFINE a == ScanWidth(ScanFlags(i))
<1> HIDE DEF a
<1>13. Scanned(ScanPrec(a), m, v + Len(q.args), d.flags, d.width, d.prec, "int")
  <2>1. CharAt(k + Len(q.chars)) \in LengthChars \union Ends  BY <1>5
  <2>2. Scanned(a, k, v, d.flags, d.width, NoPrec, "int")  BY <1>12 DEF a
  <2>3. Scanned(ScanPrec(a), k + Len(q.chars), v + Len(q.args), d.flags, d.width,
                d.prec, "int")
    BY <1>4, <2>1, <2>2, PrecRead
  <2> QED  BY <2>3
<1> DEFINE b == ScanPrec(a)
<1> HIDE DEF b
<1>14. Scanned(ScanLength(b), e, v + Len(q.args), d.flags, d.width, d.prec, d.mod)
  <2>1. CharAt(m + Len(l.chars)) \in Ends  OBVIOUS
  <2> DEFINE n == v + Len(q.args)
             fl == d.flags
  <2>2. Scanned(b, m, n, fl, d.width, d.prec, "int")  BY <1>13 DEF b
  <2>3. m \in Nat \ {0}  BY <1>4
  <2> HIDE DEF n, fl
  <2>4. LengthReads(b, m, n, fl, d.width, d.prec, d.mod, l)
    BY ONLY SMTT(30), <2>1, <2>2, <2>3, LengthRead, IsSeq(call.chars),
           d.mod \in {"int", "h", "hh", "l"}, l \in LengthPieces(d),
           Here(call.chars, m, l.chars)
  <2> QED  BY <2>4 DEF LengthReads, n, fl
<1> QED  BY <1>14 DEF a, b

-----------------------------------------------------------------------------
(* The spellings of PrintfGrammar are made of such pieces.                 *)

(* Flags in any order and repeated.                                        *)
LEMMA FlagPiecesAre ==
  ASSUME NEW d, d.flags \subseteq FlagChars, NEW p \in FlagPieces(d)
  PROVE  FlagsPiece(p, d.flags)
<1> DEFINE S == d.flags
           n == Cardinality(S)
<1>1. PICK s \in SetToSeqs(S) : p \in {Piece(s, <<>>), Piece(s \o s, <<>>)}
  BY DEF FlagPieces
<1>2. IsFiniteSet(S) /\ n \in Nat
  <2>1. IsFiniteSet(FlagChars)
    <3>1. /\ IsFiniteSet({"0"}) /\ IsFiniteSet({"-"}) /\ IsFiniteSet({"+"})
          /\ IsFiniteSet({" "}) /\ IsFiniteSet({"#"})
      BY FS_Singleton
    <3>2. FlagChars = {"0"} \union {"-"} \union {"+"} \union {" "} \union {"#"}
      BY DEF FlagChars
    <3> QED  BY ONLY <3>1, <3>2, FS_Union
  <2> QED  BY <2>1, FS_Subset, FS_CardinalityType
<1>3. s \in [1..n -> S] /\ \A i, j \in 1..n : i # j => s[i] # s[j]
  BY <1>1 DEF SetToSeqs
<1> HIDE DEF n, S
<1>4. \A c \in S : \E i \in 1..n : s[i] = c
  <2>1. s \in Injection(1..n, S)
    <3>1. IsInjective(s)  BY <1>3 DEF IsInjective
    <3> QED  BY <1>3, <3>1 DEF Injection
  <2>2. Cardinality(1..n) = n  BY <1>2, FS_Interval
  <2>3. s \in Surjection(1..n, S)
    BY <1>2, <2>1, <2>2, FS_Injection DEF n
  <2> QED  BY <2>3 DEF Surjection
<1>5. IsSeq(s) /\ Len(s) = n
  <2>1. s = [i \in 1..n |-> s[i]]  BY <1>3
  <2> QED  BY <1>2, <2>1, StringOf
<1>6. {s[i] : i \in 1..Len(s)} = S
  BY <1>3, <1>4, <1>5
<1>7. CASE p = Piece(s, <<>>)
  BY <1>5, <1>6, <1>7 DEF FlagsPiece, Piece, S
<1>8. CASE p = Piece(s \o s, <<>>)
  <2> DEFINE t == s \o s
  <2>1. /\ IsSeq(t) /\ Len(t) = n + n
        /\ \A i \in 1..n + n : t[i] = IF i <= n THEN s[i] ELSE s[i - n]
    BY <1>5, Concatenation
  <2> HIDE DEF t
  <2>2. ASSUME NEW i \in 1..n + n  PROVE t[i] \in S
    <3>1. i \in 1..n \/ (i - n \in 1..n /\ ~(i <= n))  BY <1>2
    <3> QED  BY <1>2, <1>3, <2>1, <3>1
  <2>3. ASSUME NEW c \in S  PROVE \E i \in 1..n + n : t[i] = c
    <3>1. PICK i \in 1..n : s[i] = c  BY <1>4
    <3>2. i \in 1..n + n /\ i <= n  BY <1>2
    <3> QED  BY <2>1, <3>1, <3>2
  <2>4. {t[i] : i \in 1..Len(t)} = S  BY ONLY <2>1, <2>2, <2>3
  <2> QED  BY <1>8, <2>1, <2>4 DEF FlagsPiece, Piece, S, t
<1> QED  BY <1>1, <1>7, <1>8

(* No numeral starts with a zero but that of zero.                         *)
LEMMA NumeralStarts ==
  ASSUME NEW n \in Nat \ {0}
  PROVE  Numeral(n, 10, FALSE)[1] # "0"
<1> DEFINE N(k) == Numeral(k, 10, FALSE)
           T == {k \in Nat \ {0} : N(k)[1] = "0"}
<1> SUFFICES ASSUME T # {} PROVE FALSE
  OBVIOUS
<1>1. PICK k \in T : \A j \in T : k <= j
  <2>1. T \in SUBSET Nat  OBVIOUS
  <2> HIDE DEF T
  <2> QED  BY <2>1, LeastNat
<1>2. k \in Nat \ {0} /\ N(k)[1] = "0"  OBVIOUS
<1>3. N(k) = IF k < 10 THEN <<Digit(k, FALSE)>>
             ELSE Append(N(k \div 10), Digit(k % 10, FALSE))
  BY <1>2, NumeralUnfolds
<1>4. CASE k < 10
  <2>1. N(k)[1] = Digit(k, FALSE)  BY <1>3, <1>4, ShortStrings
  <2>2. k \in 0..9 /\ k # 0  BY <1>2, <1>4
  <2>3. Digit(k, FALSE) # "0"
    <3>1. DigitValue(Digit(k, FALSE)) = k  BY <2>2, DigitReads
    <3>2. DigitValue(Digit(0, FALSE)) = 0
      <4>1. 0 \in 0..9  OBVIOUS
      <4> QED  BY <4>1, DigitReads
    <3>3. Digit(0, FALSE) = "0"  BY DEF Digit
    <3>4. k # 0  BY <2>2
    <3> QED  BY ONLY <3>1, <3>2, <3>3, <3>4
  <2> QED  BY ONLY <1>2, <2>1, <2>3
<1>5. CASE ~(k < 10)
  <2> DEFINE q == k \div 10
             c == Digit(k % 10, FALSE)
  <2>1. q \in Nat \ {0} /\ q < k /\ ~(k <= q)  BY <1>2, <1>5
  <2> HIDE DEF q, c
  <2>2. q \in Nat  BY <2>1
  <2>3. ReadsAs(N(q), q % Two(BITS["int"]))  BY <2>2, NumeralReads
  <2>4. IsSeq(N(q)) /\ Len(N(q)) \in Nat \ {0}  BY <2>3 DEF ReadsAs
  <2>5. N(k) = Append(N(q), c)  BY <1>3, <1>5 DEF q, c
  <2> HIDE DEF N
  <2>6. Append(N(q), c)[1] = N(q)[1]
    <3>1. N(q) \in Seq({N(q)[i] : i \in DOMAIN N(q)})  BY <2>4 DEF IsSeq
    <3> QED  BY ONLY <2>4, <3>1
  <2>7. N(q)[1] = "0"  BY <1>2, <2>5, <2>6
  <2>8. q \in T  BY <2>1, <2>7 DEF N
  <2> QED  BY <1>1, <2>1, <2>8
<1> QED  BY <1>4, <1>5

(* A number that is read as n is read as n.                                *)
LEMMA ReadAsReads ==
  ASSUME NEW v \in Nat, v < Two(BITS["int"]), NEW n \in ReadAs(v)
  PROVE  n \in Nat /\ ReadsAs(Numeral(n, 10, FALSE), v)
<1> DEFINE M == Two(BITS["int"])
<1>1. M \in Nat \ {0}  BY PrintfAssumption, TwoAssumption
<1>2. PICK k \in Nat : n = v + k * M  BY WrapsAssumption DEF ReadAs
<1> HIDE DEF M
<1>3. k * M \in Nat /\ k * M = M * k  BY <1>1
<1>4. n \in Nat /\ n = M * k + v  BY <1>2, <1>3
<1>5. (M * k + v) % M = v
  <2>1. v \in 0..M - 1  BY <1>1 DEF M
  <2> QED  BY ONLY <1>1, <1>2, <2>1, RestIs
<1>6. ReadsAs(Numeral(n, 10, FALSE), n % M)  BY <1>4, NumeralReads DEF M
<1> QED  BY <1>4, <1>5, <1>6

(* Widths                                                                  *)
LEMMA WidthPiecesAre ==
  ASSUME NEW d, IsSpecification(d), NEW p \in WidthPieces(d)
  PROVE  WidthPiece(p, d.width)
<1> DEFINE w == d.width
<1>1. \/ p = StarPiece(w)
      \/ w = 0 /\ p = Nothing
      \/ \E n \in ReadAs(w) \ {0} : p = Piece(Numeral(n, 10, FALSE), <<>>)
  BY DEF WidthPieces, StarPieces
<1>2. w \in Int /\ w < Two(BITS["int"])  BY DEF IsSpecification
<1> HIDE DEF w
<1>3. CASE p = StarPiece(w)
  <2>1. p.chars = <<"*">> /\ <<"*">>[1] = "*"  BY <1>3 DEF StarPiece, Piece
  <2> QED  BY <1>3, <2>1 DEF WidthPiece, NumberPiece, w
<1>4. CASE w = 0 /\ p = Nothing
  <2>1. /\ p.chars = <<>> /\ p.args = <<>> /\ Len(<<>>) = 0 /\ IsSeq(<<>>)
        /\ Atoi(<<>>) = 0
    BY <1>4, ShortStrings, AtoiUnfolds DEF Nothing, Piece
  <2> QED  BY <1>4, <2>1 DEF WidthPiece, NumberPiece, w
<1>5. ASSUME NEW n \in ReadAs(w) \ {0}, p = Piece(Numeral(n, 10, FALSE), <<>>)
      PROVE  WidthPiece(p, d.width)
  <2> DEFINE s == Numeral(n, 10, FALSE)
  <2>1. w \in Nat  BY <1>2, <1>5 DEF ReadAs
  <2>2. n \in Nat \ {0} /\ ReadsAs(s, w)  BY <1>2, <2>1, ReadAsReads
  <2>3. s[1] # "0"  BY <2>2, NumeralStarts
  <2> HIDE DEF s
  <2>4. p.chars = s /\ p.args = <<>>  BY <1>5 DEF Piece, s
  <2> QED  BY <2>2, <2>3, <2>4 DEF WidthPiece, NumberPiece, ReadsAs, w
<1> QED  BY <1>1, <1>3, <1>4, <1>5

(* and precisions.                                                         *)
LEMMA PrecPiecesAre ==
  ASSUME NEW d, IsSpecification(d), NEW p \in PrecPieces(d)
  PROVE  PrecPiece(p, d.prec)
<1> DEFINE w == d.prec
<1>1. CASE w = NoPrec
  BY <1>1 DEF PrecPieces, PrecPiece
<1>2. CASE w # NoPrec
  <2>1. PICK q : /\ p = Piece(<<".">>, <<>>) ++ q
                 /\ \/ q = StarPiece(w)
                    \/ w = 0 /\ q = Nothing
                    \/ \E m \in ReadAs(w) :
                         q \in {Piece(Numeral(m, 10, FALSE), <<>>),
                               Piece(<<"0">> \o Numeral(m, 10, FALSE), <<>>)}
    BY <1>2 DEF PrecPieces, StarPieces
  <2>2. w \in Int /\ w < Two(BITS["int"])  BY DEF IsSpecification
  <2> HIDE DEF w
  <2>3. NumberPiece(q, w)
    <3>1. CASE q = StarPiece(w)  BY <3>1 DEF NumberPiece
    <3>2. CASE w = 0 /\ q = Nothing
      <4>1. /\ q.chars = <<>> /\ q.args = <<>> /\ Len(<<>>) = 0 /\ IsSeq(<<>>)
            /\ Atoi(<<>>) = 0
        BY <3>2, ShortStrings, AtoiUnfolds DEF Nothing, Piece
      <4> QED  BY <3>2, <4>1 DEF NumberPiece
    <3>3. ASSUME NEW m \in ReadAs(w)  PROVE ReadsAs(Numeral(m, 10, FALSE), w)
      <4>1. w \in Nat  BY <2>2, <3>3 DEF ReadAs
      <4> QED  BY <2>2, <4>1, ReadAsReads
    <3>4. ASSUME NEW m \in ReadAs(w), q = Piece(Numeral(m, 10, FALSE), <<>>)
          PROVE  NumberPiece(q, w)
      <4> DEFINE n == Numeral(m, 10, FALSE)
      <4>2. ReadsAs(n, w)  BY <3>3
      <4> HIDE DEF n
      <4>1. q.chars = n /\ q.args = <<>>  BY <3>4 DEF Piece, n
      <4> QED  BY <4>1, <4>2 DEF NumberPiece, ReadsAs
    <3>5. ASSUME NEW m \in ReadAs(w),
                 q = Piece(<<"0">> \o Numeral(m, 10, FALSE), <<>>)
          PROVE  NumberPiece(q, w)
      <4> DEFINE n == Numeral(m, 10, FALSE)
                 z == <<"0">> \o n
      <4>5. ReadsAs(n, w)  BY <3>3
      <4>1. q.chars = z /\ q.args = <<>>  BY <3>5 DEF Piece
      <4> HIDE DEF n
      <4>2. /\ IsSeq(n) /\ Len(n) \in Nat /\ Atoi(z) = w
            /\ \A i \in 1..Len(n) : n[i] \in DigitChars
        BY <4>5 DEF ReadsAs
      <4>3. /\ IsSeq(z) /\ Len(z) = Len(n) + 1 /\ z[1] = "0"
            /\ \A i \in 1..Len(n) : z[i + 1] = n[i]
        BY <4>2, InFront
      <4> HIDE DEF z
      <4>4. ASSUME NEW i \in 1..Len(z)  PROVE z[i] \in DigitChars
        <5>1. CASE i = 1  BY <4>3, <5>1 DEF DigitChars
        <5>2. CASE i # 1
          <6>1. i - 1 \in 1..Len(n) /\ (i - 1) + 1 = i  BY <4>2, <4>3, <5>2
          <6> QED  BY <4>2, <4>3, <6>1
        <5> QED  BY <5>1, <5>2
      <4> QED  BY <4>1, <4>2, <4>3, <4>4 DEF NumberPiece
    <3> QED  BY <2>1, <3>1, <3>2, <3>4, <3>5
  <2> QED  BY <1>2, <2>1, <2>3 DEF PrecPiece, w
<1> QED  BY <1>1, <1>2

-----------------------------------------------------------------------------
(* Pieces in a call.                                                       *)

IsPiece(p) == IsSeq(p.chars) /\ IsSeq(p.args)
PieceAt(i, u, p) == Here(call.chars, i, p.chars) /\ Here(call.args, u + 1, p.args)

(* Two pieces, one behind the other.                                       *)
Both(i, u, p, q) ==
  /\ PieceAt(i, u, p) /\ PieceAt(i + Len(p.chars), u + Len(p.args), q)
  /\ IsPiece(p ++ q)
  /\ Len((p ++ q).chars) = Len(p.chars) + Len(q.chars)
  /\ Len((p ++ q).args) = Len(p.args) + Len(q.args)
  /\ Len(p.chars) \in Nat /\ Len(q.chars) \in Nat
  /\ Len(p.args) \in Nat /\ Len(q.args) \in Nat

(* One behind the other is where each of them is.                          *)
LEMMA TwoPieces ==
  ASSUME IsSeq(call.chars), IsSeq(call.args), NEW i \in Nat, NEW u \in Nat,
         NEW p, NEW q, IsPiece(p), IsPiece(q), PieceAt(i, u, p ++ q)
  PROVE  Both(i, u, p, q)
<1> DEFINE c == p.chars
           d == q.chars
           a == p.args
           b == q.args
           s == call.chars
           t == call.args
           v == u + 1
<1>1. (p ++ q).chars = c \o d /\ (p ++ q).args = a \o b  BY DEF ++, Piece
<1>2. /\ Len(s) \in Nat /\ Len(t) \in Nat /\ v \in Nat
      /\ IsSeq(c) /\ IsSeq(d) /\ IsSeq(a) /\ IsSeq(b)
      /\ Here(s, i, c \o d) /\ Here(t, v, a \o b)
  BY <1>1, StringIs DEF IsSeq, IsPiece, PieceAt
<1> HIDE DEF a, b, c, d, s, t, v
<1>3. /\ Here(s, i, c) /\ Here(s, i + Len(c), d)
      /\ Len(c \o d) = Len(c) + Len(d) /\ IsSeq(c \o d)
      /\ Len(c) \in Nat /\ Len(d) \in Nat
  BY ONLY <1>2, i \in Nat, HereTwice
<1>4. /\ Here(t, v, a) /\ Here(t, v + Len(a), b)
      /\ Len(a \o b) = Len(a) + Len(b) /\ IsSeq(a \o b)
      /\ Len(a) \in Nat /\ Len(b) \in Nat
  BY ONLY <1>2, HereTwice
<1>5. v + Len(a) = (u + Len(a)) + 1  BY <1>4 DEF v
<1> QED  BY <1>1, <1>3, <1>4, <1>5 DEF Both, PieceAt, IsPiece, a, b, c, d, s, t, v

(* The scanner, with the fields c, is done with a directive.               *)
ReadsOff(c, d, j, v) ==
  /\ Specifier(c) = d /\ c.at + 1 = j
  /\ c.used + (IF CharAt(c.at) \in Conversions THEN 1 ELSE 0) = v

(* A specification is read as the directive it spells,                     *)
LEMMA SpecificationReads ==
  ASSUME IsSeq(call.chars), IsSeq(call.args), NEW i \in Nat \ {0}, used \in Nat,
         NEW d, IsSpecification(d), NEW p \in Spellings(d), PieceAt(i, used, p)
  PROVE  /\ CharAt(i) = "%" /\ i <= Len(call.chars)
         /\ ReadsOff(ScanLength(ScanPrec(ScanWidth(ScanFlags(i + 1)))), d,
                     i + Len(p.chars), used + Len(p.args))
<1> DEFINE o == Piece(<<"%">>, <<>>)
           z == Piece(<<d.conv>>, <<d.arg>>)
<1>0. Len(call.chars) \in Nat /\ d.conv \in Conversions
  BY StringIs DEF IsSeq, IsSpecification
<1>1. PICK f \in FlagPieces(d), w \in WidthPieces(d), q \in PrecPieces(d),
           l \in LengthPieces(d) : p = o ++ f ++ w ++ q ++ l ++ z
  BY <1>0 DEF Spellings, Conversions
<1>2. /\ FlagsPiece(f, d.flags) /\ WidthPiece(w, d.width)
      /\ PrecPiece(q, d.prec) /\ d.flags \subseteq FlagChars
      /\ d.mod \in {"int", "h", "hh", "l"}
  BY FlagPiecesAre, WidthPiecesAre, PrecPiecesAre DEF IsSpecification
<1>3. /\ o.chars = <<"%">> /\ o.args = <<>>
      /\ z.chars = <<d.conv>> /\ z.args = <<d.arg>>
      /\ Len(<<>>) = 0 /\ Len(<<"%">>) = 1 /\ <<"%">>[1] = "%"
      /\ Len(<<d.conv>>) = 1 /\ <<d.conv>>[1] = d.conv
      /\ Len(<<d.arg>>) = 1 /\ <<d.arg>>[1] = d.arg
      /\ IsSeq(<<>>) /\ IsSeq(<<"%">>) /\ IsSeq(<<d.conv>>) /\ IsSeq(<<d.arg>>)
  BY ShortStrings DEF Piece
<1>4. /\ IsPiece(o) /\ IsPiece(f) /\ IsPiece(w) /\ IsPiece(q) /\ IsPiece(l)
      /\ IsPiece(z) /\ f.args = <<>> /\ l.args = <<>>
  <2>1. IsPiece(w)  BY <1>2, NumberPieceIs DEF WidthPiece, IsPiece
  <2>2. IsPiece(q)  BY <1>2, PrecPieceIs DEF IsPiece
  <2>3. IsPiece(f) /\ f.args = <<>>  BY <1>2, <1>3 DEF FlagsPiece, IsPiece
  <2>4. l.args = <<>> /\ IsSeq(l.chars)  BY <1>2, LengthPieceIs
  <2> QED  BY <1>3, <2>1, <2>2, <2>3, <2>4 DEF IsPiece
<1> HIDE DEF o, z
<1> DEFINE p1 == o ++ f
           p2 == p1 ++ w
           p3 == p2 ++ q
           p4 == p3 ++ l
           u == used
<1>5. i \in Nat /\ u \in Nat /\ PieceAt(i, u, p4 ++ z)  BY <1>1
<1>6. IsPiece(p1) /\ IsPiece(p2) /\ IsPiece(p3) /\ IsPiece(p4)
  <2>1. \A x, y : IsPiece(x) /\ IsPiece(y) => IsPiece(x ++ y)
    BY Concatenation DEF IsPiece, ++, Piece
  <2> HIDE DEF IsPiece
  <2> QED  BY <1>4, <2>1
<1> HIDE DEF p4, u
<1>7. Both(i, u, p4, z)  BY ONLY <1>4, <1>5, <1>6, TwoPieces,
                                 IsSeq(call.chars), IsSeq(call.args)
<1>8. Both(i, u, p3, l)
  <2>1. PieceAt(i, u, p3 ++ l)  BY <1>7 DEF Both, p4
  <2> HIDE DEF p3
  <2> QED  BY ONLY <1>4, <1>5, <1>6, <2>1, TwoPieces,
                   IsSeq(call.chars), IsSeq(call.args)
<1> HIDE DEF p3
<1>9. Both(i, u, p2, q)
  <2>1. PieceAt(i, u, p2 ++ q)  BY <1>8 DEF Both, p3
  <2> HIDE DEF p2
  <2> QED  BY ONLY <1>4, <1>5, <1>6, <2>1, TwoPieces,
                   IsSeq(call.chars), IsSeq(call.args)
<1> HIDE DEF p2
<1>10. Both(i, u, p1, w)
  <2>1. PieceAt(i, u, p1 ++ w)  BY <1>9 DEF Both, p2
  <2> HIDE DEF p1
  <2> QED  BY ONLY <1>4, <1>5, <1>6, <2>1, TwoPieces,
                   IsSeq(call.chars), IsSeq(call.args)
<1> HIDE DEF p1
<1>11. Both(i, u, o, f)
  <2>1. PieceAt(i, u, o ++ f)  BY <1>10 DEF Both, p1
  <2> QED  BY ONLY <1>4, <1>5, <1>6, <2>1, TwoPieces,
                   IsSeq(call.chars), IsSeq(call.args)
(* Where each of them is.                                                  *)
<1> DEFINE j == (i + 1) + Len(f.chars)
           k == j + Len(w.chars)
           m == k + Len(q.chars)
           e == m + Len(l.chars)
           v == u + Len(w.args)
<1>12. /\ Len(f.chars) \in Nat /\ Len(w.chars) \in Nat /\ Len(q.chars) \in Nat
       /\ Len(l.chars) \in Nat /\ Len(w.args) \in Nat /\ Len(q.args) \in Nat
       /\ Len(p1.args) = 0 /\ Len(p2.args) = Len(w.args)
       /\ Len(p3.args) = Len(w.args) + Len(q.args)
       /\ Len(p4.args) = Len(w.args) + Len(q.args)
       /\ i + Len(p1.chars) = j /\ i + Len(p2.chars) = k
       /\ i + Len(p3.chars) = m /\ i + Len(p4.chars) = e
       /\ i + Len((p4 ++ z).chars) = e + 1
       /\ u + Len(p4.args) = v + Len(q.args)
       /\ u + Len((p4 ++ z).args) = v + Len(q.args) + 1
  <2>1. /\ Len(f.chars) \in Nat /\ Len(w.chars) \in Nat /\ Len(q.chars) \in Nat
        /\ Len(l.chars) \in Nat /\ Len(w.args) \in Nat /\ Len(q.args) \in Nat
    BY <1>7, <1>8, <1>9, <1>10, <1>11 DEF Both
  <2>2. /\ Len(p1.chars) = 1 + Len(f.chars) /\ Len(p1.args) = 0
    BY <1>3, <1>4, <1>11 DEF Both, p1
  <2>3. /\ Len(p2.chars) = Len(p1.chars) + Len(w.chars)
        /\ Len(p2.args) = Len(p1.args) + Len(w.args)
    BY <1>10 DEF Both, p2
  <2>4. /\ Len(p3.chars) = Len(p2.chars) + Len(q.chars)
        /\ Len(p3.args) = Len(p2.args) + Len(q.args)
    BY <1>9 DEF Both, p3
  <2>5. /\ Len(p4.chars) = Len(p3.chars) + Len(l.chars)
        /\ Len(p4.args) = Len(p3.args) + 0
    BY <1>3, <1>4, <1>8 DEF Both, p4
  <2>6. /\ Len((p4 ++ z).chars) = Len(p4.chars) + 1
        /\ Len((p4 ++ z).args) = Len(p4.args) + 1
    BY <1>3, <1>7 DEF Both
  <2>7. /\ \A x, y, n \in Nat : x + (y + n) = (x + y) + n
        /\ \A x \in Nat : x + 0 = x /\ 0 + x = x /\ x + 1 \in Nat
        /\ \A x, y \in Nat : x + y \in Nat
    OBVIOUS
  <2> DEFINE lf == Len(f.chars)
             lw == Len(w.chars)
             lq == Len(q.chars)
             ll == Len(l.chars)
             n1 == Len(p1.chars)
             n2 == Len(p2.chars)
             n3 == Len(p3.chars)
             n4 == Len(p4.chars)
             n5 == Len((p4 ++ z).chars)
             aw == Len(w.args)
             aq == Len(q.args)
  <2>8. /\ n1 = 1 + lf /\ n2 = n1 + lw /\ n3 = n2 + lq /\ n4 = n3 + ll
        /\ n5 = n4 + 1
        /\ lf \in Nat /\ lw \in Nat /\ lq \in Nat /\ ll \in Nat /\ i \in Nat
    BY <1>5, <2>1, <2>2, <2>3, <2>4, <2>5, <2>6
  <2>9. /\ j = (i + 1) + lf /\ k = j + lw /\ m = k + lq /\ e = m + ll
    OBVIOUS
  <2>10. /\ Len(p1.args) = 0 /\ Len(p2.args) = aw /\ Len(p3.args) = aw + aq
         /\ Len(p4.args) = aw + aq /\ Len((p4 ++ z).args) = (aw + aq) + 1
    <3>1. aw \in Nat /\ aq \in Nat  BY <2>1
    <3> HIDE DEF aw, aq
    <3>2. Len(p2.args) = aw  BY ONLY <2>2, <2>3, <2>7, <3>1 DEF aw
    <3>3. Len(p3.args) = aw + aq  BY ONLY <2>4, <3>2 DEF aq
    <3>4. Len(p4.args) = aw + aq  BY ONLY <2>5, <2>7, <3>1, <3>3
    <3> QED  BY ONLY <2>2, <2>6, <3>2, <3>3, <3>4
  <2>11. u + ((aw + aq) + 1) = (v + aq) + 1 /\ u + (aw + aq) = v + aq
    <3>1. aw \in Nat /\ aq \in Nat /\ v = u + aw  BY <2>1
    <3> HIDE DEF aw, aq, v
    <3> QED  BY ONLY <1>5, <3>1
  <2> HIDE DEF lf, lw, lq, ll, n1, n2, n3, n4, n5, j, k, m, e
  <2>12. i + n1 = j /\ n1 \in Nat  BY ONLY <2>8, <2>9
  <2>13. i + n2 = k /\ n2 \in Nat  BY ONLY <2>8, <2>9, <2>12
  <2>14. i + n3 = m /\ n3 \in Nat  BY ONLY <2>8, <2>9, <2>13
  <2>15. i + n4 = e /\ n4 \in Nat  BY ONLY <2>8, <2>9, <2>14
  <2>16. i + n5 = e + 1  BY ONLY <2>8, <2>15
  <2> QED
    BY ONLY <2>1, <2>10, <2>11, <2>12, <2>13, <2>14, <2>15, <2>16
    DEF n1, n2, n3, n4, n5, aw, aq
<1>13. /\ Here(call.chars, i, <<"%">>) /\ Here(call.chars, i + 1, f.chars)
  BY <1>3, <1>11 DEF Both, PieceAt
<1>14. Here(call.chars, j, w.chars) /\ Here(call.args, u + 1, w.args)
  <2>1. PieceAt(i + Len(p1.chars), u + Len(p1.args), w)  BY <1>10 DEF Both
  <2>2. u + Len(p1.args) = u  BY <1>5, <1>12
  <2> QED  BY ONLY <1>12, <2>1, <2>2 DEF PieceAt
<1>15. Here(call.chars, k, q.chars) /\ Here(call.args, v + 1, q.args)
  <2>1. PieceAt(i + Len(p2.chars), u + Len(p2.args), q)  BY <1>9 DEF Both
  <2> HIDE DEF k
  <2> QED  BY ONLY <1>12, <2>1 DEF PieceAt, v
<1>16. Here(call.chars, m, l.chars)
  <2>1. PieceAt(i + Len(p3.chars), u + Len(p3.args), l)  BY <1>8 DEF Both
  <2> HIDE DEF m
  <2> QED  BY ONLY <1>12, <2>1 DEF PieceAt
<1>17. /\ Here(call.chars, e, <<d.conv>>)
       /\ Here(call.args, (v + Len(q.args)) + 1, <<d.arg>>)
  <2>1. PieceAt(i + Len(p4.chars), u + Len(p4.args), z)  BY <1>7 DEF Both
  <2>2. u + Len(p4.args) = v + Len(q.args)  BY <1>12
  <2> HIDE DEF e, v
  <2> QED  BY ONLY <1>3, <1>12, <2>1, <2>2 DEF PieceAt
<1>18. /\ j \in Nat \ {0} /\ k \in Nat \ {0} /\ m \in Nat \ {0} /\ e \in Nat \ {0}
       /\ i + 1 \in Nat \ {0} /\ v \in Nat /\ v + Len(q.args) \in Nat
  <2>1. \A x \in Nat \ {0}, y \in Nat : x + y \in Nat \ {0}  OBVIOUS
  <2>2. \A x, y \in Nat : x + y \in Nat  OBVIOUS
  <2>3. i + 1 \in Nat \ {0}  BY <1>5
  <2>4. j \in Nat \ {0}  BY ONLY <1>12, <2>1, <2>3 DEF j
  <2>5. k \in Nat \ {0}
    <3> HIDE DEF j
    <3> QED  BY ONLY <1>12, <2>1, <2>4 DEF k
  <2>6. m \in Nat \ {0}
    <3> HIDE DEF k
    <3> QED  BY ONLY <1>12, <2>1, <2>5 DEF m
  <2>7. e \in Nat \ {0}
    <3> HIDE DEF m
    <3> QED  BY ONLY <1>12, <2>1, <2>6 DEF e
  <2>8. v \in Nat  BY ONLY <1>5, <1>12, <2>2 DEF v
  <2> HIDE DEF v
  <2> QED  BY ONLY <1>12, <2>2, <2>3, <2>4, <2>5, <2>6, <2>7, <2>8
<1> HIDE DEF j, k, m, e, v
<1>19. CharAt(i) = "%" /\ i <= Len(call.chars)
  <2>1. Len(<<"%">>) > 0  BY <1>3
  <2>2. CharAt(i) = "%"  BY <1>0, <1>3, <1>13, <2>1, HereReads
  <2>3. i + 1 <= Len(call.chars) + 1  BY <1>3, <1>13 DEF Here
  <2> QED  BY <1>0, <1>5, <2>2, <2>3
<1>20. CharAt(e) = d.conv
  <2>1. Len(<<d.conv>>) > 0  BY <1>3
  <2> QED  BY <1>0, <1>3, <1>17, <1>18, <2>1, HereReads
<1>21. call.args[(v + Len(q.args)) + 1] = d.arg
  <2> DEFINE b == (v + Len(q.args)) + 1
  <2>1. call.args[b + 1 - 1] = d.arg
    <3>1. 1 \in 1..Len(<<d.arg>>)  BY <1>3
    <3> HIDE DEF b
    <3> QED  BY <1>3, <1>17, <3>1 DEF Here, b
  <2>2. b + 1 - 1 = b  BY <1>18
  <2> QED  BY <2>1, <2>2
<1> DEFINE c == ScanLength(ScanPrec(ScanWidth(ScanFlags(i + 1))))
<1>22. Scanned(c, e, v + Len(q.args), d.flags, d.width, d.prec, d.mod)
  <2> DEFINE h == i + 1
  <2>1. /\ j = h + Len(f.chars) /\ k = j + Len(w.chars)
        /\ m = k + Len(q.chars) /\ e = m + Len(l.chars)
        /\ v = used + Len(w.args)
    BY DEF j, k, m, e, v, u
  <2>2. /\ Here(call.chars, h, f.chars) /\ Here(call.chars, j, w.chars)
        /\ Here(call.chars, k, q.chars) /\ Here(call.chars, m, l.chars)
        /\ Here(call.args, used + 1, w.args) /\ Here(call.args, v + 1, q.args)
    BY <1>13, <1>14, <1>15, <1>16 DEF u
  <2>3. CharAt(e) \in Ends  BY <1>0, <1>20 DEF Ends
  <2>4. h \in Nat \ {0}  BY <1>18
  <2>5. l \in LengthPieces(d)  BY <1>1
  <2> HIDE DEF h
  <2>6. Laid(d, f, w, q, l, h, j, k, m, e, v)
    BY ONLY <1>2, <2>1, <2>2, <2>3, <2>4, <2>5 DEF Laid
  <2>7. Scanned(ScanLength(ScanPrec(ScanWidth(ScanFlags(h)))), e,
                v + Len(q.args), d.flags, d.width, d.prec, d.mod)
    BY ONLY <2>6, FieldsRead, used \in Nat, IsSeq(call.chars), IsSeq(call.args)
  <2> QED  BY <2>7 DEF h
<1> HIDE DEF c
<1>23. ReadsOff(c, d, i + Len(p.chars), used + Len(p.args))
  <2>1. /\ c.at = e /\ c.used = v + Len(q.args) /\ c.flags = d.flags
        /\ c.width = d.width /\ c.prec = d.prec /\ c.mod = d.mod
    BY <1>22 DEF Scanned
  <2>2. Specifier(c) = Directive(d.flags, d.width, d.prec, d.mod, d.conv, d.arg)
    BY ONLY <1>0, <1>20, <1>21, <2>1 DEF Specifier
  <2>3. Specifier(c) = d  BY <2>2 DEF IsSpecification
  <2>4. CharAt(c.at) \in Conversions  BY <1>0, <1>20, <2>1
  <2>5. p = p4 ++ z  BY <1>1 DEF p1, p2, p3, p4
  <2>6. i + Len(p.chars) = e + 1 /\ used + Len(p.args) = v + Len(q.args) + 1
    BY ONLY <1>12, <2>5 DEF e, v, u, j, k, m
  <2> QED  BY <2>1, <2>3, <2>4, <2>6 DEF ReadsOff
<1> QED  BY <1>19, <1>23 DEF c

(* and a character as itself.                                              *)
LEMMA TextReads ==
  ASSUME IsSeq(call.chars), IsSeq(call.args), NEW i \in Nat \ {0}, used \in Nat,
         NEW c, NEW p \in Spellings(Plain(c)), PieceAt(i, used, p)
  PROVE  /\ i <= Len(call.chars) /\ Len(p.args) = 0
         /\ \/ /\ CharAt(i) # "%" /\ c = CharAt(i) /\ Len(p.chars) = 1
            \/ /\ CharAt(i) = "%"
               /\ ReadsOff(ScanLength(ScanPrec(ScanWidth(ScanFlags(i + 1)))),
                           Plain(c), i + Len(p.chars), used)
<1>0. Len(call.chars) \in Nat  BY StringIs DEF IsSeq
<1>1. Plain(c).conv = "text" /\ Plain(c).arg = <<c>>
  BY DEF Plain, Directive
<1>2. /\ Len(<<>>) = 0 /\ IsSeq(<<>>) /\ <<"%">>[1] = "%"
      /\ IsSeq(<<c>>) /\ Len(<<c>>) = 1 /\ <<c>>[1] = c
  BY ShortStrings
<1>3. /\ p.args = <<>>
      /\ p.chars = IF c = "%" THEN <<"%", "%">> ELSE <<c>>
  <2>1. p = Piece(IF <<c>> = <<"%">> THEN <<"%", "%">> ELSE <<c>>, <<>>)
    BY <1>1 DEF Spellings
  <2>2. <<c>> = <<"%">> <=> c = "%"  BY ONLY <1>2
  <2> QED  BY <2>1, <2>2 DEF Piece
<1>4. Here(call.chars, i, p.chars)  BY DEF PieceAt
<1>5. CASE c # "%"
  <2>1. p.chars = <<c>>  BY <1>3, <1>5
  <2>2. Len(p.chars) > 0 /\ IsSeq(p.chars) /\ Len(p.chars) = 1  BY <1>2, <2>1
  <2>3. CharAt(i) = c  BY <1>0, <1>2, <1>4, <2>1, <2>2, HereReads
  <2>4. i <= Len(call.chars)  BY <1>0, <1>4, <2>2 DEF Here
  <2> QED  BY <1>2, <1>3, <1>5, <2>2, <2>3, <2>4
<1>6. CASE c = "%"
  <2>1. p.chars = <<"%", "%">>  BY <1>3, <1>6
  <2>2. Len(<<"%", "%">>) = 2 /\ <<"%", "%">>[1] = "%" /\ <<"%", "%">>[2] = "%"
    OBVIOUS
  <2>3. i + 1 <= Len(call.chars)  BY <1>0, <1>4, <2>1, <2>2 DEF Here
  <2>4. CharAt(i) = "%" /\ CharAt(i + 1) = "%"
    <3>1. \A k \in 1..2 : call.chars[i + k - 1] = <<"%", "%">>[k]
      BY <1>4, <2>1, <2>2 DEF Here
    <3>2. 1 \in 1..2 /\ 2 \in 1..2 /\ i + 1 - 1 = i /\ i + 2 - 1 = i + 1
      OBVIOUS
    <3>3. call.chars[i + 1 - 1] = "%" /\ call.chars[i + 2 - 1] = "%"
      BY ONLY <2>2, <3>1, <3>2
    <3>4. call.chars[i] = "%" /\ call.chars[i + 1] = "%"  BY ONLY <3>2, <3>3
    <3> QED  BY <1>0, <2>3, <3>4 DEF CharAt
  <2> DEFINE d == Plain(c)
             h == i + 1
             b == ScanLength(ScanPrec(ScanWidth(ScanFlags(h))))
  <2>5. /\ d.mod = "int" /\ d.flags = {} /\ d.width = 0 /\ d.prec = NoPrec
    BY DEF Plain, Directive
  <2> HIDE DEF d, h
  <2>6. Nothing.chars = <<>> /\ Nothing.args = <<>>  BY DEF Nothing, Piece
  <2>7. Laid(d, Nothing, Nothing, Nothing, Nothing, h, h, h, h, h, used)
    <3>1. h \in Nat \ {0} /\ h + Len(<<>>) = h /\ used + Len(<<>>) = used
      BY <1>2 DEF h
    <3>2. FlagsPiece(Nothing, {})
      <4>1. {<<>>[k] : k \in 1..0} = {}  OBVIOUS
      <4> QED  BY <1>2, <2>6, <4>1 DEF FlagsPiece
    <3>3. WidthPiece(Nothing, 0)
      <4>1. Atoi(<<>>) = 0  BY AtoiUnfolds, <1>2
      <4> QED  BY <1>2, <2>6, <4>1 DEF WidthPiece, NumberPiece
    <3>4. PrecPiece(Nothing, NoPrec)  BY DEF PrecPiece
    <3>5. Nothing \in LengthPieces(d)  BY <2>5 DEF LengthPieces
    <3>6. Here(call.chars, h, <<>>)
      <4>1. h + Len(<<>>) <= Len(call.chars) + 1  BY <1>0, <1>2, <2>3 DEF h
      <4> QED  BY <1>2, <4>1 DEF Here
    <3>7. Here(call.args, used + 1, <<>>)
      <4>1. used + 1 <= Len(call.args) + 1
        <5>1. (used + 1) + Len(<<>>) <= Len(call.args) + 1
          BY <1>3 DEF PieceAt, Here
        <5>2. (used + 1) + Len(<<>>) = used + 1  BY <1>2
        <5> QED  BY <5>1, <5>2
      <4> QED  BY <1>2, <4>1 DEF Here
    <3>8. CharAt(h) \in Ends  BY <2>4 DEF Ends, h
    <3>9. {} \subseteq FlagChars  OBVIOUS
    <3> QED
      BY ONLY <2>5, <2>6, <3>1, <3>2, <3>3, <3>4, <3>5, <3>6, <3>7, <3>8, <3>9
      DEF Laid
  <2>8. Scanned(b, h, used + Len(Nothing.args), {}, 0, NoPrec, "int")
    <3>1. Scanned(b, h, used + Len(Nothing.args), d.flags, d.width, d.prec, d.mod)
      BY ONLY <2>7, FieldsRead, used \in Nat, IsSeq(call.chars), IsSeq(call.args)
    <3> QED  BY <2>5, <3>1
  <2> HIDE DEF b
  <2>9. b.at = h /\ b.used = used  BY <1>2, <2>6, <2>8 DEF Scanned
  <2>10. Specifier(b) = Plain("%")
    BY <2>4, <2>9 DEF Specifier, Conversions, h
  <2>11. h + 1 = i + Len(p.chars)  BY <2>1, <2>2 DEF h
  <2>12. ReadsOff(b, Plain(c), i + Len(p.chars), used)
    <3>1. CharAt(b.at) \notin Conversions  BY <2>4, <2>9 DEF Conversions, h
    <3> QED  BY <1>6, <2>9, <2>10, <2>11, <3>1 DEF ReadsOff
  <2>13. i <= Len(call.chars)  BY <1>0, <2>3
  <2> QED  BY <1>2, <1>3, <2>4, <2>12, <2>13 DEF b, h
<1> QED  BY <1>5, <1>6

-----------------------------------------------------------------------------
(* The formatter of the directives that are meant computes what Printf     *)
(* computes: the two instances of its operators are the same.              *)
LEMMA SameFormatter ==
  /\ \A d : Meant!Conversion(d) = Conversion(d)
  /\ \A d : Meant!Magnitude(d) = Magnitude(d)
  /\ \A n, up : Meant!Digit(n, up) = Digit(n, up)
  /\ \A k, b : Meant!NtoaFormat(k, b) = NtoaFormat(k, b)
  /\ \A k, b : Meant!OutRev(k, b) = OutRev(k, b)
  /\ \A d, s : Meant!OutString(d, s) = OutString(d, s)
  /\ \A s, i : Meant!Stored(s, i) = Stored(s, i)
  /\ Meant!NulIndex = NulIndex
  /\ \A v, n : Meant!TwosComplement(v, n) = TwosComplement(v, n)
  /\ \A S : Meant!Cardinality(S) = Cardinality(S)
<1>1. \A d : Meant!Fields(d) = Fields(d)
  BY DEF Fields, Meant!Fields, NoPrec, Meant!NoPrec, Two, Meant!Two
<1>2. \A v, n : Meant!TwosComplement(v, n) = TwosComplement(v, n)
  BY DEF TwosComplement, Meant!TwosComplement, Unsigned, Meant!Unsigned, Two,
         Meant!Two
<1>3. \A d : Meant!ArgValue(d) = ArgValue(d)
  BY DEF ArgValue, Meant!ArgValue, Signed, Meant!Signed, TwosComplement,
         Meant!TwosComplement, Unsigned, Meant!Unsigned, Two, Meant!Two
<1>4. \A c : Meant!Base(c) = Base(c)  BY DEF Base, Meant!Base
<1>5. \A d : Meant!Conversion(d) = Conversion(d)
  BY <1>1, <1>3, <1>4 DEF Conversion, Meant!Conversion, Signed, Meant!Signed
<1>6. \A d : Meant!Magnitude(d) = Magnitude(d)
  BY <1>3 DEF Magnitude, Meant!Magnitude, Unsigned, Meant!Unsigned, Two, Meant!Two
<1>7. \A n, up : Meant!Digit(n, up) = Digit(n, up)
  BY DEF Digit, Meant!Digit
<1>8. \A c, n : Meant!Repeat(c, n) = Repeat(c, n)
  BY DEF Repeat, Meant!Repeat, MaxOf, Meant!MaxOf
<1>9. \A k : Meant!PadWidth(k) = PadWidth(k)
  BY DEF PadWidth, Meant!PadWidth
<1>10. \A b, n : Meant!ZerosTo(b, n) = ZerosTo(b, n)
  BY <1>8 DEF ZerosTo, Meant!ZerosTo, MinOf, Meant!MinOf
<1>11. \A k, b : Meant!WithZeros(k, b) = WithZeros(k, b)
  BY <1>9, <1>10 DEF WithZeros, Meant!WithZeros
<1>12. \A b, c : Meant!Push(b, c) = Push(b, c)
  BY DEF Push, Meant!Push
<1>13. \A k, b : Meant!WithPrefix(k, b) = WithPrefix(k, b)
  BY <1>9, <1>12 DEF WithPrefix, Meant!WithPrefix, MaxOf, Meant!MaxOf
<1>14. \A k, b : Meant!WithSign(k, b) = WithSign(k, b)
  BY <1>12 DEF WithSign, Meant!WithSign
<1>15. \A k, b : Meant!NtoaFormat(k, b) = NtoaFormat(k, b)
  BY <1>11, <1>13, <1>14 DEF NtoaFormat, Meant!NtoaFormat
<1>16. \A k, b : Meant!OutRev(k, b) = OutRev(k, b)
  BY <1>8, <1>9 DEF OutRev, Meant!OutRev, Reverse, Meant!Reverse
<1>17. \A d, s : Meant!OutString(d, s) = OutString(d, s)
  <2>1. \A x, y : Meant!MinOf(x, y) = MinOf(x, y)  BY DEF MinOf, Meant!MinOf
  <2> TAKE d, s
  <2> DEFINE f == Fields(d)
             shown == IF "P" \in f.flags /\ d.conv = "s"
                      THEN SubSeq(s, 1, MinOf(Len(s), f.prec)) ELSE s
             blanks == Repeat(" ", f.width - Len(shown))
  <2>2. OutString(d, s) = IF "-" \in f.flags THEN shown \o blanks
                          ELSE blanks \o shown
    BY DEF OutString
  <2>3. Meant!OutString(d, s) = IF "-" \in f.flags THEN shown \o blanks
                                ELSE blanks \o shown
    BY <1>1, <1>8, <2>1 DEF Meant!OutString
  <2> HIDE DEF f, shown, blanks
  <2> QED  BY ONLY <2>2, <2>3
<1>18. \A s, i : Meant!Stored(s, i) = Stored(s, i)
  BY DEF Stored, Meant!Stored
<1>19. Meant!NulIndex = NulIndex
  BY DEF NulIndex, Meant!NulIndex, Two, Meant!Two
<1>20. \A S : Meant!Cardinality(S) = Cardinality(S)
  BY DEF Cardinality, Meant!Cardinality
<1> QED
  BY <1>2, <1>5, <1>6, <1>7, <1>15, <1>16, <1>17, <1>18, <1>19, <1>20

(* The scanner is between two spellings and has read what is meant by      *)
(* those before.                                                           *)
ReadInv ==
  LET k == Len(fmt)
  IN  /\ call \in CALLS /\ pos \in Nat \ {0}
      /\ IsSeq(fmt) /\ k <= Len(call.means)
      /\ \A i \in 1..k : fmt[i] = call.means[i]
      /\ \E st, us : /\ SpelledBy(call, st, us)
                     /\ at = st[k + 1] /\ used = us[k + 1]

(* Every step of the formatter is a step on what is meant.                 *)
LEMMA FormatSteps ==
  ASSUME ReadInv, IsSeq(call.means), Format
  PROVE  Meant!PrintfNext
<1>1. /\ IsSeq(fmt) /\ Len(fmt) <= Len(call.means)
      /\ \A i \in 1..Len(fmt) : fmt[i] = call.means[i]
  BY DEF ReadInv
<1>2. UNCHANGED <<call, call.means>>  BY DEF Format, scanVars
<1>3. ASSUME pos <= Len(fmt)
      PROVE  pos <= Len(call.means) /\ call.means[pos] = fmt[pos]
  <2>1. Len(fmt) \in Nat /\ Len(call.means) \in Nat /\ pos \in Nat \ {0}
    BY StringIs DEF IsSeq, ReadInv
  <2>2. pos \in 1..Len(fmt) /\ pos <= Len(call.means)  BY <1>1, <1>3, <2>1
  <2> QED  BY <1>1, <2>2
<1>4. CASE FormatText
  <2>1. pos <= Len(fmt) /\ pc = "format"  BY <1>4 DEF FormatText
  <2>2. pos <= Len(call.means) /\ call.means[pos] = fmt[pos]  BY <1>3, <2>1
  <2>3. /\ call.means[pos].conv \in Meant!TextConversions
        /\ todo' = IF call.means[pos].conv = "text" THEN call.means[pos].arg
                   ELSE Meant!OutString(call.means[pos], call.means[pos].arg)
        /\ pc' = "out"
    BY <1>4, <2>2, SameFormatter
    DEF FormatText, TextConversions, Meant!TextConversions
  <2>4. Meant!FormatText
    BY <1>2, <1>4, <2>1, <2>2, <2>3
    DEF FormatText, Meant!FormatText, callVars, Meant!callVars, outVars,
        Meant!outVars, numberVars, Meant!numberVars
  <2> QED  BY <2>4 DEF Meant!PrintfNext
<1>8. CASE FormatInt
  <2>1. pos <= Len(fmt) /\ pc = "format"  BY <1>8 DEF FormatInt
  <2>2. pos <= Len(call.means) /\ call.means[pos] = fmt[pos]  BY <1>3, <2>1
  <2>3. /\ call.means[pos].conv \notin Meant!TextConversions
        /\ conv' = Meant!Conversion(call.means[pos])
        /\ value' = Meant!Magnitude(call.means[pos])
    BY <1>8, <2>2, SameFormatter
    DEF FormatInt, TextConversions, Meant!TextConversions
  <2>4. Meant!FormatInt
    BY <1>2, <1>8, <2>1, <2>2, <2>3
    DEF FormatInt, Meant!FormatInt, callVars, Meant!callVars, outVars,
        Meant!outVars
  <2> QED  BY <2>4 DEF Meant!PrintfNext
<1>5. CASE NtoaDigit
  <2>1. Meant!NtoaDigit
    BY <1>2, <1>5, SameFormatter
    DEF NtoaDigit, Meant!NtoaDigit, callVars, Meant!callVars, outVars, Meant!outVars
  <2> QED  BY <2>1 DEF Meant!PrintfNext
<1>6. CASE Ntoa
  <2>1. Meant!Ntoa
    BY <1>2, <1>6, SameFormatter
    DEF Ntoa, Meant!Ntoa, callVars, Meant!callVars, outVars, Meant!outVars,
        numberVars, Meant!numberVars
  <2> QED  BY <2>1 DEF Meant!PrintfNext
<1>7. CASE Out
  <2>1. cells' = Meant!Stored(todo, idx)  BY <1>7, SameFormatter DEF Out
  <2>2. /\ pc = "out"
        /\ sent' = IF sink \notin {"char", "fct"} THEN sent
                   ELSE sent + Meant!Cardinality({i \in DOMAIN todo :
                                                   todo[i] # Meant!NUL})
        /\ idx' = idx + Len(todo) /\ text' = text \o todo /\ todo' = <<>>
        /\ pos' = pos + 1 /\ pc' = "format"
    BY <1>7, SameFormatter DEF Out, NUL, Meant!NUL
  <2>3. /\ call.means' = call.means /\ sink' = sink /\ maxlen' = maxlen
        /\ conv' = conv /\ value' = value /\ buf' = buf
        /\ result' = result
    BY <1>2, <1>7 DEF Out, callVars, numberVars
  <2>4. Meant!Out
    BY ONLY <2>1, <2>2, <2>3
    DEF Meant!Out, Meant!callVars, Meant!numberVars
  <2> QED  BY <2>4 DEF Meant!PrintfNext
<1> QED  BY <1>4, <1>5, <1>6, <1>7, <1>8 DEF Format

(* Two pieces make a piece.                                                *)
LEMMA Joined ==
  ASSUME NEW x, NEW y, IsPiece(x), IsPiece(y)
  PROVE  /\ IsPiece(x ++ y) /\ Len(x.chars) \in Nat /\ Len(x.args) \in Nat
         /\ Len((x ++ y).chars) = Len(x.chars) + Len(y.chars)
         /\ Len((x ++ y).args) = Len(x.args) + Len(y.args)
<1>1. (x ++ y).chars = x.chars \o y.chars /\ (x ++ y).args = x.args \o y.args
  BY DEF ++, Piece
<1>2. IsSeq(x.chars) /\ IsSeq(y.chars) /\ IsSeq(x.args) /\ IsSeq(y.args)
  BY DEF IsPiece
<1>3. /\ IsSeq(x.chars \o y.chars)
      /\ Len(x.chars \o y.chars) = Len(x.chars) + Len(y.chars)
  BY <1>2, Concatenation
<1>4. /\ IsSeq(x.args \o y.args)
      /\ Len(x.args \o y.args) = Len(x.args) + Len(y.args)
  BY <1>2, Concatenation
<1>5. Len(x.chars) \in Nat /\ Len(x.args) \in Nat
  BY <1>2, StringIs DEF IsSeq
<1> QED  BY <1>1, <1>3, <1>4, <1>5 DEF IsPiece

(* A spelling is not empty.                                                *)
LEMMA SpellingIs ==
  ASSUME NEW d, Writable(d), NEW p \in Spellings(d)
  PROVE  IsSeq(p.chars) /\ IsSeq(p.args) /\ Len(p.chars) \in Nat \ {0}
<1>1. ASSUME NEW c, d = Plain(c)
      PROVE  IsSeq(p.chars) /\ IsSeq(p.args) /\ Len(p.chars) \in Nat \ {0}
  <2>1. d.conv = "text" /\ d.arg = <<c>>  BY <1>1 DEF Plain, Directive
  <2>2. p.args = <<>> /\ p.chars \in {<<"%", "%">>, <<c>>}
    BY <2>1 DEF Spellings, Piece
  <2>3. <<"%", "%">> \in Seq({"%"}) /\ Len(<<"%", "%">>) = 2  OBVIOUS
  <2>4. IsSeq(<<"%", "%">>)  BY <2>3, StringIs
  <2> QED  BY <2>2, <2>3, <2>4, ShortStrings
<1>2. CASE IsSpecification(d)
  <2> DEFINE o == Piece(<<"%">>, <<>>)
             z == Piece(<<d.conv>>, <<d.arg>>)
  <2>1. d.conv \in Conversions  BY <1>2 DEF IsSpecification
  <2>2. PICK f \in FlagPieces(d), w \in WidthPieces(d), q \in PrecPieces(d),
             l \in LengthPieces(d) : p = o ++ f ++ w ++ q ++ l ++ z
    BY <2>1 DEF Spellings, Conversions
  <2>3. /\ FlagsPiece(f, d.flags) /\ WidthPiece(w, d.width)
        /\ PrecPiece(q, d.prec) /\ d.mod \in {"int", "h", "hh", "l"}
    BY <1>2, FlagPiecesAre, WidthPiecesAre, PrecPiecesAre DEF IsSpecification
  <2>4. /\ IsPiece(o) /\ IsPiece(z) /\ Len(z.chars) = 1
    BY ShortStrings DEF IsPiece, Piece
  <2>5. IsPiece(f)  BY <2>3, ShortStrings DEF FlagsPiece, IsPiece
  <2>6. IsPiece(w)  BY <2>3, NumberPieceIs DEF WidthPiece, IsPiece
  <2>7. IsPiece(q)  BY <2>3, PrecPieceIs DEF IsPiece
  <2>8. IsPiece(l)  BY <2>3, LengthPieceIs, ShortStrings DEF IsPiece
  <2>9. \A x, y : IsPiece(x) /\ IsPiece(y) =>
          /\ IsPiece(x ++ y) /\ Len(x.chars) \in Nat
          /\ Len((x ++ y).chars) = Len(x.chars) + Len(y.chars)
    BY Joined
  <2> HIDE DEF o, z, IsPiece
  <2>10. IsPiece(o ++ f ++ w ++ q ++ l)
    BY <2>4, <2>5, <2>6, <2>7, <2>8, <2>9
  <2> DEFINE r == o ++ f ++ w ++ q ++ l
  <2>11. p = r ++ z  BY <2>2
  <2> HIDE DEF r
  <2>12. IsPiece(r ++ z) /\ Len(r.chars) \in Nat
         /\ Len((r ++ z).chars) = Len(r.chars) + 1
    BY <2>4, <2>9, <2>10 DEF r
  <2> QED  BY <2>11, <2>12 DEF IsPiece
<1> QED  BY <1>1, <1>2 DEF Writable

(* ReadInv holds with nothing read,                                        *)
LEMMA ReadInitially ==
  ASSUME FORMATS = {<<>>}, \A c \in CALLS : SpelledOut(c), ScanInit
  PROVE  ReadInv /\ Meant!PrintfInit
<1>1. /\ call \in CALLS /\ at = 1 /\ used = 0 /\ fmt = <<>> /\ pos = 1
  BY DEF ScanInit, PrintfInit
<1>2. PICK st, us : SpelledBy(call, st, us)
  BY <1>1 DEF SpelledOut
<1>3. Len(fmt) = 0 /\ IsSeq(fmt) /\ Len(call.means) \in Nat
  BY <1>1, ShortStrings, StringIs DEF SpelledOut, IsSeq
<1>4. ReadInv
  <2>1. 0 + 1 = 1 /\ 1 \in Nat \ {0} /\ \A i \in 1..0 : FALSE  OBVIOUS
  <2>2. at = st[1] /\ used = us[1]  BY <1>1, <1>2 DEF SpelledBy
  <2>3. 0 <= Len(call.means)  BY <1>3
  <2> QED  BY ONLY <1>1, <1>2, <1>3, <2>1, <2>2, <2>3 DEF ReadInv
<1>5. Meant!PrintfInit
  <2>1. call.means \in MeantFormats  BY <1>1 DEF MeantFormats
  <2> QED
    BY <2>1 DEF ScanInit, PrintfInit, Meant!PrintfInit, Two, Meant!Two
<1> QED  BY <1>4, <1>5

(* and it stays when the scanner reads: it then reads what is meant, and   *)
(* there is something left that is meant.                                  *)
LEMMA ReadsNext ==
  ASSUME ReadInv, SpelledOut(call), ScanChar \/ ScanDirective
  PROVE  ReadInv'
<1> DEFINE k == Len(fmt)
           n == Len(call.means)
<1>1. PICK st, us : SpelledBy(call, st, us) /\ at = st[k + 1] /\ used = us[k + 1]
  BY DEF ReadInv
<1>2. /\ IsSeq(call.chars) /\ IsSeq(call.args) /\ Len(call.chars) \in Nat
      /\ n \in Nat /\ k \in Nat /\ k <= n /\ IsSeq(fmt)
      /\ \A i \in 1..n : Writable(call.means[i])
      /\ call \in CALLS /\ pos \in Nat \ {0}
      /\ \A i \in 1..k : fmt[i] = call.means[i]
  BY StringIs DEF ReadInv, SpelledOut, IsSeq
<1>3. /\ st \in [1..n + 1 -> Nat \ {0}] /\ us \in [1..n + 1 -> Nat]
      /\ st[n + 1] = Len(call.chars) + 1
      /\ \A i \in 1..n : SpellingAt(call, st[i], us[i], call.means[i], st[i + 1],
                                    us[i + 1])
  BY <1>1 DEF SpelledBy
<1>4. at <= Len(call.chars) /\ call' = call /\ pos' = pos
  BY DEF ScanChar, ScanDirective, Reading
<1> HIDE DEF k, n
<1>5. k < n
  <2>1. k # n  BY <1>1, <1>2, <1>3, <1>4
  <2> QED  BY <1>2, <2>1
<1>6. k + 1 \in 1..n /\ k + 1 \in 1..n + 1 /\ (k + 1) + 1 \in 1..n + 1
  BY <1>2, <1>5
<1> DEFINE d == call.means[k + 1]
           j == st[(k + 1) + 1]
           v == us[(k + 1) + 1]
<1>7. at \in Nat \ {0} /\ used \in Nat /\ j \in Nat /\ v \in Nat
  BY <1>1, <1>3, <1>6
<1>8. SpellingAt(call, at, used, d, j, v) /\ Writable(d)
  BY <1>1, <1>2, <1>3, <1>6
<1> HIDE DEF d, j, v
<1>9. PICK p \in Spellings(d) : /\ PieceAt(at, used, p)
                                /\ j = at + Len(p.chars) /\ v = used + Len(p.args)
  BY <1>8 DEF SpellingAt, PieceAt
<1> DEFINE c == ScanLength(ScanPrec(ScanWidth(ScanFlags(at + 1))))
<1>10. fmt' = Append(fmt, d) /\ at' = j /\ used' = v
  <2>1. ASSUME NEW x, d = Plain(x)
        PROVE  fmt' = Append(fmt, d) /\ at' = j /\ used' = v
    <3>1. p \in Spellings(Plain(x))  BY <1>9, <2>1
    <3> HIDE DEF c
    <3>2. /\ Len(p.args) = 0
          /\ \/ CharAt(at) # "%" /\ x = CharAt(at) /\ Len(p.chars) = 1
             \/ CharAt(at) = "%" /\ ReadsOff(c, Plain(x), at + Len(p.chars), used)
      BY <1>2, <1>7, <1>9, <3>1, TextReads DEF c
    <3>3. v = used  BY <1>7, <1>9, <3>2
    <3>4. CASE CharAt(at) # "%"
      <4>1. ScanChar  BY <3>4 DEF ScanDirective
      <4>2. x = CharAt(at) /\ j = at + 1  BY <1>9, <3>2, <3>4
      <4> QED  BY <2>1, <3>3, <4>1, <4>2 DEF ScanChar
    <3>5. CASE CharAt(at) = "%"
      <4>1. ScanDirective  BY <3>5 DEF ScanChar
      <4>2. ReadsOff(c, d, j, v)  BY <1>9, <2>1, <3>2, <3>3, <3>5
      <4> QED  BY <4>1, <4>2 DEF ScanDirective, ReadsOff, c
    <3> QED  BY <3>4, <3>5
  <2>2. CASE IsSpecification(d)
    <3> HIDE DEF c
    <3>1. CharAt(at) = "%" /\ ReadsOff(c, d, at + Len(p.chars), used + Len(p.args))
      BY <1>2, <1>7, <1>9, <2>2, SpecificationReads DEF c
    <3>2. ScanDirective  BY <3>1 DEF ScanChar
    <3>3. ReadsOff(c, d, j, v)  BY <1>9, <3>1
    <3> QED  BY <3>2, <3>3 DEF ScanDirective, ReadsOff, c
  <2> QED  BY <1>8, <2>1, <2>2 DEF Writable
<1>11. /\ IsSeq(fmt') /\ Len(fmt') = k + 1
       /\ \A i \in 1..k + 1 : fmt'[i] = call.means[i]
  <2>1. IsSeq(fmt') /\ Len(fmt') = k + 1  BY <1>2, <1>10, Appending DEF k
  <2>2. fmt \in Seq({fmt[i] : i \in DOMAIN fmt})  BY <1>2 DEF IsSeq
  <2>3. /\ \A i \in 1..k : fmt'[i] = fmt[i]
        /\ fmt'[k + 1] = d
    BY <1>10, <2>2 DEF k
  <2>4. \A i \in 1..k + 1 : i \in 1..k \/ i = k + 1  BY <1>2
  <2> QED  BY <1>2, <2>1, <2>3, <2>4 DEF d
<1>12. k + 1 <= n  BY <1>2, <1>5
<1> QED  BY <1>1, <1>2, <1>4, <1>10, <1>11, <1>12 DEF ReadInv, j, v, n

(* The formatter does not disturb it.                                      *)
LEMMA FormatKeepsRead ==
  ASSUME ReadInv, Format \/ ScanEnd \/ UNCHANGED <<printfVars, scanVars>>
  PROVE  ReadInv'
<1>1. fmt' = fmt /\ call' = call /\ at' = at /\ used' = used
  BY DEF Format, ScanEnd, scanVars, printfVars, callVars, FormatText, FormatInt,
         NtoaDigit, Ntoa, Out, Terminate
<1>2. pos' \in Nat \ {0}
  <2>1. pos \in Nat \ {0}  BY DEF ReadInv
  <2>2. pos' \in {pos, pos + 1}
    BY DEF Format, ScanEnd, printfVars, FormatText, FormatInt, NtoaDigit, Ntoa,
           Out, Terminate
  <2> QED  BY <2>1, <2>2
<1> QED  BY <1>1, <1>2 DEF ReadInv

(* The end of the format is met when all that is meant has been read.      *)
LEMMA EndStep ==
  ASSUME ReadInv, SpelledOut(call), ScanEnd
  PROVE  Meant!PrintfNext
<1> DEFINE k == Len(fmt)
           n == Len(call.means)
<1>1. PICK st, us : SpelledBy(call, st, us) /\ at = st[k + 1]
  BY DEF ReadInv
<1>2. /\ n \in Nat /\ k \in Nat /\ k <= n /\ Len(call.chars) \in Nat
      /\ \A i \in 1..n : Writable(call.means[i])
      /\ IsSeq(call.chars) /\ IsSeq(call.args)
  BY StringIs DEF ReadInv, SpelledOut, IsSeq
<1> HIDE DEF k, n
<1>3. k = n
  <2> SUFFICES ASSUME k < n PROVE FALSE
    BY <1>2
  <2> DEFINE d == call.means[k + 1]
             i == st[k + 1]
             u == us[k + 1]
  <2>1. k + 1 \in 1..n  BY <1>2
  <2>2. /\ SpellingAt(call, i, u, d, st[(k + 1) + 1], us[(k + 1) + 1])
        /\ i \in Nat \ {0} /\ u \in Nat /\ Writable(d)
    <3>1. k + 1 \in 1..n + 1  BY <1>2
    <3> QED  BY <1>1, <1>2, <2>1, <3>1 DEF SpelledBy, n
  <2> HIDE DEF d, i, u
  <2>3. PICK p \in Spellings(d) :
               Here(call.chars, i, p.chars) /\ Here(call.args, u + 1, p.args)
    BY <2>2 DEF SpellingAt
  <2>4. IsSeq(p.chars) /\ Len(p.chars) \in Nat \ {0}
    BY <2>2, SpellingIs
  <2>5. i <= Len(call.chars)  BY <1>2, <2>2, <2>3, <2>4 DEF Here
  <2>6. i = Len(call.chars) + 1  BY <1>1 DEF ScanEnd, i
  <2> QED  BY <1>2, <2>2, <2>5, <2>6
<1>4. Meant!Terminate
  <2>1. pc = "format" /\ pos > Len(call.means)  BY <1>3 DEF ScanEnd, Terminate, k, n
  <2>2. cells' = Meant!Stored(<<NUL>>, Meant!NulIndex)
    BY SameFormatter DEF ScanEnd, Terminate
  <2>3. call' = call  BY DEF ScanEnd, scanVars
  <2>4. result' = Meant!TwosComplement(idx, BITS["int"])
    BY SameFormatter DEF ScanEnd, Terminate
  <2> QED
    BY <2>1, <2>2, <2>3, <2>4
    DEF ScanEnd, Terminate, Meant!Terminate, callVars, Meant!callVars, numberVars,
        Meant!numberVars, NUL, Meant!NUL
<1> QED  BY <1>4 DEF Meant!PrintfNext

-----------------------------------------------------------------------------
(* Calls like this are what one gets by writing spellings one behind the   *)
(* other: nothing,                                                         *)
LEMMA NothingSpelled == SpelledOut(Call(Nothing, <<>>))
<1> DEFINE c == Call(Nothing, <<>>)
           st == [i \in 1..1 |-> 1]
           us == [i \in 1..1 |-> 0]
<1>1. /\ c.chars = <<>> /\ c.args = <<>> /\ c.means = <<>>
      /\ IsSeq(<<>>) /\ Len(<<>>) = 0
  BY ShortStrings DEF Call, Nothing, Piece
<1>2. 0 + 1 = 1 /\ 1 \in 1..1 /\ \A i \in 1..0 : FALSE  OBVIOUS
<1>3. /\ st \in [1..1 -> Nat \ {0}] /\ us \in [1..1 -> Nat]
      /\ st[1] = 1 /\ us[1] = 0
  OBVIOUS
<1> HIDE DEF c, st, us
<1>4. SpelledBy(c, st, us)  BY <1>1, <1>2, <1>3 DEF SpelledBy
<1>5. SpelledOut(c)  BY <1>1, <1>2, <1>4 DEF SpelledOut
<1> QED  BY <1>5 DEF c

(* or one more.                                                            *)
LEMMA LongerSpelled ==
  ASSUME NEW r, NEW m, SpelledOut(Call(r, m)),
         NEW d, Writable(d), NEW p \in Spellings(d)
  PROVE  SpelledOut(Call(r ++ p, Append(m, d)))
<1> DEFINE c == Call(r, m)
           e == Call(r ++ p, Append(m, d))
           n == Len(m)
<1>1. /\ c.chars = r.chars /\ c.args = r.args /\ c.means = m
      /\ e.chars = r.chars \o p.chars /\ e.args = r.args \o p.args
      /\ e.means = Append(m, d)
  BY DEF Call, ++, Piece
<1>2. /\ IsSeq(p.chars) /\ IsSeq(p.args) /\ IsSeq(r.chars) /\ IsSeq(r.args)
      /\ IsSeq(m) /\ \A i \in 1..n : Writable(m[i])
  BY <1>1, SpellingIs DEF SpelledOut
<1>3. PICK st, us : SpelledBy(c, st, us)
  BY DEF SpelledOut
<1> DEFINE sl == Len(r.chars)
           ul == Len(r.args)
           sp == Len(p.chars)
           up == Len(p.args)
           tt == [i \in 1..(n + 1) + 1 |-> IF i <= n + 1 THEN st[i] ELSE (sl + sp) + 1]
           vv == [i \in 1..(n + 1) + 1 |-> IF i <= n + 1 THEN us[i] ELSE ul + up]
<1> HIDE DEF c, e
<1>4. /\ sl \in Nat /\ ul \in Nat /\ sp \in Nat /\ up \in Nat /\ n \in Nat
  BY <1>2, StringIs DEF IsSeq
<1>5. /\ st \in [1..n + 1 -> Nat \ {0}] /\ us \in [1..n + 1 -> Nat]
      /\ st[1] = 1 /\ us[1] = 0 /\ st[n + 1] = sl + 1 /\ us[n + 1] = ul
      /\ \A i \in 1..n : SpellingAt(c, st[i], us[i], m[i], st[i + 1], us[i + 1])
  BY <1>1, <1>3 DEF SpelledBy
<1>6. /\ IsSeq(e.chars) /\ IsSeq(e.args) /\ IsSeq(e.means)
      /\ Len(e.chars) = sl + sp /\ Len(e.args) = ul + up /\ Len(e.means) = n + 1
      /\ \A i \in 1..n : e.means[i] = m[i]
      /\ e.means[n + 1] = d
  <2>1. /\ IsSeq(e.chars) /\ IsSeq(e.args)
        /\ Len(e.chars) = sl + sp /\ Len(e.args) = ul + up
    BY <1>1, <1>2, Concatenation
  <2>2. IsSeq(e.means) /\ Len(e.means) = n + 1
    BY <1>1, <1>2, Appending
  <2>3. m \in Seq({m[i] : i \in DOMAIN m})  BY <1>2 DEF IsSeq
  <2>4. /\ \A i \in 1..n : e.means[i] = m[i]
        /\ e.means[n + 1] = d
    BY ONLY <1>1, <2>3
  <2> QED  BY <2>1, <2>2, <2>4
<1>7. /\ \A i \in 1..sl : e.chars[i] = r.chars[i]
      /\ \A i \in 1..sp : e.chars[sl + i] = p.chars[i]
      /\ \A i \in 1..ul : e.args[i] = r.args[i]
      /\ \A i \in 1..up : e.args[ul + i] = p.args[i]
  <2>1. /\ \A i \in 1..sl + sp : (r.chars \o p.chars)[i]
                = IF i <= sl THEN r.chars[i] ELSE p.chars[i - sl]
        /\ \A i \in 1..ul + up : (r.args \o p.args)[i]
                = IF i <= ul THEN r.args[i] ELSE p.args[i - ul]
    BY <1>2, Concatenation
  <2> HIDE DEF sl, ul, sp, up
  <2>2. /\ \A i \in 1..sl : i \in 1..sl + sp /\ i <= sl
        /\ \A i \in 1..sp : /\ sl + i \in 1..sl + sp
                            /\ ~(sl + i <= sl) /\ (sl + i) - sl = i
        /\ \A i \in 1..ul : i \in 1..ul + up /\ i <= ul
        /\ \A i \in 1..up : /\ ul + i \in 1..ul + up
                            /\ ~(ul + i <= ul) /\ (ul + i) - ul = i
    BY ONLY <1>4
  <2>3. \A i \in 1..sl : e.chars[i] = r.chars[i]  BY ONLY <1>1, <2>1, <2>2
  <2>4. \A i \in 1..ul : e.args[i] = r.args[i]  BY ONLY <1>1, <2>1, <2>2
  <2>5. ASSUME NEW i \in 1..sp  PROVE e.chars[sl + i] = p.chars[i]
    <3>1. (r.chars \o p.chars)[sl + i] = p.chars[(sl + i) - sl]
      BY ONLY <2>1, <2>2, i \in 1..sp
    <3>2. (sl + i) - sl = i  BY <2>2
    <3> QED  BY ONLY <1>1, <3>1, <3>2
  <2>6. ASSUME NEW i \in 1..up  PROVE e.args[ul + i] = p.args[i]
    <3>1. (r.args \o p.args)[ul + i] = p.args[(ul + i) - ul]
      BY ONLY <2>1, <2>2, i \in 1..up
    <3>2. (ul + i) - ul = i  BY <2>2
    <3> QED  BY ONLY <1>1, <3>1, <3>2
  <2> QED  BY <2>3, <2>4, <2>5, <2>6
<1> HIDE DEF sl, ul, sp, up
<1>8. /\ tt \in [1..(n + 1) + 1 -> Nat \ {0}] /\ vv \in [1..(n + 1) + 1 -> Nat]
      /\ \A i \in 1..n + 1 : tt[i] = st[i] /\ vv[i] = us[i]
      /\ tt[(n + 1) + 1] = (sl + sp) + 1 /\ vv[(n + 1) + 1] = ul + up
  <2>1. /\ \A i \in 1..n + 1 : i \in 1..(n + 1) + 1 /\ i <= n + 1
        /\ (n + 1) + 1 \in 1..(n + 1) + 1 /\ ~((n + 1) + 1 <= n + 1)
        /\ \A i \in 1..(n + 1) + 1 : i <= n + 1 => i \in 1..n + 1
        /\ (sl + sp) + 1 \in Nat \ {0} /\ ul + up \in Nat
    BY ONLY <1>4
  <2> QED  BY ONLY <1>5, <2>1
<1> HIDE DEF tt, vv
(* What was spelled before still is,                                       *)
<1>9. ASSUME NEW i \in 1..n
      PROVE  SpellingAt(e, tt[i], vv[i], e.means[i], tt[i + 1], vv[i + 1])
  <2>1. /\ i \in 1..n + 1 /\ i + 1 \in 1..n + 1  BY <1>4
  <2>2. SpellingAt(c, st[i], us[i], m[i], st[i + 1], us[i + 1])  BY <1>5
  <2> DEFINE a == st[i]
             b == us[i]
  <2>3. PICK q \in Spellings(m[i]) :
          /\ Here(c.chars, a, q.chars) /\ Here(c.args, b + 1, q.args)
          /\ st[i + 1] = a + Len(q.chars) /\ us[i + 1] = b + Len(q.args)
    BY <2>2 DEF SpellingAt
  <2>4. /\ a \in Nat \ {0} /\ b \in Nat  BY <1>5, <2>1
  <2>5. Len(q.chars) \in Nat /\ Len(q.args) \in Nat
    BY <1>2, SpellingIs, StringIs DEF IsSeq
  <2> HIDE DEF a, b
  <2>6. Here(e.chars, a, q.chars)
    <3> DEFINE l == Len(q.chars)
    <3>1. /\ a + l <= sl + 1
          /\ \A k \in 1..l : r.chars[a + k - 1] = q.chars[k]
      BY <1>1, <2>3 DEF Here, sl
    <3>2. l \in Nat  BY <2>5
    <3> HIDE DEF l
    <3>3. /\ \A k \in 1..l : a + k - 1 \in 1..sl
          /\ a + l <= (sl + sp) + 1
      BY ONLY <1>4, <2>4, <3>1, <3>2
    <3>4. \A k \in 1..l : e.chars[a + k - 1] = q.chars[k]
      BY ONLY <1>7, <3>1, <3>3
    <3> QED  BY <1>6, <3>3, <3>4 DEF Here, l
  <2>7. Here(e.args, b + 1, q.args)
    <3> DEFINE l == Len(q.args)
               g == b + 1
    <3>1. /\ g + l <= ul + 1
          /\ \A k \in 1..l : r.args[g + k - 1] = q.args[k]
      BY <1>1, <2>3 DEF Here, ul
    <3>2. l \in Nat /\ g \in Nat \ {0}  BY <2>4, <2>5
    <3> HIDE DEF l, g
    <3>3. /\ \A k \in 1..l : g + k - 1 \in 1..ul
          /\ g + l <= (ul + up) + 1
      BY ONLY <1>4, <3>1, <3>2
    <3>4. \A k \in 1..l : e.args[g + k - 1] = q.args[k]
      BY ONLY <1>7, <3>1, <3>3
    <3>5. g + l <= Len(e.args) + 1  BY <1>6, <3>3
    <3> QED  BY <3>4, <3>5 DEF Here, l, g
  <2>8. /\ tt[i] = a /\ vv[i] = b /\ e.means[i] = m[i]
        /\ tt[i + 1] = a + Len(q.chars) /\ vv[i + 1] = b + Len(q.args)
    BY <1>6, <1>8, <2>1, <2>3 DEF a, b
  <2> QED  BY ONLY <2>3, <2>6, <2>7, <2>8 DEF SpellingAt
(* and so is what was added.                                               *)
<1>10. SpellingAt(e, tt[n + 1], vv[n + 1], d, tt[(n + 1) + 1], vv[(n + 1) + 1])
  <2>1. n + 1 \in 1..n + 1  BY <1>4
  <2>2. /\ tt[n + 1] = sl + 1 /\ vv[n + 1] = ul
        /\ tt[(n + 1) + 1] = (sl + 1) + sp /\ vv[(n + 1) + 1] = ul + up
    <3>1. (sl + sp) + 1 = (sl + 1) + sp  BY <1>4
    <3> QED  BY <1>5, <1>8, <2>1, <3>1
  <2>3. Here(e.chars, sl + 1, p.chars)
    <3>1. (sl + 1) + sp <= (sl + sp) + 1  BY <1>4
    <3>2. ASSUME NEW k \in 1..sp  PROVE e.chars[(sl + 1) + k - 1] = p.chars[k]
      <4>1. (sl + 1) + k - 1 = sl + k  BY <1>4
      <4> QED  BY <1>7, <4>1
    <3> QED  BY <1>6, <3>1, <3>2 DEF Here, sp
  <2>4. Here(e.args, ul + 1, p.args)
    <3>1. (ul + 1) + up <= (ul + up) + 1  BY <1>4
    <3>2. ASSUME NEW k \in 1..up  PROVE e.args[(ul + 1) + k - 1] = p.args[k]
      <4>1. (ul + 1) + k - 1 = ul + k  BY <1>4
      <4> QED  BY <1>7, <4>1
    <3> QED  BY <1>6, <3>1, <3>2 DEF Here, up
  <2> QED  BY <2>2, <2>3, <2>4 DEF SpellingAt, sp, up
<1>11. SpelledBy(e, tt, vv)
  <2>1. 1 \in 1..n + 1  BY <1>4
  <2>2. \A i \in 1..n + 1 : i \in 1..n \/ i = n + 1  BY <1>4
  <2> QED  BY <1>5, <1>6, <1>8, <1>9, <1>10, <2>1, <2>2 DEF SpelledBy
<1>12. SpelledOut(e)
  <2>1. \A i \in 1..n + 1 : Writable(e.means[i])
    <3>1. \A i \in 1..n + 1 : i \in 1..n \/ i = n + 1  BY <1>4
    <3> QED  BY <1>2, <1>6, <3>1
  <2> QED  BY <1>6, <1>11, <2>1 DEF SpelledOut
<1> QED  BY <1>12 DEF e

-----------------------------------------------------------------------------
(* Each step keeps ReadInv and is a step of the formatter on what is meant,*)
(* or none.                                                                *)
LEMMA ReadSteps ==
  ASSUME \A c \in CALLS : SpelledOut(c), ReadInv,
         [ScanNext]_<<printfVars, scanVars>>
  PROVE  ReadInv' /\ [Meant!PrintfNext]_(Meant!printfVars)
<1>1. SpelledOut(call) /\ IsSeq(call.means)  BY DEF ReadInv, SpelledOut
<1>2. CASE ScanChar \/ ScanDirective
  <2>1. UNCHANGED Meant!printfVars
    BY <1>2 DEF ScanChar, ScanDirective, Meant!printfVars, Meant!callVars,
                Meant!numberVars, Meant!outVars, numberVars, outVars
  <2> QED  BY <1>1, <1>2, <2>1, ReadsNext
<1>3. CASE Format
  BY <1>1, <1>3, FormatSteps, FormatKeepsRead
<1>4. CASE ScanEnd
  BY <1>1, <1>4, EndStep, FormatKeepsRead
<1>5. CASE UNCHANGED <<printfVars, scanVars>>
  <2>1. UNCHANGED Meant!printfVars
    BY <1>5 DEF printfVars, scanVars, callVars, numberVars, outVars,
                Meant!printfVars, Meant!callVars, Meant!numberVars, Meant!outVars
  <2> QED  BY <1>5, <2>1, FormatKeepsRead
<1> QED  BY <1>2, <1>3, <1>4, <1>5 DEF ScanNext

(* DirectivesTheorem (ImplementsDirectives): whatever directives the caller*)
(* means and however they are spelled, printf does what it does with just  *)
(* these directives and their arguments.                                   *)
THEOREM DirectivesTheorem ==
  ASSUME FORMATS = {<<>>}, \A c \in CALLS : SpelledOut(c)
  PROVE  ScanSpec => ImplementsDirectives
<1>1. ScanInit => ReadInv /\ Meant!PrintfInit
  BY ReadInitially
<1>2. ReadInv /\ [ScanNext]_<<printfVars, scanVars>>
        => ReadInv' /\ [Meant!PrintfNext]_(Meant!printfVars)
  BY ReadSteps
<1> QED  BY <1>1, <1>2, PTL DEF ScanSpec, ImplementsDirectives, Meant!PrintfSpec

(* ContractTheorem (SnprintfContract, NtoaBounded): and since all that is  *)
(* read is meant, it is enough that the arguments the caller means have    *)
(* the types of their directives, for snprintf to keep its contract and    *)
(* its digit buffer, whatever the spelling.                                *)
THEOREM ContractTheorem ==
  ASSUME FORMATS = {<<>>},
         \A c \in CALLS : SpelledOut(c) /\ ArgumentsMatch(c.means)
  PROVE  ScanSpec => [](SnprintfContract /\ NtoaBounded)
<1>1. ScanInit => ReadInv
  BY ReadInitially
<1>2. ReadInv /\ [ScanNext]_<<printfVars, scanVars>> => ReadInv'
  BY ReadSteps
<1>3. ReadInv => ArgumentsMatch(fmt)
  <2> SUFFICES ASSUME ReadInv PROVE ArgumentsMatch(fmt)
    OBVIOUS
  <2>1. /\ IsSeq(fmt) /\ Len(fmt) <= Len(call.means) /\ IsSeq(call.means)
        /\ \A i \in 1..Len(fmt) : fmt[i] = call.means[i]
        /\ \A i \in DOMAIN call.means : Matches(call.means[i])
    BY DEF ReadInv, ArgumentsMatch
  <2>2. /\ Len(fmt) \in Nat /\ DOMAIN fmt = 1..Len(fmt)
        /\ Len(call.means) \in Nat /\ DOMAIN call.means = 1..Len(call.means)
    BY <2>1, StringIs DEF IsSeq
  <2>3. \A i \in DOMAIN fmt : i \in DOMAIN call.means
    BY ONLY <2>1, <2>2
  <2> QED  BY <2>1, <2>2, <2>3 DEF ArgumentsMatch
<1>4. ScanSpec => []ArgumentsMatch(fmt)
  BY <1>1, <1>2, <1>3, PTL DEF ScanSpec
<1> QED  BY <1>4, ScanTheorem, PTL

=============================================================================
