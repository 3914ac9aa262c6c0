--------------------------- MODULE Vercmp_proofs ----------------------------
(***************************************************************************)
(* Proofs about Vercmp for every pair of packages with any strings.  The   *)
(* reference order is defined with recursive functions; what they compute  *)
(* follows from the well-foundedness of the natural numbers, in the form   *)
(* of sets that have a least element.                                      *)
(***************************************************************************)
EXTENDS Vercmp, SequenceTheorems, WellFoundedInduction, TLAPS

-----------------------------------------------------------------------------
(* A set of natural numbers has a least element.                           *)
LEMMA LeastNumber ==
  ASSUME NEW T \in SUBSET Nat, T # {}
  PROVE  \E x \in T : \A y \in T : x <= y
<1>1. IsWellFoundedOn(OpToRel(<, Nat), Nat)
  BY NatLessThanWellFounded, Zenon
<1>2. PICK x \in T : \A y \in T : ~(<<y, x>> \in OpToRel(<, Nat))
  BY <1>1, WFMin, Zenon
<1>3. ASSUME NEW y \in T PROVE x <= y
  <2>1. ~(y < x)
    BY <1>2 DEF OpToRel
  <2> QED
    BY <2>1
<1> QED
  BY <1>3

(* Induction, for a set.                                                   *)
LEMMA Induction ==
  ASSUME NEW S, 0 \in S, \A n \in Nat : n \in S => n + 1 \in S
  PROVE  \A n \in Nat : n \in S
<1> DEFINE T == Nat \ S
<1>1. SUFFICES ASSUME T # {} PROVE FALSE
  OBVIOUS
<1>2. PICK x \in T : \A y \in T : x <= y
  <2> T \in SUBSET Nat
    OBVIOUS
  <2> HIDE DEF T
  <2> QED
    BY <1>1, LeastNumber
<1>3. x - 1 \in Nat
  OBVIOUS
<1>4. x - 1 \in S
  BY <1>2, <1>3
<1> QED
  BY <1>3, <1>4

-----------------------------------------------------------------------------
(* The values of the beginnings of a number.                               *)
LEMMA ValuesEquation ==
  ASSUME NEW s \in Seq(Digits)
  PROVE  Values(s) = [n \in 0..Len(s) |->
                        IF n = 0 THEN 0 ELSE 10 * Values(s)[n - 1] + s[n] - 48]
<1> DEFINE Eq(g, n) ==
      g = [i \in 0..n |-> IF i = 0 THEN 0 ELSE 10 * g[i - 1] + s[i] - 48]
    S == {n \in Nat : \E g : Eq(g, n)}
<1>1. 0 \in S
  <2>1. Eq([i \in 0..0 |-> 0], 0)
    OBVIOUS
  <2> QED
    BY <2>1
<1>2. ASSUME NEW n \in Nat, n \in S PROVE n + 1 \in S
  <2>1. PICK g : Eq(g, n)
    BY <1>2
  <2> DEFINE h == [i \in 0..(n + 1) |-> IF i <= n THEN g[i] ELSE 10 * g[n] + s[n + 1] - 48]
  <2>2. ASSUME NEW i \in 0..(n + 1)
        PROVE  h[i] = IF i = 0 THEN 0 ELSE 10 * h[i - 1] + s[i] - 48
    <3>1. CASE i = n + 1
      BY <3>1
    <3>2. CASE i # n + 1
      <4>1. i \in 0..n /\ h[i] = g[i] /\ (i # 0 => i - 1 \in 0..n /\ h[i - 1] = g[i - 1])
        BY <3>2
      <4>2. g[i] = IF i = 0 THEN 0 ELSE 10 * g[i - 1] + s[i] - 48
        BY <2>1, <4>1
      <4> QED
        BY <4>1, <4>2
    <3> QED
      BY <3>1, <3>2
  <2>3. h = [i \in 0..(n + 1) |-> h[i]]
    OBVIOUS
  <2> HIDE DEF h
  <2>4. Eq(h, n + 1)
    BY <2>2, <2>3
  <2> QED
    BY <2>4
<1>3. \A n \in Nat : n \in S
  <2> HIDE DEF S
  <2> QED
    BY <1>1, <1>2, Induction
<1>4. PICK g : Eq(g, Len(s))
  BY <1>3
<1>5. Values(s) = CHOOSE u : Eq(u, Len(s))
  BY Zenon DEF Values
<1> QED
  BY <1>4, <1>5, Zenon

(* The same, digit by digit.                                               *)
LEMMA ValuesFacts ==
  ASSUME NEW s \in Seq(Digits)
  PROVE  /\ Values(s)[0] = 0
         /\ \A n \in 1..Len(s) : Values(s)[n] = 10 * Values(s)[n - 1] + s[n] - 48
         /\ \A n \in 0..Len(s) : Values(s)[n] \in Nat
<1> DEFINE v == Values(s)
<1>1. Len(s) \in Nat /\ \A n \in 1..Len(s) : s[n] \in 48..57
  BY DEF Digits
<1>2. v[0] = 0 /\ \A n \in 1..Len(s) : v[n] = 10 * v[n - 1] + s[n] - 48
  BY <1>1, ValuesEquation
<1> DEFINE S == {n \in Nat : n <= Len(s) => v[n] \in Nat}
<1> HIDE DEF v
<1>3. 0 \in S
  BY <1>2
<1>4. ASSUME NEW n \in Nat, n \in S PROVE n + 1 \in S
  <2>1. SUFFICES ASSUME n + 1 <= Len(s) PROVE v[n + 1] \in Nat
    OBVIOUS
  <2> DEFINE x == v[n]
             c == s[n + 1]
  <2>2. x \in Nat /\ n + 1 \in 1..Len(s)
    BY <1>1, <1>4, <2>1
  <2>3. c \in 48..57 /\ v[n + 1] = 10 * x + c - 48
    BY <1>1, <1>2, <2>2
  <2> HIDE DEF x, c
  <2> QED
    BY <2>2, <2>3
<1>5. \A n \in Nat : n \in S
  <2> HIDE DEF S
  <2> QED
    BY <1>3, <1>4, Induction
<1> QED
  BY <1>1, <1>2, <1>5 DEF v

(* A number that is longer than another, and does not begin with a zero,   *)
(* is greater.                                                             *)
LEMMA LongerIsGreater ==
  ASSUME NEW a \in Seq(Digits), NEW b \in Seq(Digits), Len(a) < Len(b), b[1] # 48
  PROVE  Value(a) < Value(b)
<1> DEFINE va == Values(a)
           vb == Values(b)
           d  == Len(b) - Len(a)
<1>1. /\ Len(a) \in Nat /\ Len(b) \in Nat /\ d \in Nat /\ d >= 1
      /\ \A n \in 1..Len(a) : a[n] \in 48..57
      /\ \A n \in 1..Len(b) : b[n] \in 48..57
  BY DEF Digits
<1>2. /\ va[0] = 0 /\ \A n \in 1..Len(a) : va[n] = 10 * va[n - 1] + a[n] - 48
      /\ \A n \in 0..Len(a) : va[n] \in Nat
  BY ValuesFacts
<1>3. /\ vb[0] = 0 /\ \A n \in 1..Len(b) : vb[n] = 10 * vb[n - 1] + b[n] - 48
      /\ \A n \in 0..Len(b) : vb[n] \in Nat
  BY ValuesFacts
<1> DEFINE P == {n \in Nat : n + 1 <= Len(b) => vb[n + 1] >= 1}
           S == {n \in Nat : n <= Len(a) => va[n] < vb[n + d]}
<1> HIDE DEF va, vb
<1>4. 0 \in P
  <2>1. 1 \in 1..Len(b) /\ b[1] \in 49..57
    BY <1>1
  <2>2. vb[1] = 10 * vb[1 - 1] + b[1] - 48
    BY <1>3, <2>1
  <2> QED
    BY <1>3, <2>1, <2>2
<1>5. ASSUME NEW n \in Nat, n \in P PROVE n + 1 \in P
  <2>1. SUFFICES ASSUME n + 2 <= Len(b) PROVE vb[n + 2] >= 1
    OBVIOUS
  <2>2. n + 2 \in 1..Len(b) /\ n + 1 \in 0..Len(b)
    BY <1>1, <2>1
  <2> DEFINE x == vb[n + 1]
             c == b[n + 2]
  <2>3. x \in Nat /\ x >= 1 /\ c \in 48..57
    BY <1>1, <1>3, <1>5, <2>2
  <2>4. vb[n + 2] = 10 * x + c - 48
    BY <1>3, <2>2
  <2> HIDE DEF x, c
  <2> QED
    BY <2>3, <2>4
<1>6. \A n \in Nat : n \in P
  <2> HIDE DEF P
  <2> QED
    BY <1>4, <1>5, Induction
<1>7. 0 \in S
  <2>1. d - 1 \in Nat /\ (d - 1) + 1 = d /\ d <= Len(b)
    BY <1>1
  <2>2. vb[d] >= 1
    <3> HIDE DEF d
    <3>1. d - 1 \in P
      BY <1>6, <2>1
    <3> QED
      BY <2>1, <3>1
  <2> QED
    BY <1>1, <1>2, <1>3, <2>2
<1>8. ASSUME NEW n \in Nat, n \in S PROVE n + 1 \in S
  <2>1. SUFFICES ASSUME n + 1 <= Len(a) PROVE va[n + 1] < vb[n + 1 + d]
    OBVIOUS
  <2>2. n + 1 \in 1..Len(a) /\ n + 1 + d \in 1..Len(b) /\ n \in 0..Len(a) /\ n + d \in 0..Len(b)
    BY <1>1, <2>1
  <2> DEFINE x == va[n]
             y == vb[n + d]
             c == a[n + 1]
             e == b[n + 1 + d]
  <2>3. x \in Nat /\ y \in Nat /\ x < y /\ c \in 48..57 /\ e \in 48..57
    BY <1>1, <1>2, <1>3, <1>8, <2>2
  <2>4. va[n + 1] = 10 * x + c - 48
    BY <1>2, <2>2
  <2>5. vb[n + 1 + d] = 10 * y + e - 48
    BY <1>1, <1>3, <2>2
  <2> HIDE DEF d, x, y, c, e
  <2>6. 10 * x + c - 48 < 10 * y + e - 48
    BY <2>3
  <2> QED
    BY <2>4, <2>5, <2>6, Zenon
<1>9. \A n \in Nat : n \in S
  <2> HIDE DEF S
  <2> QED
    BY <1>7, <1>8, Induction
<1>10. va[Len(a)] < vb[Len(a) + d] /\ Len(a) + d = Len(b)
  BY <1>1, <1>9
<1> QED
  BY <1>10 DEF va, vb, Value

(* Of two numbers of the same length, the one with the smaller digit where *)
(* they first differ is smaller.                                           *)
LEMMA FirstDigitDecides ==
  ASSUME NEW a \in Seq(Digits), NEW b \in Seq(Digits), Len(a) = Len(b),
         NEW k \in 1..Len(a), \A i \in 1..(k - 1) : a[i] = b[i], a[k] < b[k]
  PROVE  Value(a) < Value(b)
<1> DEFINE va == Values(a)
           vb == Values(b)
<1>1. /\ Len(a) \in Nat /\ k \in Nat /\ k >= 1
      /\ \A n \in 1..Len(a) : a[n] \in 48..57 /\ b[n] \in 48..57
  BY DEF Digits
<1>2. /\ va[0] = 0 /\ \A n \in 1..Len(a) : va[n] = 10 * va[n - 1] + a[n] - 48
      /\ \A n \in 0..Len(a) : va[n] \in Nat
  BY ValuesFacts
<1>3. /\ vb[0] = 0 /\ \A n \in 1..Len(a) : vb[n] = 10 * vb[n - 1] + b[n] - 48
      /\ \A n \in 0..Len(a) : vb[n] \in Nat
  BY ValuesFacts
<1> DEFINE P == {n \in Nat : n < k => va[n] = vb[n]}
           S == {n \in Nat : n + k <= Len(a) => va[n + k] < vb[n + k]}
<1> HIDE DEF va, vb
<1>4. 0 \in P
  BY <1>2, <1>3
<1>5. ASSUME NEW n \in Nat, n \in P PROVE n + 1 \in P
  <2>1. SUFFICES ASSUME n + 1 < k PROVE va[n + 1] = vb[n + 1]
    OBVIOUS
  <2>2. n + 1 \in 1..Len(a) /\ va[n] = vb[n] /\ a[n + 1] = b[n + 1] /\ (n + 1) - 1 = n
    BY <1>1, <1>5, <2>1
  <2> QED
    BY <1>2, <1>3, <2>2
<1>6. \A n \in Nat : n \in P
  <2> HIDE DEF P
  <2> QED
    BY <1>4, <1>5, Induction
<1>7. 0 \in S
  <2> DEFINE x == va[k - 1]
             c == a[k]
             e == b[k]
  <2>1. vb[k - 1] = x /\ x \in Nat /\ k \in 1..Len(a)
    BY <1>1, <1>2, <1>6
  <2>2. va[k] = 10 * x + c - 48 /\ vb[k] = 10 * x + e - 48
    BY <1>2, <1>3, <2>1
  <2>3. c \in 48..57 /\ e \in 48..57 /\ c < e
    BY <1>1
  <2> HIDE DEF x, c, e
  <2>4. 10 * x + c - 48 < 10 * x + e - 48
    BY <2>1, <2>3
  <2>5. va[k] < vb[k]
    BY <2>2, <2>4, Zenon
  <2> QED
    BY <2>5
<1>8. ASSUME NEW n \in Nat, n \in S PROVE n + 1 \in S
  <2>1. SUFFICES ASSUME n + 1 + k <= Len(a) PROVE va[n + 1 + k] < vb[n + 1 + k]
    OBVIOUS
  <2>2. n + 1 + k \in 1..Len(a) /\ n + k \in 0..Len(a) /\ (n + 1 + k) - 1 = n + k
    BY <1>1, <2>1
  <2> DEFINE x == va[n + k]
             y == vb[n + k]
             c == a[n + 1 + k]
             e == b[n + 1 + k]
  <2>3. x \in Nat /\ y \in Nat /\ x < y /\ c \in 48..57 /\ e \in 48..57
    BY <1>1, <1>2, <1>3, <1>8, <2>2
  <2>4. va[n + 1 + k] = 10 * x + c - 48
    BY <1>2, <2>2
  <2>5. vb[n + 1 + k] = 10 * y + e - 48
    BY <1>3, <2>2
  <2> HIDE DEF x, y, c, e
  <2>6. 10 * x + c - 48 < 10 * y + e - 48
    BY <2>3
  <2> QED
    BY <2>4, <2>5, <2>6, Zenon
<1>9. \A n \in Nat : n \in S
  <2> HIDE DEF S
  <2> QED
    BY <1>7, <1>8, Induction
<1>10. Len(a) - k \in Nat /\ (Len(a) - k) + k = Len(a)
  BY <1>1
<1>11. Len(a) - k \in S
  <2> HIDE DEF S
  <2> QED
    BY <1>9, <1>10
<1>12. va[Len(a)] < vb[Len(a)]
  BY <1>10, <1>11
<1> QED
  BY <1>12 DEF va, vb, Value

-----------------------------------------------------------------------------
(* The longest prefix of characters of a set exists, and there is only one.*)
LEMMA PrefixFacts ==
  ASSUME NEW C, NEW s \in Seq(C), NEW set
  PROVE  /\ PrefixLen(s, set) \in 0..Len(s)
         /\ \A i \in 1..PrefixLen(s, set) : s[i] \in set
         /\ PrefixLen(s, set) < Len(s) => s[PrefixLen(s, set) + 1] \notin set
<1> DEFINE T == {n \in 0..Len(s) : n < Len(s) => s[n + 1] \notin set}
<1>1. Len(s) \in Nat /\ Len(s) \in T
  OBVIOUS
<1>2. PICK x \in T : \A y \in T : x <= y
  <2>1. T \in SUBSET Nat /\ T # {}
    BY <1>1
  <2> HIDE DEF T
  <2> QED
    BY <2>1, LeastNumber
<1>3. ASSUME NEW i \in 1..x PROVE s[i] \in set
  <2>1. i - 1 \in 0..Len(s) /\ i - 1 < x /\ (i - 1) + 1 = i /\ i - 1 < Len(s)
    BY <1>1
  <2>2. i - 1 \notin T
    BY <1>2, <2>1
  <2> QED
    BY <2>1, <2>2
<1>4. x \in 0..Len(s) /\ (x < Len(s) => s[x + 1] \notin set)
  OBVIOUS
<1> HIDE DEF T
<1> QED
  BY <1>3, <1>4 DEF PrefixLen

(* A rest is what is left of the string.                                   *)
LEMMA RestFacts ==
  ASSUME NEW C, NEW s \in Seq(C), NEW set
  PROVE  /\ Rest(s, set) \in Seq(C) /\ Len(Rest(s, set)) = Len(s) - PrefixLen(s, set)
         /\ \A i \in 1..Len(Rest(s, set)) : Rest(s, set)[i] = s[PrefixLen(s, set) + i]
         /\ Run(s, set) \in Seq(set) /\ Len(Run(s, set)) = PrefixLen(s, set)
         /\ \A i \in 1..PrefixLen(s, set) : Run(s, set)[i] = s[i]
<1> DEFINE n == PrefixLen(s, set)
<1>1. n \in 0..Len(s) /\ Len(s) \in Nat /\ \A i \in 1..n : s[i] \in set
  BY PrefixFacts
<1> HIDE DEF n
<1>2. \A i \in (n + 1)..Len(s) : s[i] \in C
  BY <1>1
<1>3. /\ SubSeq(s, n + 1, Len(s)) \in Seq(C)
      /\ Len(SubSeq(s, n + 1, Len(s))) = IF n + 1 <= Len(s) THEN Len(s) - (n + 1) + 1 ELSE 0
      /\ \A i \in 1..(Len(s) - (n + 1) + 1) : SubSeq(s, n + 1, Len(s))[i] = s[(n + 1) + i - 1]
  BY <1>1, <1>2, SubSeqProperties
<1>4. /\ SubSeq(s, 1, n) \in Seq(set)
      /\ Len(SubSeq(s, 1, n)) = IF 1 <= n THEN n - 1 + 1 ELSE 0
      /\ \A i \in 1..(n - 1 + 1) : SubSeq(s, 1, n)[i] = s[1 + i - 1]
  BY <1>1, SubSeqProperties
<1>5. Rest(s, set) = SubSeq(s, n + 1, Len(s)) /\ Run(s, set) = SubSeq(s, 1, n)
  BY DEF Rest, Run, n
<1>6. /\ Rest(s, set) \in Seq(C) /\ Len(Rest(s, set)) = Len(s) - n
      /\ Run(s, set) \in Seq(set) /\ Len(Run(s, set)) = n
  BY <1>1, <1>3, <1>4, <1>5
<1>7. ASSUME NEW i \in 1..Len(Rest(s, set)) PROVE Rest(s, set)[i] = s[n + i]
  <2>1. i \in 1..(Len(s) - (n + 1) + 1) /\ (n + 1) + i - 1 = n + i
    BY <1>1, <1>6
  <2> QED
    BY <1>3, <1>5, <2>1
<1>8. ASSUME NEW i \in 1..n PROVE Run(s, set)[i] = s[i]
  <2>1. i \in 1..(n - 1 + 1) /\ 1 + i - 1 = i
    BY <1>1
  <2> QED
    BY <1>4, <1>5, <2>1
<1> QED
  BY <1>6, <1>7, <1>8 DEF n

(* Leading zeros do not count.                                             *)
LEMMA TrimmedValue ==
  ASSUME NEW s \in Seq(Digits)
  PROVE  /\ trimZeros(s) \in Seq(Digits) /\ Value(trimZeros(s)) = Value(s)
         /\ Len(trimZeros(s)) > 0 => trimZeros(s)[1] # 48
<1> DEFINE z == PrefixLen(s, {48})
           t == trimZeros(s)
           vs == Values(s)
           vt == Values(t)
<1>1. /\ z \in 0..Len(s) /\ Len(s) \in Nat /\ \A i \in 1..z : s[i] = 48
      /\ z < Len(s) => s[z + 1] # 48
  BY PrefixFacts
<1>2. t \in Seq(Digits) /\ Len(t) = Len(s) - z /\ \A i \in 1..Len(t) : t[i] = s[z + i]
  <2>1. t = Rest(s, {48})
    BY DEF trimZeros
  <2>2. \A set : /\ Rest(s, set) \in Seq(Digits) /\ Len(Rest(s, set)) = Len(s) - PrefixLen(s, set)
                 /\ \A i \in 1..Len(Rest(s, set)) : Rest(s, set)[i] = s[PrefixLen(s, set) + i]
    BY RestFacts
  <2> HIDE DEF t
  <2> QED
    BY <2>1, <2>2, Zenon
<1> HIDE DEF z, t
<1>3. /\ vs[0] = 0 /\ \A n \in 1..Len(s) : vs[n] = 10 * vs[n - 1] + s[n] - 48
      /\ \A n \in 0..Len(s) : vs[n] \in Nat
  BY ValuesFacts
<1>4. /\ vt[0] = 0 /\ \A n \in 1..Len(t) : vt[n] = 10 * vt[n - 1] + t[n] - 48
      /\ \A n \in 0..Len(t) : vt[n] \in Nat
  BY <1>2, ValuesFacts
<1> DEFINE Z == {n \in Nat : n <= z => vs[n] = 0}
           S == {n \in Nat : n <= Len(t) => vt[n] = vs[z + n]}
<1> HIDE DEF vs, vt
<1>5. 0 \in Z
  BY <1>3
<1>6. ASSUME NEW n \in Nat, n \in Z PROVE n + 1 \in Z
  <2>1. SUFFICES ASSUME n + 1 <= z PROVE vs[n + 1] = 0
    OBVIOUS
  <2>2. n + 1 \in 1..Len(s) /\ n + 1 \in 1..z /\ vs[n] = 0 /\ (n + 1) - 1 = n
    BY <1>1, <1>6, <2>1
  <2>3. vs[n + 1] = 10 * vs[n] + s[n + 1] - 48
    BY <1>3, <2>2
  <2> QED
    BY <1>1, <2>2, <2>3
<1>7. \A n \in Nat : n \in Z
  <2> HIDE DEF Z
  <2> QED
    BY <1>5, <1>6, Induction
<1>8. 0 \in S
  BY <1>1, <1>4, <1>7
<1>9. ASSUME NEW n \in Nat, n \in S PROVE n + 1 \in S
  <2>1. SUFFICES ASSUME n + 1 <= Len(t) PROVE vt[n + 1] = vs[z + (n + 1)]
    OBVIOUS
  <2>2. /\ n + 1 \in 1..Len(t) /\ z + (n + 1) \in 1..Len(s)
        /\ (n + 1) - 1 = n /\ (z + (n + 1)) - 1 = z + n
    BY <1>1, <1>2, <2>1
  <2>3. vt[n] = vs[z + n] /\ t[n + 1] = s[z + (n + 1)]
    BY <1>2, <1>9, <2>1, <2>2
  <2>4. vt[n + 1] = 10 * vt[n] + t[n + 1] - 48
    BY <1>4, <2>2
  <2>5. vs[z + (n + 1)] = 10 * vs[z + n] + s[z + (n + 1)] - 48
    BY <1>3, <2>2
  <2> QED
    BY <2>3, <2>4, <2>5, Zenon
<1>10. \A n \in Nat : n \in S
  <2> HIDE DEF S
  <2> QED
    BY <1>8, <1>9, Induction
<1>11. Len(t) \in Nat /\ z + Len(t) = Len(s)
  BY <1>1, <1>2
<1>12. vt[Len(t)] = vs[Len(s)]
  BY <1>10, <1>11
<1>13. Len(t) > 0 => t[1] # 48
  BY <1>1, <1>2
<1> QED
  BY <1>2, <1>12, <1>13 DEF vs, vt, t, Value

(* The order of strings: equal strings, and the first difference.          *)
LEMMA StringCmpCases ==
  ASSUME NEW s, NEW t
  PROVE  /\ StringCmp(s, t) \in {-1, 0, 1}
         /\ StringCmp(s, t) = 0 <=> s = t
  BY DEF StringCmp

(* Numbers of the same length compare like strings.                        *)
LEMMA SameLengthCmp ==
  ASSUME NEW a \in Seq(Digits), NEW b \in Seq(Digits), Len(a) = Len(b)
  PROVE  /\ StringCmp(a, b) = -1 => Value(a) < Value(b)
         /\ StringCmp(a, b) = 1 => Value(b) < Value(a)
<1>1. /\ Len(a) \in Nat /\ \A n \in 1..Len(a) : a[n] \in Int /\ b[n] \in Int
  BY DEF Digits
<1>2. ASSUME StringCmp(a, b) = -1 PROVE Value(a) < Value(b)
  <2>1. a # b
    BY <1>2 DEF StringCmp
  <2>2. PICK n \in 0..Len(a) :
          /\ n <= Len(b) /\ \A i \in 1..n : a[i] = b[i]
          /\ n = Len(a) \/ (n < Len(b) /\ a[n + 1] < b[n + 1])
    BY <1>2 DEF StringCmp
  <2>3. n # Len(a)
    BY <2>1, <2>2, SeqEqual
  <2>4. n + 1 \in 1..Len(a) /\ (n + 1) - 1 = n /\ a[n + 1] < b[n + 1]
    BY <1>1, <2>2, <2>3
  <2> QED
    BY <2>2, <2>4, FirstDigitDecides
<1>3. ASSUME StringCmp(a, b) = 1 PROVE Value(b) < Value(a)
  <2> DEFINE T == {n \in 1..Len(a) : a[n] # b[n]}
  <2>1. a # b /\ ~\E n \in 0..Len(a) :
          /\ n <= Len(b) /\ \A i \in 1..n : a[i] = b[i]
          /\ n = Len(a) \/ (n < Len(b) /\ a[n + 1] < b[n + 1])
    BY <1>3 DEF StringCmp
  <2>2. T # {} /\ T \in SUBSET Nat
    <3>1. ~\A n \in 1..Len(a) : a[n] = b[n]
      BY <2>1, SeqEqual
    <3> QED
      BY <1>1, <3>1
  <2>3. PICK k \in T : \A y \in T : k <= y
    <3> HIDE DEF T
    <3> QED
      BY <2>2, LeastNumber
  <2>4. k \in 1..Len(a) /\ \A i \in 1..(k - 1) : b[i] = a[i]
    BY <1>1, <2>3
  <2>5. ~(a[k] < b[k])
    <3>1. k - 1 \in 0..Len(a) /\ k - 1 < Len(b) /\ (k - 1) + 1 = k
      BY <1>1, <2>4
    <3> QED
      BY <2>1, <2>4, <3>1
  <2>6. b[k] < a[k]
    BY <1>1, <2>3, <2>4, <2>5
  <2> QED
    BY <2>4, <2>6, FirstDigitDecides
<1> QED
  BY <1>2, <1>3

(* Numbers are compared by their values, though neither their digits nor   *)
(* their lengths are ever converted.                                       *)
LEMMA NumCmpIsValue ==
  ASSUME NEW s \in Seq(Digits), NEW t \in Seq(Digits)
  PROVE  /\ numCmp(s, t) = -1 => Value(s) < Value(t)
         /\ numCmp(s, t) = 0 => Value(s) = Value(t)
         /\ numCmp(s, t) = 1 => Value(t) < Value(s)
         /\ numCmp(s, t) \in {-1, 0, 1}
         /\ Value(s) \in Nat /\ Value(t) \in Nat
<1> DEFINE a == trimZeros(s)
           b == trimZeros(t)
<1>1. /\ a \in Seq(Digits) /\ Value(a) = Value(s) /\ (Len(a) > 0 => a[1] # 48)
      /\ b \in Seq(Digits) /\ Value(b) = Value(t) /\ (Len(b) > 0 => b[1] # 48)
  BY TrimmedValue
<1>2. numCmp(s, t) =
        IF Len(a) < Len(b) THEN -1 ELSE IF Len(a) > Len(b) THEN 1 ELSE StringCmp(a, b)
  BY Zenon DEF numCmp
<1>3. Value(s) \in Nat /\ Value(t) \in Nat
  <2>1. Len(s) \in 0..Len(s) /\ Len(t) \in 0..Len(t)
    OBVIOUS
  <2> QED
    BY <2>1, ValuesFacts DEF Value
<1> HIDE DEF a, b
<1>4. Len(a) \in Nat /\ Len(b) \in Nat
  BY <1>1
<1>5. CASE Len(a) < Len(b)
  <2>1. numCmp(s, t) = -1 /\ b[1] # 48
    BY <1>1, <1>2, <1>4, <1>5
  <2>2. Value(a) < Value(b)
    BY <1>1, <1>5, <2>1, LongerIsGreater
  <2> QED
    BY <1>1, <1>3, <2>1, <2>2
<1>6. CASE Len(b) < Len(a)
  <2>1. numCmp(s, t) = 1 /\ a[1] # 48
    BY <1>1, <1>2, <1>4, <1>6
  <2>2. Value(b) < Value(a)
    BY <1>1, <1>6, <2>1, LongerIsGreater
  <2> QED
    BY <1>1, <1>3, <2>1, <2>2
<1>7. CASE Len(a) = Len(b)
  <2>1. numCmp(s, t) = StringCmp(a, b)
    BY <1>2, <1>4, <1>7
  <2>2. /\ StringCmp(a, b) = -1 => Value(a) < Value(b)
        /\ StringCmp(a, b) = 1 => Value(b) < Value(a)
    BY <1>1, <1>7, SameLengthCmp
  <2>3. StringCmp(a, b) \in {-1, 0, 1} /\ (StringCmp(a, b) = 0 => a = b)
    BY StringCmpCases
  <2> QED
    BY <1>1, <1>3, <2>1, <2>2, <2>3
<1> QED
  BY <1>4, <1>5, <1>6, <1>7

-----------------------------------------------------------------------------
(* The tokens of the ends of a string.                                     *)
LEMMA TokensEquation ==
  ASSUME NEW s \in Seq(Chars)
  PROVE  TokensFrom(s) = [i \in 1..(Len(s) + 1) |->
           IF i > Len(s) THEN <<End>>
           ELSE IF TokenStarts(s, i) THEN <<TokenAt(s, i)>> \o TokensFrom(s)[i + 1]
           ELSE TokensFrom(s)[i + 1]]
<1> DEFINE Entry(i, next) ==
      IF i > Len(s) THEN <<End>>
      ELSE IF TokenStarts(s, i) THEN <<TokenAt(s, i)>> \o next ELSE next
    Eq(g, m) == g = [i \in m..(Len(s) + 1) |-> Entry(i, g[i + 1])]
    S == {n \in Nat : \E g : Eq(g, Len(s) + 1 - n)}
<1>1. Len(s) \in Nat
  OBVIOUS
<1>2. 0 \in S
  <2>1. [i \in (Len(s) + 1 - 0)..(Len(s) + 1) |-> <<End>>]
          = [i \in (Len(s) + 1 - 0)..(Len(s) + 1) |->
               Entry(i, [j \in (Len(s) + 1 - 0)..(Len(s) + 1) |-> <<End>>][i + 1])]
    BY <1>1
  <2>2. Eq([i \in (Len(s) + 1 - 0)..(Len(s) + 1) |-> <<End>>], Len(s) + 1 - 0)
    BY <2>1
  <2> QED
    BY <2>2
<1>3. ASSUME NEW n \in Nat, n \in S PROVE n + 1 \in S
  <2> DEFINE m == Len(s) + 1 - n
  <2>1. PICK g : Eq(g, m)
    BY <1>3
  <2>2. m \in Int /\ m - 1 = Len(s) + 1 - (n + 1) /\ m <= Len(s) + 1
    BY <1>1
  <2> HIDE DEF m
  <2>7. \A i \in m..(Len(s) + 1) : g[i] = Entry(i, g[i + 1])
    <3> HIDE DEF Entry
    <3> QED
      BY <2>1
  <2> DEFINE h == [i \in (m - 1)..(Len(s) + 1) |-> IF i >= m THEN g[i] ELSE Entry(i, g[i + 1])]
  <2> HIDE DEF Entry
  <2>3. ASSUME NEW i \in (m - 1)..(Len(s) + 1)
        PROVE  h[i] = Entry(i, h[i + 1])
    <3>1. CASE i >= m
      <4>1. h[i] = g[i] /\ i \in m..(Len(s) + 1)
        BY <1>1, <2>2, <3>1
      <4>4. g[i] = Entry(i, g[i + 1])
        BY <2>7, <4>1
      <4>2. i <= Len(s) => h[i + 1] = g[i + 1]
        BY <1>1, <2>2, <3>1
      <4>3. i > Len(s) => Entry(i, g[i + 1]) = Entry(i, h[i + 1])
        BY DEF Entry
      <4> QED
        BY <1>1, <2>2, <4>1, <4>2, <4>3, <4>4
    <3>2. CASE ~(i >= m)
      <4>1. i = m - 1 /\ i + 1 = m /\ h[i] = Entry(i, g[i + 1])
        BY <1>1, <2>2, <3>2
      <4>2. h[i + 1] = g[i + 1]
        BY <1>1, <2>2, <4>1
      <4> QED
        BY <4>1, <4>2
    <3> QED
      BY <3>1, <3>2
  <2>4. h = [i \in (m - 1)..(Len(s) + 1) |-> h[i]]
    OBVIOUS
  <2> HIDE DEF h
  <2>5. Eq(h, m - 1)
    BY <2>3, <2>4
  <2>6. \E u : Eq(u, Len(s) + 1 - (n + 1))
    BY <2>2, <2>5
  <2> QED
    BY <2>6
<1>4. \A n \in Nat : n \in S
  <2> HIDE DEF S
  <2> QED
    BY <1>2, <1>3, Induction
<1>5. PICK g : Eq(g, Len(s) + 1 - Len(s))
  BY <1>1, <1>4
<1>6. Len(s) + 1 - Len(s) = 1
  BY <1>1
<1>7. Eq(g, 1)
  BY <1>5, <1>6
<1>8. TokensFrom(s) = CHOOSE u : Eq(u, 1)
  BY Zenon DEF TokensFrom
<1>9. Eq(TokensFrom(s), 1)
  BY <1>7, <1>8, Zenon
<1> QED
  BY <1>9, Zenon

(* What the tokens of a string are.                                        *)
Toks(s) == {TokenAt(s, i) : i \in 1..Len(s)} \cup {End}

(* The equation place by place; and there are no other tokens.             *)
LEMMA TokensFacts ==
  ASSUME NEW s \in Seq(Chars)
  PROVE  /\ TokensFrom(s)[Len(s) + 1] = <<End>>
         /\ \A i \in 1..Len(s) : TokensFrom(s)[i] =
              IF TokenStarts(s, i) THEN <<TokenAt(s, i)>> \o TokensFrom(s)[i + 1]
              ELSE TokensFrom(s)[i + 1]
         /\ \A i \in 1..(Len(s) + 1) : TokensFrom(s)[i] \in Seq(Toks(s))
<1> DEFINE from == TokensFrom(s)
<1>1. Len(s) \in Nat
  OBVIOUS
<1>2. /\ from[Len(s) + 1] = <<End>>
      /\ \A i \in 1..Len(s) : from[i] =
           IF TokenStarts(s, i) THEN <<TokenAt(s, i)>> \o from[i + 1] ELSE from[i + 1]
  <2>1. from = [i \in 1..(Len(s) + 1) |->
           IF i > Len(s) THEN <<End>>
           ELSE IF TokenStarts(s, i) THEN <<TokenAt(s, i)>> \o from[i + 1] ELSE from[i + 1]]
    BY TokensEquation
  <2> HIDE DEF from
  <2>2. ASSUME NEW i \in 1..(Len(s) + 1)
        PROVE  from[i] = IF i > Len(s) THEN <<End>>
                 ELSE IF TokenStarts(s, i) THEN <<TokenAt(s, i)>> \o from[i + 1] ELSE from[i + 1]
    BY <2>1, Zenon
  <2>3. /\ Len(s) + 1 \in 1..(Len(s) + 1) /\ Len(s) + 1 > Len(s)
        /\ \A i \in 1..Len(s) : i \in 1..(Len(s) + 1) /\ ~(i > Len(s))
    BY <1>1
  <2> QED
    BY <2>2, <2>3, Zenon
<1> HIDE DEF from
<1> DEFINE S == {n \in Nat : n <= Len(s) => from[Len(s) + 1 - n] \in Seq(Toks(s))}
<1>3. 0 \in S
  <2>1. <<End>> \in Seq(Toks(s))
    BY DEF Toks
  <2>2. Len(s) + 1 - 0 = Len(s) + 1
    BY <1>1
  <2> QED
    BY <1>2, <2>1, <2>2
<1>4. ASSUME NEW n \in Nat, n \in S PROVE n + 1 \in S
  <2>1. SUFFICES ASSUME n + 1 <= Len(s) PROVE from[Len(s) + 1 - (n + 1)] \in Seq(Toks(s))
    OBVIOUS
  <2>2. PICK i \in 1..Len(s) : i = Len(s) + 1 - (n + 1) /\ i + 1 = Len(s) + 1 - n
    BY <1>1, <2>1
  <2>3. from[i + 1] \in Seq(Toks(s))
    BY <1>1, <1>4, <2>1, <2>2
  <2>4. <<TokenAt(s, i)>> \in Seq(Toks(s))
    BY DEF Toks
  <2>5. <<TokenAt(s, i)>> \o from[i + 1] \in Seq(Toks(s))
    BY <2>3, <2>4, ConcatProperties
  <2>6. from[i] \in Seq(Toks(s))
    BY <1>2, <2>3, <2>5
  <2> QED
    BY <2>2, <2>6
<1>5. \A n \in Nat : n \in S
  <2> HIDE DEF S
  <2> QED
    BY <1>3, <1>4, Induction
<1>6. ASSUME NEW i \in 1..(Len(s) + 1) PROVE from[i] \in Seq(Toks(s))
  <2> DEFINE n == Len(s) + 1 - i
  <2>1. n \in Nat /\ n <= Len(s) /\ Len(s) + 1 - n = i
    BY <1>1
  <2> HIDE DEF n
  <2>2. n \in S
    <3> HIDE DEF S
    <3> QED
      BY <1>5, <2>1
  <2> QED
    BY <2>1, <2>2
<1> QED
  BY <1>2, <1>6 DEF from

(* Places where no token starts add none.                                  *)
LEMMA NoTokenBetween ==
  ASSUME NEW s \in Seq(Chars), NEW p \in 1..(Len(s) + 1), NEW q \in p..(Len(s) + 1),
         \A i \in p..(q - 1) : ~TokenStarts(s, i)
  PROVE  TokensFrom(s)[p] = TokensFrom(s)[q]
<1> DEFINE from == TokensFrom(s)
<1>1. Len(s) \in Nat /\ p \in Nat /\ q \in Nat /\ p >= 1 /\ q <= Len(s) + 1 /\ p <= q
  OBVIOUS
<1>2. \A i \in 1..Len(s) : ~TokenStarts(s, i) => from[i] = from[i + 1]
  BY TokensFacts
<1> HIDE DEF from
<1> DEFINE S == {n \in Nat : n <= q - p => from[q - n] = from[q]}
<1>3. 0 \in S
  BY <1>1
<1>4. ASSUME NEW n \in Nat, n \in S PROVE n + 1 \in S
  <2>1. SUFFICES ASSUME n + 1 <= q - p PROVE from[q - (n + 1)] = from[q]
    OBVIOUS
  <2>2. PICK i \in 1..Len(s) : i = q - (n + 1) /\ i + 1 = q - n /\ i \in p..(q - 1)
    BY <1>1, <2>1
  <2>3. from[q - n] = from[q]
    BY <1>1, <1>4, <2>1
  <2> QED
    BY <1>2, <2>2, <2>3
<1>5. \A n \in Nat : n \in S
  <2> HIDE DEF S
  <2> QED
    BY <1>3, <1>4, Induction
<1>6. q - p \in Nat /\ q - (q - p) = p
  BY <1>1
<1>7. q - p \in S
  <2> HIDE DEF S
  <2> QED
    BY <1>5, <1>6
<1> QED
  BY <1>1, <1>6, <1>7 DEF from

(* Where a run of characters of one kind ends.                             *)
LEMMA RunEndIs ==
  ASSUME NEW s \in Seq(Chars), NEW i \in 1..Len(s), NEW m \in i..Len(s),
         \A j \in i..m : Kind(s[j]) = Kind(s[i]),
         m < Len(s) => Kind(s[m + 1]) # Kind(s[i])
  PROVE  RunEnd(s, i) = m
<1> DEFINE Ends(r) == /\ \A j \in i..r : Kind(s[j]) = Kind(s[i])
                      /\ r < Len(s) => Kind(s[r + 1]) # Kind(s[i])
<1>1. Len(s) \in Nat /\ i \in Nat /\ m \in Nat
  OBVIOUS
<1>2. RunEnd(s, i) = CHOOSE r \in i..Len(s) : Ends(r)
  BY DEF RunEnd
<1>3. ASSUME NEW r \in i..Len(s), Ends(r) PROVE r = m
  <2>1. ~(r < m)
    BY <1>1, <1>3
  <2>2. ~(m < r)
    BY <1>1, <1>3
  <2> QED
    BY <1>1, <2>1, <2>2
<1>4. Ends(m)
  OBVIOUS
<1> HIDE DEF Ends
<1> QED
  BY <1>2, <1>3, <1>4

-----------------------------------------------------------------------------
(* The kinds of characters.                                                *)
LEMMA KindFacts ==
  ASSUME NEW c \in Chars
  PROVE  /\ Kind(c) \in {-1, 0, 2, 3}
         /\ c \in JunkChars <=> Kind(c) = -1
         /\ c \in {Tilde} <=> Kind(c) = 0
         /\ c \in Letters <=> Kind(c) = 2
         /\ c \in Digits <=> Kind(c) = 3
  BY DEF Kind, Chars, JunkChars, Tilde, Letters, Digits

(* f is what is left of s from place p on; and no token goes on there.     *)
At(s, p, f) ==
  /\ p \in 1..(Len(s) + 1) /\ f \in Seq(Chars) /\ Len(f) = Len(s) + 1 - p
  /\ \A i \in 1..Len(f) : f[i] = s[p + i - 1]
Boundary(s, p) == p <= Len(s) => Kind(s[p]) < 0 \/ TokenStarts(s, p)

(* The loop starts with the whole string.                                  *)
LEMMA WholeAt ==
  ASSUME NEW s \in Seq(Chars)
  PROVE  At(s, 1, s) /\ Boundary(s, 1)
<1>1. Len(s) \in Nat /\ \A i \in 1..Len(s) : 1 + i - 1 = i /\ s[i] \in Chars
  OBVIOUS
<1>2. At(s, 1, s)
  BY <1>1 DEF At
<1>3. 1 <= Len(s) => Kind(s[1]) \in {-1, 0, 2, 3}
  BY <1>1, KindFacts
<1> QED
  BY <1>2, <1>3 DEF Boundary, TokenStarts

(* A rest is left further on.                                              *)
LEMMA RestAt ==
  ASSUME NEW s \in Seq(Chars), NEW p, NEW f, At(s, p, f), NEW set
  PROVE  At(s, p + PrefixLen(f, set), Rest(f, set))
<1> DEFINE n == PrefixLen(f, set)
           g == Rest(f, set)
<1>1. /\ p \in 1..(Len(s) + 1) /\ f \in Seq(Chars) /\ Len(f) = Len(s) + 1 - p
      /\ Len(s) \in Nat /\ Len(f) \in Nat /\ \A i \in 1..Len(f) : f[i] = s[p + i - 1]
  BY DEF At
<1>2. n \in 0..Len(f)
  BY <1>1, PrefixFacts
<1>3. g \in Seq(Chars) /\ Len(g) = Len(f) - n /\ \A i \in 1..Len(g) : g[i] = f[n + i]
  <2>1. f \in Seq(Chars)
    BY <1>1
  <2> QED
    BY <2>1, RestFacts, Zenon
<1> HIDE DEF n, g
<1>4. p + n \in 1..(Len(s) + 1) /\ Len(g) = Len(s) + 1 - (p + n)
  BY <1>1, <1>2, <1>3
<1>5. ASSUME NEW i \in 1..Len(g) PROVE g[i] = s[(p + n) + i - 1]
  <2>1. n + i \in 1..Len(f) /\ p + (n + i) - 1 = (p + n) + i - 1
    BY <1>1, <1>2, <1>3
  <2> QED
    BY <1>1, <1>3, <2>1
<1> QED
  BY <1>3, <1>4, <1>5 DEF At, n, g

(* So is a tail.                                                           *)
LEMMA TailAt ==
  ASSUME NEW s \in Seq(Chars), NEW p, NEW f, At(s, p, f), f # <<>>
  PROVE  At(s, p + 1, Tail(f))
<1>1. /\ p \in 1..(Len(s) + 1) /\ f \in Seq(Chars) /\ Len(f) = Len(s) + 1 - p
      /\ Len(s) \in Nat /\ Len(f) \in Nat /\ \A i \in 1..Len(f) : f[i] = s[p + i - 1]
  BY DEF At
<1>2. Len(f) >= 1 /\ Tail(f) \in Seq(Chars) /\ Len(Tail(f)) = Len(f) - 1
  BY <1>1, HeadTailProperties, EmptySeq
<1>3. ASSUME NEW i \in 1..Len(Tail(f)) PROVE Tail(f)[i] = s[(p + 1) + i - 1]
  <2>1. i + 1 \in 1..Len(f) /\ p + (i + 1) - 1 = (p + 1) + i - 1
    BY <1>1, <1>2
  <2>2. Tail(f)[i] = f[i + 1]
    BY <1>1, <1>2, HeadTailProperties
  <2> QED
    BY <1>1, <2>1, <2>2
<1>4. p + 1 \in 1..(Len(s) + 1) /\ Len(Tail(f)) = Len(s) + 1 - (p + 1)
  BY <1>1, <1>2
<1> QED
  BY <1>2, <1>3, <1>4 DEF At

(* The character the string goes on with.                                  *)
LEMMA HeadAt ==
  ASSUME NEW s \in Seq(Chars), NEW p, NEW f, At(s, p, f)
  PROVE  /\ f = <<>> => p = Len(s) + 1
         /\ f # <<>> => /\ p \in 1..Len(s) /\ s[p] \in Chars
                        /\ \A set : Starts(f, set) <=> s[p] \in set
         /\ \A set : f = <<>> => ~Starts(f, set)
<1>1. /\ p \in 1..(Len(s) + 1) /\ f \in Seq(Chars) /\ Len(f) = Len(s) + 1 - p
      /\ Len(s) \in Nat /\ Len(f) \in Nat /\ \A i \in 1..Len(f) : f[i] = s[p + i - 1]
  BY DEF At
<1>2. f = <<>> => p = Len(s) + 1
  BY <1>1
<1>3. ASSUME f # <<>>
      PROVE  p \in 1..Len(s) /\ s[p] \in Chars /\ Head(f) = s[p]
  <2>1. Len(f) >= 1
    BY <1>1, <1>3, EmptySeq
  <2>2. p \in 1..Len(s) /\ p + 1 - 1 = p /\ 1 \in 1..Len(f)
    BY <1>1, <2>1
  <2>3. Head(f) = f[1]
    OBVIOUS
  <2> QED
    BY <1>1, <2>2, <2>3
<1> QED
  BY <1>2, <1>3, Zenon DEF Starts

(* Junk is no token, and ends where one may start.                         *)
LEMMA JunkStep ==
  ASSUME NEW s \in Seq(Chars), NEW p, NEW f, At(s, p, f), Boundary(s, p)
  PROVE  LET n == PrefixLen(f, JunkChars)
         IN  Boundary(s, p + n) /\ TokensFrom(s)[p + n] = TokensFrom(s)[p]
<1> DEFINE n == PrefixLen(f, JunkChars)
<1>1. /\ p \in 1..(Len(s) + 1) /\ f \in Seq(Chars) /\ Len(f) = Len(s) + 1 - p
      /\ Len(s) \in Nat /\ Len(f) \in Nat /\ \A i \in 1..Len(f) : f[i] = s[p + i - 1]
  BY DEF At
<1>2. /\ n \in 0..Len(f) /\ \A i \in 1..n : f[i] \in JunkChars
      /\ n < Len(f) => f[n + 1] \notin JunkChars
  BY <1>1, PrefixFacts
<1> HIDE DEF n
<1>3. \A i \in 1..Len(s) : s[i] \in Chars
  OBVIOUS
<1>4. ASSUME NEW i \in p..((p + n) - 1) PROVE i \in 1..Len(s) /\ Kind(s[i]) = -1
  <2>3. i \in Int /\ p \in Nat /\ n \in Nat /\ p >= 1 /\ n <= Len(f) /\ p <= i /\ i <= p + n - 1
    BY <1>1, <1>2
  <2>1. i - p + 1 \in 1..n /\ i - p + 1 \in 1..Len(f) /\ p + (i - p + 1) - 1 = i /\ i \in 1..Len(s)
    BY <1>1, <2>3
  <2>2. s[i] \in JunkChars
    BY <1>1, <1>2, <2>1
  <2> QED
    BY <1>3, <2>1, <2>2, KindFacts
<1>5. \A i \in p..((p + n) - 1) : ~TokenStarts(s, i)
  BY <1>4 DEF TokenStarts
<1>6. p + n \in p..(Len(s) + 1)
  BY <1>1, <1>2
<1>7. TokensFrom(s)[p] = TokensFrom(s)[p + n]
  <2> DEFINE q == p + n
  <2>1. q \in p..(Len(s) + 1) /\ \A i \in p..(q - 1) : ~TokenStarts(s, i)
    BY <1>5, <1>6, Zenon
  <2> HIDE DEF q
  <2>2. TokensFrom(s)[p] = TokensFrom(s)[q]
    BY <1>1, <2>1, NoTokenBetween
  <2> QED
    BY <2>2 DEF q
<1>8. Boundary(s, p + n)
  <2>1. CASE n = 0
    BY <1>1, <2>1
  <2>2. CASE n # 0 /\ p + n <= Len(s)
    <3>1. /\ (p + n) - 1 \in p..((p + n) - 1) /\ p + n \in 1..Len(s) /\ n + 1 \in 1..Len(f)
          /\ p + (n + 1) - 1 = p + n /\ n < Len(f) /\ p + n # 1
      BY <1>1, <1>2, <2>2
    <3>2. Kind(s[(p + n) - 1]) = -1 /\ s[p + n] \notin JunkChars /\ s[p + n] \in Chars
      BY <1>1, <1>2, <1>3, <1>4, <3>1
    <3>3. Kind(s[p + n]) # -1 /\ Kind(s[p + n]) \in {-1, 0, 2, 3}
      BY <3>2, KindFacts
    <3>6. Kind(s[p + n]) \in {0, 2, 3}
      BY <3>3, Zenon
    <3>4. Kind(s[p + n]) >= 0 /\ Kind(s[(p + n) - 1]) # Kind(s[p + n])
      BY <3>2, <3>3, <3>6
    <3>5. TokenStarts(s, p + n)
      BY <3>4, Zenon DEF TokenStarts
    <3> QED
      BY <3>5 DEF Boundary
  <2>3. CASE ~(p + n <= Len(s))
    BY <2>3 DEF Boundary
  <2> QED
    BY <2>1, <2>2, <2>3
<1> QED
  BY <1>7, <1>8 DEF n

(* A tilde is a token of its own.                                          *)
LEMMA TildeStep ==
  ASSUME NEW s \in Seq(Chars), NEW p, NEW f, At(s, p, f), Starts(f, {Tilde})
  PROVE  /\ Boundary(s, p + 1)
         /\ p + 1 \in 1..(Len(s) + 1)
         /\ TokensFrom(s)[p] = <<[kind |-> 0, key |-> <<>>]>> \o TokensFrom(s)[p + 1]
<1>1. f # <<>>
  BY DEF Starts
<1>2. p \in 1..Len(s) /\ s[p] \in Chars /\ s[p] \in {Tilde} /\ Len(s) \in Nat
  BY <1>1, HeadAt
<1>3. Kind(s[p]) = 0
  BY <1>2, KindFacts
<1>4. TokenStarts(s, p) /\ TokenAt(s, p) = [kind |-> 0, key |-> <<>>]
  BY <1>3 DEF TokenStarts, TokenAt
<1>5. TokensFrom(s)[p] = <<TokenAt(s, p)>> \o TokensFrom(s)[p + 1]
  BY <1>2, <1>4, TokensFacts
<1>6. ASSUME p + 1 <= Len(s) PROVE Kind(s[p + 1]) < 0 \/ TokenStarts(s, p + 1)
  <2>1. p + 1 \in 1..Len(s) /\ s[p + 1] \in Chars /\ (p + 1) - 1 = p
    BY <1>2, <1>6
  <2>2. Kind(s[p + 1]) \in {-1, 0, 2, 3}
    BY <2>1, KindFacts
  <2> QED
    BY <1>3, <2>1, <2>2 DEF TokenStarts
<1>7. p + 1 \in 1..(Len(s) + 1)
  BY <1>2
<1> QED
  BY <1>4, <1>5, <1>6, <1>7 DEF Boundary

(* Segments are of two kinds.                                              *)
SegmentKind(set, kind) == (set = Digits /\ kind = 3) \/ (set = Letters /\ kind = 2)

(* The run f begins with is a token of that kind.                          *)
SegmentOff(s, p, f, set, kind) ==
  /\ Boundary(s, p + PrefixLen(f, set)) /\ p + PrefixLen(f, set) \in 1..(Len(s) + 1)
  /\ TokensFrom(s)[p] = <<TokenAt(s, p)>> \o TokensFrom(s)[p + PrefixLen(f, set)]
  /\ Kind(s[p]) = kind /\ SubSeq(s, p, RunEnd(s, p)) = Run(f, set)

(* The longest run of digits, or of letters, where a token may start is    *)
(* the token that starts there.                                            *)
LEMMA SegmentStep ==
  ASSUME NEW s \in Seq(Chars), NEW p, NEW f, At(s, p, f), Boundary(s, p),
         NEW set, NEW kind, SegmentKind(set, kind), Starts(f, set)
  PROVE  SegmentOff(s, p, f, set, kind)
<1> DEFINE n == PrefixLen(f, set)
           m == (p + n) - 1
<1>1. /\ p \in 1..(Len(s) + 1) /\ f \in Seq(Chars) /\ Len(f) = Len(s) + 1 - p
      /\ Len(s) \in Nat /\ Len(f) \in Nat /\ \A i \in 1..Len(f) : f[i] = s[p + i - 1]
  BY DEF At
<1>2. /\ n \in 0..Len(f) /\ \A i \in 1..n : f[i] \in set
      /\ n < Len(f) => f[n + 1] \notin set
  BY <1>1, PrefixFacts
<1>3. Run(f, set) \in Seq(set) /\ Len(Run(f, set)) = n /\ \A i \in 1..n : Run(f, set)[i] = f[i]
  <2>1. /\ Run(f, set) \in Seq(set) /\ Len(Run(f, set)) = n
        /\ \A i \in 1..n : Run(f, set)[i] = f[i]
    <3>1. f \in Seq(Chars)
      BY <1>1
    <3> HIDE DEF n
    <3>2. Rest(f, set) \in Seq(Chars) /\ Run(f, set) \in Seq(set)
      BY <3>1, RestFacts
    <3>3. Len(Run(f, set)) = PrefixLen(f, set)
      BY <3>1, RestFacts
    <3>4. \A i \in 1..PrefixLen(f, set) : Run(f, set)[i] = f[i]
      BY <3>1, RestFacts
    <3> QED
      BY <3>2, <3>3, <3>4 DEF n
  <2> QED
    BY <2>1
<1>4. f # <<>> /\ p \in 1..Len(s) /\ s[p] \in set
  <2>1. f # <<>>
    BY DEF Starts
  <2> QED
    BY <2>1, HeadAt
<1>5. \A i \in 1..Len(s) : s[i] \in Chars /\ (s[i] \in set <=> Kind(s[i]) = kind)
  <2>1. \A i \in 1..Len(s) : s[i] \in Chars
    OBVIOUS
  <2> QED
    BY <2>1, KindFacts DEF SegmentKind
<1> HIDE DEF n
<1>6. n >= 1
  <2>1. 1 \in 1..Len(f) /\ p + 1 - 1 = p
    BY <1>1, <1>4
  <2>2. f[1] \in set
    BY <1>1, <1>4, <2>1
  <2> QED
    BY <1>1, <1>2, <2>1, <2>2
<1>7. /\ m \in p..Len(s) /\ m + 1 = p + n /\ m \in Nat /\ p \in Nat /\ n \in Nat
      /\ p + n \in 1..(Len(s) + 1) /\ m - p + 1 = n
  BY <1>1, <1>2, <1>6
<1> HIDE DEF m
<1>8. ASSUME NEW j \in p..m
      PROVE  j \in 1..Len(s) /\ s[j] = f[j - p + 1] /\ j - p + 1 \in 1..n /\ Kind(s[j]) = kind
  <2>1. /\ j - p + 1 \in 1..n /\ j - p + 1 \in 1..Len(f) /\ j \in 1..Len(s)
        /\ p + (j - p + 1) - 1 = j
    BY <1>1, <1>2, <1>7
  <2>2. s[j] = f[j - p + 1]
    BY <1>1, <2>1
  <2>3. s[j] \in set
    BY <1>2, <2>1, <2>2
  <2> QED
    BY <1>5, <2>1, <2>2, <2>3
<1>9. ASSUME m < Len(s) PROVE m + 1 \in 1..Len(s) /\ Kind(s[m + 1]) # kind
  <2>1. n < Len(f) /\ n + 1 \in 1..Len(f) /\ p + (n + 1) - 1 = m + 1 /\ m + 1 \in 1..Len(s)
    BY <1>1, <1>2, <1>7, <1>9
  <2>2. s[m + 1] \notin set
    BY <1>1, <1>2, <2>1
  <2> QED
    BY <1>5, <2>1, <2>2
<1>10. Kind(s[p]) = kind
  BY <1>4, <1>5
<1>11. RunEnd(s, p) = m
  BY <1>4, <1>7, <1>8, <1>9, <1>10, RunEndIs
<1>12. SubSeq(s, p, m) = Run(f, set)
  <2>1. /\ SubSeq(s, p, m) \in Seq(Chars)
        /\ Len(SubSeq(s, p, m)) = IF p <= m THEN m - p + 1 ELSE 0
        /\ \A i \in 1..(m - p + 1) : SubSeq(s, p, m)[i] = s[p + i - 1]
    BY <1>1, <1>7, <1>8, <1>5, SubSeqProperties
  <2>2. Len(SubSeq(s, p, m)) = n
    BY <1>7, <2>1
  <2>3. ASSUME NEW i \in 1..n PROVE SubSeq(s, p, m)[i] = Run(f, set)[i]
    <3>1. i \in 1..(m - p + 1) /\ i \in 1..Len(f)
      BY <1>1, <1>2, <1>7
    <3> QED
      BY <1>1, <1>3, <2>1, <3>1
  <2>4. SubSeq(s, p, m) \in Seq(Chars \cup set) /\ Run(f, set) \in Seq(Chars \cup set)
    BY <1>3, <2>1, SeqMonotonic
  <2> QED
    BY <1>3, <2>2, <2>3, <2>4, SeqEqual
<1>13. TokenStarts(s, p)
  <2>1. kind \in {2, 3}
    BY DEF SegmentKind
  <2> QED
    BY <1>4, <1>10, <2>1 DEF Boundary
<1>14. TokensFrom(s)[p] = <<TokenAt(s, p)>> \o TokensFrom(s)[p + 1]
  BY <1>4, <1>13, TokensFacts
<1>15. TokensFrom(s)[p + 1] = TokensFrom(s)[p + n]
  <2> DEFINE b == p + 1
             q == p + n
  <2>1. b \in 1..(Len(s) + 1) /\ q \in b..(Len(s) + 1)
    BY <1>1, <1>6, <1>7
  <2>2. ASSUME NEW i \in b..(q - 1) PROVE ~TokenStarts(s, i)
    <3>1. i \in p..m /\ i - 1 \in p..m /\ i # 1
      BY <1>1, <1>7 DEF m
    <3>2. Kind(s[i]) = kind /\ Kind(s[i - 1]) = kind
      BY <1>8, <3>1
    <3>3. kind # 0
      BY DEF SegmentKind
    <3> QED
      BY <3>1, <3>2, <3>3 DEF TokenStarts
  <2> HIDE DEF b, q
  <2>3. TokensFrom(s)[b] = TokensFrom(s)[q]
    BY <2>1, <2>2, NoTokenBetween
  <2> QED
    BY <2>3 DEF b, q
<1>16. Boundary(s, p + n)
  <2>1. SUFFICES ASSUME p + n <= Len(s) PROVE Kind(s[m + 1]) < 0 \/ TokenStarts(s, m + 1)
    BY <1>7 DEF Boundary
  <2>2. m < Len(s) /\ m \in p..m /\ (m + 1) - 1 = m
    BY <1>1, <1>7, <2>1
  <2>3. m + 1 \in 1..Len(s) /\ Kind(s[m + 1]) # kind /\ Kind(s[m]) = kind
    BY <1>8, <1>9, <2>2
  <2>4. Kind(s[m + 1]) \in {-1, 0, 2, 3}
    BY <1>5, <2>3, KindFacts
  <2> QED
    BY <2>2, <2>3, <2>4 DEF TokenStarts
<1> QED
  BY <1>7, <1>10, <1>11, <1>12, <1>14, <1>15, <1>16 DEF n, SegmentOff

(* The token that a run of digits is, and that a run of letters is.        *)
LEMMA TokenIs ==
  ASSUME NEW s, NEW p
  PROVE  /\ Kind(s[p]) = 3 =>
              TokenAt(s, p) = [kind |-> 3, key |-> <<Value(SubSeq(s, p, RunEnd(s, p)))>>]
         /\ Kind(s[p]) = 2 =>
              TokenAt(s, p) = [kind |-> 2, key |-> SubSeq(s, p, RunEnd(s, p))]
<1>1. ASSUME Kind(s[p]) = 3
      PROVE  TokenAt(s, p) = [kind |-> 3, key |-> <<Value(SubSeq(s, p, RunEnd(s, p)))>>]
  BY <1>1 DEF TokenAt
<1>2. ASSUME Kind(s[p]) = 2
      PROVE  TokenAt(s, p) = [kind |-> 2, key |-> SubSeq(s, p, RunEnd(s, p))]
  BY <1>2 DEF TokenAt
<1> QED
  BY <1>1, <1>2

-----------------------------------------------------------------------------
(* Words compare like their rests when they begin alike.                   *)
LEMMA SameHead ==
  ASSUME NEW T, NEW x \in T, NEW a \in Seq(T), NEW b \in Seq(T), x.kind \in Int
  PROVE  WordCmp(<<x>> \o a, <<x>> \o b) = WordCmp(a, b)
<1> DEFINE c == <<x>> \o a
           d == <<x>> \o b
           Less(u, v) == \E i \in DOMAIN u : /\ i \in DOMAIN v /\ \A j \in 1..(i - 1) : u[j] = v[j]
                                             /\ TokenLess(u[i], v[i])
<1>1. /\ c \in Seq(T) /\ Len(c) = Len(a) + 1 /\ c[1] = x
      /\ d \in Seq(T) /\ Len(d) = Len(b) + 1 /\ d[1] = x
      /\ \A i \in 1..Len(a) : c[i + 1] = a[i]
      /\ \A i \in 1..Len(b) : d[i + 1] = b[i]
  <2>1. <<x>> \in Seq(T) /\ Len(<<x>>) = 1 /\ <<x>>[1] = x
    OBVIOUS
  <2>2. c \in Seq(T) /\ Len(c) = 1 + Len(a) /\ d \in Seq(T) /\ Len(d) = 1 + Len(b)
    BY <2>1, ConcatProperties
  <2>3. /\ \A i \in 1..(1 + Len(a)) : c[i] = IF i <= 1 THEN x ELSE a[i - 1]
        /\ \A i \in 1..(1 + Len(b)) : d[i] = IF i <= 1 THEN x ELSE b[i - 1]
    BY <2>1, ConcatProperties
  <2> HIDE DEF c, d
  <2> QED
    BY <2>2, <2>3
<1>2. Len(a) \in Nat /\ Len(b) \in Nat /\ DOMAIN a = 1..Len(a) /\ DOMAIN b = 1..Len(b)
      /\ DOMAIN c = 1..Len(c) /\ DOMAIN d = 1..Len(d)
  BY <1>1
<1> HIDE DEF c, d
<1>3. c = d <=> a = b
  <2>1. ASSUME c = d PROVE a = b
    <3>4. Len(a) + 1 = Len(b) + 1
      BY <1>1, <2>1, Zenon
    <3>5. \A u, v \in Nat : u + 1 = v + 1 => u = v
      OBVIOUS
    <3>2. Len(a) = Len(b)
      BY <1>2, <3>4, <3>5, Zenon
    <3>3. \A i \in 1..Len(a) : c[i + 1] = a[i] /\ d[i + 1] = b[i]
      BY <1>1, <3>2
    <3>1. Len(a) = Len(b) /\ \A i \in 1..Len(a) : a[i] = b[i]
      BY <2>1, <3>2, <3>3
    <3> QED
      BY <3>1, SeqEqual
  <2>2. ASSUME a = b PROVE c = d
    BY <2>2 DEF c, d
  <2> QED
    BY <2>1, <2>2
<1>4. ASSUME a # b PROVE Less(c, d) <=> Less(a, b)
  <2>1. ASSUME NEW i \in DOMAIN c, i \in DOMAIN d, \A j \in 1..(i - 1) : c[j] = d[j],
               TokenLess(c[i], d[i])
        PROVE  Less(a, b)
    <3>1. i # 1
      <4>1. ~TokenLess(x, x)
        <5>1. ~(x.kind < x.kind)
          OBVIOUS
        <5>2. StringCmp(x.key, x.key) # -1
          BY DEF StringCmp
        <5> QED
          BY <5>1, <5>2, Zenon DEF TokenLess
      <4> QED
        BY <1>1, <2>1, <4>1
    <3> DEFINE k == i - 1
    <3>2. k \in DOMAIN a /\ k \in DOMAIN b /\ k + 1 = i /\ k \in Nat
      BY <1>1, <1>2, <2>1, <3>1
    <3>3. TokenLess(a[k], b[k])
      BY <1>1, <1>2, <2>1, <3>2
    <3>4. ASSUME NEW j \in 1..(k - 1) PROVE a[j] = b[j]
      <4>1. j + 1 \in 1..(i - 1) /\ j \in 1..Len(a) /\ j \in 1..Len(b)
        BY <1>2, <3>2
      <4> QED
        BY <1>1, <2>1, <4>1
    <3> HIDE DEF k
    <3> QED
      BY <3>2, <3>3, <3>4
  <2>2. ASSUME NEW i \in DOMAIN a, i \in DOMAIN b, \A j \in 1..(i - 1) : a[j] = b[j],
               TokenLess(a[i], b[i])
        PROVE  Less(c, d)
    <3> DEFINE k == i + 1
    <3>1. k \in DOMAIN c /\ k \in DOMAIN d
      BY <1>1, <1>2, <2>2
    <3>2. TokenLess(c[k], d[k])
      BY <1>1, <1>2, <2>2
    <3>3. ASSUME NEW j \in 1..(k - 1) PROVE c[j] = d[j]
      <4>1. CASE j = 1
        BY <1>1, <4>1
      <4>2. CASE j # 1
        <5>1. j - 1 \in 1..(i - 1) /\ j - 1 \in 1..Len(a) /\ j - 1 \in 1..Len(b) /\ (j - 1) + 1 = j
          BY <1>2, <2>2, <4>2
        <5> QED
          BY <1>1, <2>2, <5>1
      <4> QED
        BY <4>1, <4>2
    <3> HIDE DEF k
    <3> QED
      BY <3>1, <3>2, <3>3
  <2> QED
    BY <2>1, <2>2
<1>5. WordCmp(c, d) = IF c = d THEN 0 ELSE IF Less(c, d) THEN -1 ELSE 1
  BY Zenon DEF WordCmp
<1>6. WordCmp(a, b) = IF a = b THEN 0 ELSE IF Less(a, b) THEN -1 ELSE 1
  BY Zenon DEF WordCmp
<1> HIDE DEF Less
<1>7. WordCmp(c, d) = WordCmp(a, b)
  <2>1. CASE a = b
    BY <1>3, <1>5, <1>6, <2>1
  <2>2. CASE a # b
    BY <1>3, <1>4, <1>5, <1>6, <2>2
  <2> QED
    BY <2>1, <2>2
<1> QED
  BY <1>7 DEF c, d

(* They compare like their first tokens when these differ.                 *)
LEMMA DifferentHead ==
  ASSUME NEW T, NEW c \in Seq(T), NEW d \in Seq(T), c # <<>>, d # <<>>, c[1] # d[1]
  PROVE  WordCmp(c, d) = IF TokenLess(c[1], d[1]) THEN -1 ELSE 1
<1>1. /\ DOMAIN c = 1..Len(c) /\ DOMAIN d = 1..Len(d) /\ Len(c) \in Nat /\ Len(d) \in Nat
      /\ Len(c) >= 1 /\ Len(d) >= 1
  BY EmptySeq
<1>2. 1 \in DOMAIN c /\ 1 \in DOMAIN d /\ c # d /\ \A j \in 1..(1 - 1) : c[j] = d[j]
  BY <1>1
<1>3. ASSUME NEW i \in DOMAIN c, i \in DOMAIN d, \A j \in 1..(i - 1) : c[j] = d[j]
      PROVE  i = 1
  BY <1>1, <1>3
<1> QED
  BY <1>2, <1>3 DEF WordCmp

-----------------------------------------------------------------------------
(* Both strings are at places where a token may start, from where on they  *)
(* compare like the whole strings.                                         *)
PlaceOK(s, t, f, g, p, q) ==
  /\ At(s, p, f) /\ At(t, q, g) /\ Boundary(s, p) /\ Boundary(t, q)
  /\ WordCmp(TokensFrom(s)[p], TokensFrom(t)[q]) = VersionCmp(s, t)
Left(s, t, f, g) ==
  \E p \in 1..(Len(s) + 1), q \in 1..(Len(t) + 1) : PlaceOK(s, t, f, g, p, q)

(* The inductive invariant: what is left of both fields compares like the  *)
(* fields, the fields before are equal, and a result is that of the field. *)
IInv ==
  /\ input \in Inputs /\ field \in 1..Len(input[1])
  /\ ret \in {Running, <<-1>>, <<0>>, <<1>>}
  /\ Left(input[1][field], input[2][field], first, second)
  /\ \A k \in 1..(field - 1) : VersionCmp(input[1][k], input[2][k]) = 0
  /\ ret # Running => /\ ret = <<VersionCmp(input[1][field], input[2][field])>>
                      /\ ret = <<0>> => field = Len(input[1])

(* The first token of what is left of a string.                            *)
LEMMA FirstToken ==
  ASSUME NEW s \in Seq(Chars), NEW p, NEW f, At(s, p, f), Boundary(s, p)
  PROVE  LET a == TokensFrom(s)[p]
         IN  /\ f = <<>> => a = <<End>>
             /\ Starts(f, {Tilde}) => a # <<>> /\ a[1] = [kind |-> 0, key |-> <<>>]
             /\ Starts(f, Digits) => /\ a # <<>>
                                     /\ a[1] = [kind |-> 3, key |-> <<Value(Run(f, Digits))>>]
             /\ Starts(f, Letters) => a # <<>> /\ a[1] = [kind |-> 2, key |-> Run(f, Letters)]
             /\ a \in Seq(Toks(s))
<1> DEFINE from == TokensFrom(s)
<1>1. p \in 1..(Len(s) + 1) /\ Len(s) \in Nat
  BY DEF At
<1>2. \A i \in 1..(Len(s) + 1) : from[i] \in Seq(Toks(s))
  BY TokensFacts
<1>3. ASSUME NEW x, NEW q \in 1..(Len(s) + 1), from[p] = <<x>> \o from[q]
      PROVE  from[p] # <<>> /\ from[p][1] = x
  <2>1. from[q] \in Seq(Toks(s) \cup {x}) /\ <<x>> \in Seq(Toks(s) \cup {x}) /\ Len(<<x>>) = 1
    BY <1>2, SeqMonotonic
  <2>2. /\ Len(<<x>> \o from[q]) = Len(<<x>>) + Len(from[q])
        /\ \A i \in 1..(Len(<<x>>) + Len(from[q])) :
             (<<x>> \o from[q])[i] = IF i <= Len(<<x>>) THEN <<x>>[i] ELSE from[q][i - Len(<<x>>)]
    BY <2>1, ConcatProperties
  <2> HIDE DEF from
  <2>3. Len(from[q]) \in Nat
    BY <2>1
  <2>4. Len(from[p]) >= 1 /\ from[p][1] = x
    BY <1>3, <2>1, <2>2, <2>3
  <2> QED
    BY <2>4
<1>4. f = <<>> => from[p] = <<End>>
  BY HeadAt, TokensFacts
<1>5. ASSUME Starts(f, {Tilde})
      PROVE  from[p] # <<>> /\ from[p][1] = [kind |-> 0, key |-> <<>>]
  BY <1>3, <1>5, TildeStep
<1>6. ASSUME Starts(f, Digits)
      PROVE  /\ from[p] # <<>>
             /\ from[p][1] = [kind |-> 3, key |-> <<Value(Run(f, Digits))>>]
  <2>2. SegmentKind(Digits, 3)
    BY DEF SegmentKind
  <2>1. /\ p + PrefixLen(f, Digits) \in 1..(Len(s) + 1)
        /\ from[p] = <<TokenAt(s, p)>> \o from[p + PrefixLen(f, Digits)]
        /\ Kind(s[p]) = 3 /\ SubSeq(s, p, RunEnd(s, p)) = Run(f, Digits)
    <3>1. SegmentOff(s, p, f, Digits, 3)
      BY <1>6, <2>2, SegmentStep
    <3> QED
      BY <3>1 DEF SegmentOff
  <2> HIDE DEF from
  <2> QED
    BY <1>3, <2>1, TokenIs
<1>7. ASSUME Starts(f, Letters)
      PROVE  from[p] # <<>> /\ from[p][1] = [kind |-> 2, key |-> Run(f, Letters)]
  <2>2. SegmentKind(Letters, 2)
    BY DEF SegmentKind
  <2>1. /\ p + PrefixLen(f, Letters) \in 1..(Len(s) + 1)
        /\ from[p] = <<TokenAt(s, p)>> \o from[p + PrefixLen(f, Letters)]
        /\ Kind(s[p]) = 2 /\ SubSeq(s, p, RunEnd(s, p)) = Run(f, Letters)
    <3>1. SegmentOff(s, p, f, Letters, 2)
      BY <1>7, <2>2, SegmentStep
    <3> QED
      BY <3>1 DEF SegmentOff
  <2> HIDE DEF from
  <2> QED
    BY <1>3, <2>1, TokenIs
<1>8. from[p] \in Seq(Toks(s))
  BY <1>1, <1>2
<1> QED
  BY <1>4, <1>5, <1>6, <1>7, <1>8

(* Different first tokens decide.                                          *)
LEMMA TokensDecide ==
  ASSUME NEW s \in Seq(Chars), NEW t \in Seq(Chars), NEW f, NEW g, NEW p, NEW q,
         PlaceOK(s, t, f, g, p, q), NEW x, NEW y, x # y,
         TokensFrom(s)[p] # <<>>, TokensFrom(s)[p][1] = x,
         TokensFrom(t)[q] # <<>>, TokensFrom(t)[q][1] = y
  PROVE  VersionCmp(s, t) = IF TokenLess(x, y) THEN -1 ELSE 1
<1> DEFINE c == TokensFrom(s)[p]
           d == TokensFrom(t)[q]
           T == Toks(s) \cup Toks(t)
<1>1. c \in Seq(T) /\ d \in Seq(T)
  <2>1. p \in 1..(Len(s) + 1) /\ q \in 1..(Len(t) + 1)
    BY DEF PlaceOK, At
  <2>2. c \in Seq(Toks(s)) /\ d \in Seq(Toks(t))
    BY <2>1, TokensFacts
  <2> HIDE DEF c, d
  <2> QED
    BY <2>2, SeqMonotonic
<1>2. WordCmp(c, d) = VersionCmp(s, t)
  BY DEF PlaceOK
<1>3. c # <<>> /\ d # <<>> /\ c[1] = x /\ d[1] = y
  OBVIOUS
<1> HIDE DEF c, d, T
<1>4. WordCmp(c, d) = IF TokenLess(c[1], d[1]) THEN -1 ELSE 1
  BY <1>1, <1>3, DifferentHead
<1> QED
  BY <1>2, <1>3, <1>4, Zenon

(* Different kinds decide.                                                 *)
LEMMA KindsDecide ==
  ASSUME NEW s \in Seq(Chars), NEW t \in Seq(Chars), NEW f, NEW g, NEW p, NEW q,
         PlaceOK(s, t, f, g, p, q), NEW x, NEW y,
         TokensFrom(s)[p] # <<>>, TokensFrom(s)[p][1] = x, x.kind \in Int,
         TokensFrom(t)[q] # <<>>, TokensFrom(t)[q][1] = y, y.kind \in Int
  PROVE  /\ x.kind < y.kind => VersionCmp(s, t) = -1
         /\ y.kind < x.kind => VersionCmp(s, t) = 1
<1>1. ASSUME x # y PROVE VersionCmp(s, t) = IF TokenLess(x, y) THEN -1 ELSE 1
  BY <1>1, TokensDecide
<1>2. ASSUME x.kind < y.kind PROVE VersionCmp(s, t) = -1
  <2>1. x # y /\ TokenLess(x, y)
    BY <1>2 DEF TokenLess
  <2> QED
    BY <1>1, <2>1
<1>3. ASSUME y.kind < x.kind PROVE VersionCmp(s, t) = 1
  <2>1. x # y /\ ~TokenLess(x, y)
    BY <1>3 DEF TokenLess
  <2> QED
    BY <1>1, <2>1
<1> QED
  BY <1>2, <1>3

(* From p on a string is token x and what is left from r on.               *)
Off(s, p, x, r) ==
  r \in 1..(Len(s) + 1) /\ TokensFrom(s)[p] = <<x>> \o TokensFrom(s)[r]

(* Taking the same token off both strings changes nothing.                 *)
LEMMA SameTokenOff ==
  ASSUME NEW s \in Seq(Chars), NEW t \in Seq(Chars), NEW f, NEW g, NEW p, NEW q,
         PlaceOK(s, t, f, g, p, q), NEW x, x.kind \in Int, NEW m, NEW n,
         Off(s, p, x, m), Off(t, q, x, n)
  PROVE  WordCmp(TokensFrom(s)[m], TokensFrom(t)[n]) = VersionCmp(s, t)
<1> DEFINE c == TokensFrom(s)[m]
           d == TokensFrom(t)[n]
           T == Toks(s) \cup Toks(t) \cup {x}
<1>1. c \in Seq(T) /\ d \in Seq(T) /\ x \in T
  <2>2. c \in Seq(Toks(s)) /\ d \in Seq(Toks(t))
    BY TokensFacts DEF Off
  <2> HIDE DEF c, d
  <2> QED
    BY <2>2, SeqMonotonic
<1>2. WordCmp(<<x>> \o c, <<x>> \o d) = VersionCmp(s, t)
  BY DEF PlaceOK, Off
<1> HIDE DEF c, d, T
<1>3. WordCmp(<<x>> \o c, <<x>> \o d) = WordCmp(c, d)
  BY <1>1, SameHead
<1> QED
  BY <1>2, <1>3 DEF c, d

-----------------------------------------------------------------------------
(* Dropping junk.                                                          *)
LEMMA LeftAfterJunk ==
  ASSUME NEW s \in Seq(Chars), NEW t \in Seq(Chars), NEW f, NEW g, Left(s, t, f, g)
  PROVE  Left(s, t, Rest(f, JunkChars), Rest(g, JunkChars))
<1>1. PICK p \in 1..(Len(s) + 1), q \in 1..(Len(t) + 1) : PlaceOK(s, t, f, g, p, q)
  BY DEF Left
<1> DEFINE m == p + PrefixLen(f, JunkChars)
           n == q + PrefixLen(g, JunkChars)
<1>2. At(s, p, f) /\ At(t, q, g) /\ Boundary(s, p) /\ Boundary(t, q)
  BY <1>1 DEF PlaceOK
<1>3. At(s, m, Rest(f, JunkChars)) /\ Boundary(s, m) /\ TokensFrom(s)[m] = TokensFrom(s)[p]
  BY <1>2, RestAt, JunkStep
<1>4. At(t, n, Rest(g, JunkChars)) /\ Boundary(t, n) /\ TokensFrom(t)[n] = TokensFrom(t)[q]
  BY <1>2, RestAt, JunkStep
<1> HIDE DEF m, n
<1>5. PlaceOK(s, t, Rest(f, JunkChars), Rest(g, JunkChars), m, n)
  BY <1>1, <1>3, <1>4 DEF PlaceOK
<1>6. m \in 1..(Len(s) + 1) /\ n \in 1..(Len(t) + 1)
  BY <1>3, <1>4 DEF At
<1> QED
  BY <1>5, <1>6 DEF Left

(* Tildes at both, and at one of them.                                     *)
LEMMA LeftAfterTilde ==
  ASSUME NEW s \in Seq(Chars), NEW t \in Seq(Chars), NEW f, NEW g, Left(s, t, f, g),
         Starts(f, {Tilde}), Starts(g, {Tilde})
  PROVE  Left(s, t, Tail(f), Tail(g))
<1>1. PICK p \in 1..(Len(s) + 1), q \in 1..(Len(t) + 1) : PlaceOK(s, t, f, g, p, q)
  BY DEF Left
<1> DEFINE x == [kind |-> 0, key |-> <<>>]
<1>2. At(s, p, f) /\ At(t, q, g) /\ f # <<>> /\ g # <<>>
  BY <1>1 DEF PlaceOK, Starts
<1>3. /\ Boundary(s, p + 1) /\ p + 1 \in 1..(Len(s) + 1)
      /\ TokensFrom(s)[p] = <<x>> \o TokensFrom(s)[p + 1]
  BY <1>2, TildeStep
<1>4. /\ Boundary(t, q + 1) /\ q + 1 \in 1..(Len(t) + 1)
      /\ TokensFrom(t)[q] = <<x>> \o TokensFrom(t)[q + 1]
  BY <1>2, TildeStep
<1>5. At(s, p + 1, Tail(f)) /\ At(t, q + 1, Tail(g))
  BY <1>2, TailAt
<1>6. x.kind \in Int
  OBVIOUS
<1> HIDE DEF x
<1>7. WordCmp(TokensFrom(s)[p + 1], TokensFrom(t)[q + 1]) = VersionCmp(s, t)
  <2>1. Off(s, p, x, p + 1) /\ Off(t, q, x, q + 1)
    BY <1>3, <1>4 DEF Off
  <2> QED
    BY <1>1, <1>6, <2>1, SameTokenOff
<1>8. PlaceOK(s, t, Tail(f), Tail(g), p + 1, q + 1)
  BY <1>3, <1>4, <1>5, <1>7 DEF PlaceOK
<1> QED
  BY <1>3, <1>4, <1>8 DEF Left

(* The kind of the first token of what is left, without junk.              *)
FirstKind(f) == IF f = <<>> THEN 1 ELSE Kind(Head(f))

(* The first token has that kind.                                          *)
LEMMA FirstKindIs ==
  ASSUME NEW s \in Seq(Chars), NEW p, NEW f, At(s, p, f), Boundary(s, p),
         ~Starts(f, JunkChars)
  PROVE  /\ TokensFrom(s)[p] # <<>> /\ TokensFrom(s)[p][1].kind = FirstKind(f)
         /\ FirstKind(f) \in {0, 1, 2, 3}
         /\ Starts(f, {Tilde}) <=> FirstKind(f) = 0
         /\ f = <<>> <=> FirstKind(f) = 1
         /\ Starts(f, Letters) <=> FirstKind(f) = 2
         /\ Starts(f, Digits) <=> FirstKind(f) = 3
<1> DEFINE a == TokensFrom(s)[p]
<1>1. /\ f = <<>> => a = <<End>>
      /\ Starts(f, {Tilde}) => a # <<>> /\ a[1] = [kind |-> 0, key |-> <<>>]
      /\ Starts(f, Digits) => a # <<>> /\ a[1] = [kind |-> 3, key |-> <<Value(Run(f, Digits))>>]
      /\ Starts(f, Letters) => a # <<>> /\ a[1] = [kind |-> 2, key |-> Run(f, Letters)]
  BY FirstToken
<1> HIDE DEF a
<1>2. CASE f = <<>>
  <2>1. a # <<>> /\ a[1].kind = 1
    BY <1>1, <1>2 DEF End
  <2> QED
    BY <1>2, <2>1 DEF FirstKind, Starts, a
<1>3. CASE f # <<>>
  <2>1. Head(f) \in Chars
    <3>1. f \in Seq(Chars)
      BY DEF At
    <3> QED
      BY <1>3, <3>1, HeadTailProperties
  <2>2. \A set : Starts(f, set) <=> Head(f) \in set
    BY <1>3 DEF Starts
  <2>3. FirstKind(f) = Kind(Head(f))
    BY <1>3 DEF FirstKind
  <2>4. /\ Kind(Head(f)) \in {-1, 0, 2, 3}
        /\ Head(f) \in JunkChars <=> Kind(Head(f)) = -1
        /\ Head(f) \in {Tilde} <=> Kind(Head(f)) = 0
        /\ Head(f) \in Letters <=> Kind(Head(f)) = 2
        /\ Head(f) \in Digits <=> Kind(Head(f)) = 3
    BY <2>1, KindFacts
  <2>5. /\ Starts(f, {Tilde}) <=> FirstKind(f) = 0
        /\ Starts(f, Letters) <=> FirstKind(f) = 2
        /\ Starts(f, Digits) <=> FirstKind(f) = 3
        /\ FirstKind(f) \in {0, 2, 3}
    BY <2>2, <2>3, <2>4
  <2>6. a # <<>> /\ a[1].kind = FirstKind(f)
    BY <1>1, <2>5
  <2> QED
    BY <1>3, <2>5, <2>6 DEF a
<1> QED
  BY <1>2, <1>3

(* Different kinds in front decide how the strings compare; two ends are   *)
(* equal.                                                                  *)
LEMMA FirstKindsDecide ==
  ASSUME NEW s \in Seq(Chars), NEW t \in Seq(Chars), NEW f, NEW g, Left(s, t, f, g),
         ~Starts(f, JunkChars), ~Starts(g, JunkChars)
  PROVE  /\ FirstKind(f) < FirstKind(g) => VersionCmp(s, t) = -1
         /\ FirstKind(g) < FirstKind(f) => VersionCmp(s, t) = 1
         /\ f = <<>> /\ g = <<>> => VersionCmp(s, t) = 0
<1>1. PICK p \in 1..(Len(s) + 1), q \in 1..(Len(t) + 1) : PlaceOK(s, t, f, g, p, q)
  BY DEF Left
<1>2. At(s, p, f) /\ At(t, q, g) /\ Boundary(s, p) /\ Boundary(t, q)
  BY <1>1 DEF PlaceOK
<1> DEFINE x == TokensFrom(s)[p][1]
           y == TokensFrom(t)[q][1]
<1>3. TokensFrom(s)[p] # <<>> /\ x.kind = FirstKind(f) /\ x.kind \in Int
  BY <1>2, FirstKindIs
<1>4. TokensFrom(t)[q] # <<>> /\ y.kind = FirstKind(g) /\ y.kind \in Int
  BY <1>2, FirstKindIs
<1>5. /\ x.kind < y.kind => VersionCmp(s, t) = -1
      /\ y.kind < x.kind => VersionCmp(s, t) = 1
  BY <1>1, <1>3, <1>4, KindsDecide
<1>6. ASSUME f = <<>>, g = <<>> PROVE VersionCmp(s, t) = 0
  <2>1. TokensFrom(s)[p] = <<End>> /\ TokensFrom(t)[q] = <<End>>
    BY <1>2, <1>6, FirstToken
  <2>2. WordCmp(<<End>>, <<End>>) = 0
    BY DEF WordCmp
  <2> QED
    BY <1>1, <2>1, <2>2 DEF PlaceOK
<1> HIDE DEF x, y
<1> QED
  BY <1>3, <1>4, <1>5, <1>6

(* Numbers of one digit string each compare like one-character strings.    *)
LEMMA SingleCmp ==
  ASSUME NEW x \in Nat, NEW y \in Nat
  PROVE  StringCmp(<<x>>, <<y>>) = IF x = y THEN 0 ELSE IF x < y THEN -1 ELSE 1
<1>1. /\ Len(<<x>>) = 1 /\ Len(<<y>>) = 1 /\ <<x>>[1] = x /\ <<y>>[1] = y
      /\ <<x>> = <<y>> <=> x = y
  OBVIOUS
<1>2. CASE x = y
  BY <1>2 DEF StringCmp
<1>3. CASE x < y
  <2>1. 0 \in 0..Len(<<x>>) /\ 0 <= Len(<<y>>) /\ (\A i \in 1..0 : <<x>>[i] = <<y>>[i])
        /\ 0 < Len(<<y>>) /\ <<x>>[0 + 1] < <<y>>[0 + 1]
    BY <1>1, <1>3
  <2>2. x # y
    BY <1>3
  <2> QED
    BY <1>1, <1>3, <2>1, <2>2 DEF StringCmp
<1>4. CASE y < x
  <2>1. ASSUME NEW n \in 0..Len(<<x>>), n <= Len(<<y>>), \A i \in 1..n : <<x>>[i] = <<y>>[i],
               n = Len(<<x>>) \/ (n < Len(<<y>>) /\ <<x>>[n + 1] < <<y>>[n + 1])
        PROVE  FALSE
    <3>1. n \in {0, 1}
      BY <1>1, <2>1
    <3>2. CASE n = 0
      BY <1>1, <1>4, <2>1, <3>2
    <3>3. CASE n = 1
      BY <1>1, <1>4, <2>1, <3>3
    <3> QED
      BY <3>1, <3>2, <3>3
  <2>2. x # y /\ ~(x < y)
    BY <1>4
  <2> QED
    BY <1>1, <2>1, <2>2 DEF StringCmp
<1> QED
  BY <1>2, <1>3, <1>4

(* How segments of the same kind compare.                                  *)
SegmentCmp(set, f, g, cmp) ==
  cmp = IF set = Digits THEN numCmp(Run(f, set), Run(g, set))
        ELSE StringCmp(Run(f, set), Run(g, set))

(* Segments of the same kind: how they compare decides, and equal ones are *)
(* taken off both strings.                                                 *)
LEMMA SegmentsDecide ==
  ASSUME NEW s \in Seq(Chars), NEW t \in Seq(Chars), NEW f, NEW g, Left(s, t, f, g),
         NEW set, NEW kind, SegmentKind(set, kind), Starts(f, set), Starts(g, set),
         NEW cmp, SegmentCmp(set, f, g, cmp)
  PROVE  /\ cmp \in {-1, 0, 1}
         /\ cmp # 0 => VersionCmp(s, t) = cmp
         /\ cmp = 0 => Left(s, t, Rest(f, set), Rest(g, set))
<1>1. PICK p \in 1..(Len(s) + 1), q \in 1..(Len(t) + 1) : PlaceOK(s, t, f, g, p, q)
  BY DEF Left
<1>2. At(s, p, f) /\ At(t, q, g) /\ Boundary(s, p) /\ Boundary(t, q)
  BY <1>1 DEF PlaceOK
<1> DEFINE m == p + PrefixLen(f, set)
           n == q + PrefixLen(g, set)
           x == TokenAt(s, p)
           y == TokenAt(t, q)
<1>3. /\ Boundary(s, m) /\ m \in 1..(Len(s) + 1) /\ Kind(s[p]) = kind
      /\ TokensFrom(s)[p] = <<x>> \o TokensFrom(s)[m]
      /\ SubSeq(s, p, RunEnd(s, p)) = Run(f, set)
  <2>1. SegmentOff(s, p, f, set, kind)
    BY <1>2, SegmentStep
  <2> QED
    BY <2>1 DEF SegmentOff
<1>4. /\ Boundary(t, n) /\ n \in 1..(Len(t) + 1) /\ Kind(t[q]) = kind
      /\ TokensFrom(t)[q] = <<y>> \o TokensFrom(t)[n]
      /\ SubSeq(t, q, RunEnd(t, q)) = Run(g, set)
  <2>1. SegmentOff(t, q, g, set, kind)
    BY <1>2, SegmentStep
  <2> QED
    BY <2>1 DEF SegmentOff
<1>5. At(s, m, Rest(f, set)) /\ At(t, n, Rest(g, set))
  BY <1>2, RestAt
<1>6. Run(f, set) \in Seq(set) /\ Run(g, set) \in Seq(set)
  <2>1. f \in Seq(Chars) /\ g \in Seq(Chars)
    BY <1>2 DEF At
  <2> QED
    BY <2>1, RestFacts
<1>7. /\ kind \in {2, 3} /\ (set = Digits <=> kind = 3)
  <2>1. 48 \in Digits /\ 48 \notin Letters
    BY DEF Digits, Letters
  <2> QED
    BY <2>1 DEF SegmentKind
<1>8. /\ kind = 3 => /\ x = [kind |-> 3, key |-> <<Value(Run(f, set))>>]
                     /\ y = [kind |-> 3, key |-> <<Value(Run(g, set))>>]
      /\ kind = 2 => /\ x = [kind |-> 2, key |-> Run(f, set)]
                     /\ y = [kind |-> 2, key |-> Run(g, set)]
  BY <1>3, <1>4, TokenIs
<1> HIDE DEF m, n, x, y
<1>9. /\ cmp \in {-1, 0, 1} /\ (cmp = 0 <=> x = y)
      /\ cmp = StringCmp(x.key, y.key) /\ x.kind = kind /\ y.kind = kind
  <2>1. CASE kind = 3
    <3> DEFINE a == Value(Run(f, set))
               b == Value(Run(g, set))
    <3>1. /\ cmp = -1 => a < b
          /\ cmp = 0 => a = b
          /\ cmp = 1 => b < a
          /\ cmp \in {-1, 0, 1} /\ a \in Nat /\ b \in Nat
      BY <1>6, <1>7, <2>1, NumCmpIsValue DEF SegmentCmp
    <3>2. x = [kind |-> 3, key |-> <<a>>] /\ y = [kind |-> 3, key |-> <<b>>]
      BY <1>8, <2>1
    <3> HIDE DEF a, b
    <3>3. StringCmp(<<a>>, <<b>>) = IF a = b THEN 0 ELSE IF a < b THEN -1 ELSE 1
      BY <3>1, SingleCmp
    <3>4. x.key = <<a>> /\ y.key = <<b>> /\ x.kind = 3 /\ y.kind = 3 /\ (x = y <=> a = b)
      BY <3>2
    <3> QED
      BY <2>1, <3>1, <3>3, <3>4
  <2>2. CASE kind = 2
    <3>1. cmp = StringCmp(Run(f, set), Run(g, set))
      BY <1>7, <2>2 DEF SegmentCmp
    <3>2. /\ x.key = Run(f, set) /\ y.key = Run(g, set) /\ x.kind = 2 /\ y.kind = 2
          /\ x = y <=> Run(f, set) = Run(g, set)
      BY <1>8, <2>2
    <3> QED
      BY <2>2, <3>1, <3>2, StringCmpCases
  <2> QED
    BY <1>7, <2>1, <2>2
<1>10. ASSUME cmp # 0 PROVE VersionCmp(s, t) = cmp
  <2>1. TokensFrom(s)[p] # <<>> /\ TokensFrom(s)[p][1] = x
    <3>1. TokensFrom(s)[m] \in Seq(Toks(s) \cup {x}) /\ <<x>> \in Seq(Toks(s) \cup {x})
      BY <1>3, TokensFacts, SeqMonotonic
    <3> QED
      BY <1>3, <3>1
  <2>2. TokensFrom(t)[q] # <<>> /\ TokensFrom(t)[q][1] = y
    <3>1. TokensFrom(t)[n] \in Seq(Toks(t) \cup {y}) /\ <<y>> \in Seq(Toks(t) \cup {y})
      BY <1>4, TokensFacts, SeqMonotonic
    <3> QED
      BY <1>4, <3>1
  <2>3. VersionCmp(s, t) = IF TokenLess(x, y) THEN -1 ELSE 1
    BY <1>1, <1>9, <1>10, <2>1, <2>2, TokensDecide
  <2>4. TokenLess(x, y) <=> cmp = -1
    BY <1>7, <1>9 DEF TokenLess
  <2> QED
    BY <1>9, <1>10, <2>3, <2>4
<1>11. ASSUME cmp = 0 PROVE Left(s, t, Rest(f, set), Rest(g, set))
  <2>1. WordCmp(TokensFrom(s)[m], TokensFrom(t)[n]) = VersionCmp(s, t)
    <3>1. x = y /\ x.kind \in Int
      BY <1>7, <1>9, <1>11
    <3>2. Off(s, p, x, m) /\ Off(t, q, x, n)
      BY <1>3, <1>4, <3>1 DEF Off
    <3> QED
      BY <1>1, <3>1, <3>2, SameTokenOff
  <2>2. PlaceOK(s, t, Rest(f, set), Rest(g, set), m, n)
    BY <1>3, <1>4, <1>5, <2>1 DEF PlaceOK
  <2> QED
    BY <1>3, <1>4, <2>2 DEF Left
<1> QED
  BY <1>9, <1>10, <1>11

-----------------------------------------------------------------------------
(* The invariant's parts about one state, with the strings typed.          *)
LEMMA Fields ==
  ASSUME NEW in \in Inputs, NEW k \in 1..Len(in[1])
  PROVE  /\ in[1][k] \in Seq(Chars) /\ in[2][k] \in Seq(Chars)
         /\ Len(in[1]) = Len(in[2]) /\ Len(in[1]) \in Nat /\ Len(in[1]) > 0
         /\ DOMAIN in[1] = 1..Len(in[1])
<1>1. /\ in[1] \in Seq(Seq(Chars)) /\ in[2] \in Seq(Seq(Chars))
      /\ Len(in[1]) = Len(in[2]) /\ Len(in[1]) > 0
  BY InputsAssumption
<1> QED
  BY <1>1

(* Two whole strings are left when a field is begun.                       *)
LEMMA LeftAtStart ==
  ASSUME NEW s \in Seq(Chars), NEW t \in Seq(Chars)
  PROVE  Left(s, t, s, t)
<1>1. 1 \in 1..(Len(s) + 1) /\ 1 \in 1..(Len(t) + 1)
  OBVIOUS
<1>2. PlaceOK(s, t, s, t, 1, 1)
  BY WholeAt DEF PlaceOK, VersionCmp
<1> QED
  BY <1>1, <1>2 DEF Left

(* The comparison starts at the first field.                               *)
LEMMA InitIInv ==
  Init => IInv
<1> SUFFICES ASSUME Init PROVE IInv
  OBVIOUS
<1>1. /\ input \in Inputs /\ field = 1 /\ ret = Running
      /\ first = input[1][1] /\ second = input[2][1]
  BY DEF Init
<1>2. Len(input[1]) > 0 /\ Len(input[1]) \in Nat
  BY <1>1, InputsAssumption
<1>3. field \in 1..Len(input[1]) /\ (\A k \in 1..(field - 1) : FALSE)
  BY <1>1, <1>2
<1>4. Left(input[1][field], input[2][field], first, second)
  BY <1>1, <1>3, Fields, LeftAtStart
<1> QED
  BY <1>1, <1>3, <1>4 DEF IInv

(* Going on with strings that compare like the fields.                     *)
LEMMA ContinueIInv ==
  ASSUME IInv, ret = Running, NEW f, NEW g, Continue(f, g),
         Left(input[1][field], input[2][field], f, g)
  PROVE  IInv'
<1>1. first' = f /\ second' = g /\ input' = input /\ field' = field /\ ret' = ret
  BY DEF Continue
<1> QED
  BY <1>1 DEF IInv

(* Returning how the fields compare.                                       *)
LEMMA ReturnIInv ==
  ASSUME IInv, ret = Running, NEW v, Return(v),
         VersionCmp(input[1][field], input[2][field]) = v
  PROVE  IInv'
<1>1. /\ input \in Inputs /\ field \in 1..Len(input[1])
      /\ Left(input[1][field], input[2][field], first, second)
      /\ \A k \in 1..(field - 1) : VersionCmp(input[1][k], input[2][k]) = 0
  BY DEF IInv
<1>2. input' = input
  BY DEF Return
<1>3. v \in {-1, 0, 1}
  BY DEF VersionCmp, WordCmp
<1>4. Len(input[1]) \in Nat
  BY <1>1, Fields
<1>5. CASE v = 0 /\ field < Len(input[1])
  <2>1. /\ field' = field + 1 /\ ret' = ret
        /\ first' = input[1][field + 1] /\ second' = input[2][field + 1]
    BY <1>5 DEF Return
  <2>2. field + 1 \in 1..Len(input[1]) /\ (field + 1) - 1 = field
    BY <1>1, <1>4, <1>5
  <2>3. Left(input[1][field + 1], input[2][field + 1], first', second')
    BY <1>1, <2>1, <2>2, Fields, LeftAtStart
  <2>4. \A k \in 1..((field + 1) - 1) : VersionCmp(input[1][k], input[2][k]) = 0
    <3>1. ASSUME NEW k \in 1..field PROVE VersionCmp(input[1][k], input[2][k]) = 0
      <4>1. CASE k = field
        BY <1>5, <4>1
      <4>2. CASE k # field
        <5>1. k \in 1..(field - 1)
          BY <1>1, <4>2
        <5> QED
          BY <1>1, <5>1
      <4> QED
        BY <4>1, <4>2
    <3> QED
      BY <2>2, <3>1
  <2> QED
    BY <1>1, <1>2, <2>1, <2>2, <2>3, <2>4 DEF IInv
<1>6. CASE ~(v = 0 /\ field < Len(input[1]))
  <2>1. ret' = <<v>> /\ field' = field /\ first' = first /\ second' = second
    BY <1>6 DEF Return
  <2>2. <<v>> = <<0>> => field = Len(input[1])
    <3>1. <<v>> = <<0>> => v = 0
      OBVIOUS
    <3> QED
      BY <1>1, <1>4, <1>6, <3>1
  <2> QED
    BY <1>1, <1>2, <1>3, <2>1, <2>2 DEF IInv
<1> QED
  BY <1>5, <1>6

(* Junk is dropped.                                                        *)
LEMMA SkipJunkIInv ==
  ASSUME IInv, SkipJunk
  PROVE  IInv'
<1> DEFINE s == input[1][field]
           t == input[2][field]
<1>1. s \in Seq(Chars) /\ t \in Seq(Chars) /\ Left(s, t, first, second)
  BY Fields DEF IInv
<1>2. ret = Running /\ Continue(Rest(first, JunkChars), Rest(second, JunkChars))
  BY DEF SkipJunk, Round
<1> HIDE DEF s, t
<1>3. Left(s, t, Rest(first, JunkChars), Rest(second, JunkChars))
  BY <1>1, LeftAfterJunk
<1> QED
  BY <1>2, <1>3, ContinueIInv DEF s, t

(* What the kinds in front of the strings say, in every round without junk.*)
LEMMA RoundKinds ==
  ASSUME IInv, ~Starts(first, JunkChars), ~Starts(second, JunkChars)
  PROVE  /\ FirstKind(first) \in {0, 1, 2, 3} /\ FirstKind(second) \in {0, 1, 2, 3}
         /\ Starts(first, {Tilde}) <=> FirstKind(first) = 0
         /\ Starts(second, {Tilde}) <=> FirstKind(second) = 0
         /\ first = <<>> <=> FirstKind(first) = 1
         /\ second = <<>> <=> FirstKind(second) = 1
         /\ Starts(first, Letters) <=> FirstKind(first) = 2
         /\ Starts(second, Letters) <=> FirstKind(second) = 2
         /\ Starts(first, Digits) <=> FirstKind(first) = 3
         /\ Starts(second, Digits) <=> FirstKind(second) = 3
         /\ FirstKind(first) < FirstKind(second) =>
              VersionCmp(input[1][field], input[2][field]) = -1
         /\ FirstKind(second) < FirstKind(first) =>
              VersionCmp(input[1][field], input[2][field]) = 1
         /\ first = <<>> /\ second = <<>> =>
              VersionCmp(input[1][field], input[2][field]) = 0
<1> DEFINE s == input[1][field]
           t == input[2][field]
<1>1. s \in Seq(Chars) /\ t \in Seq(Chars) /\ Left(s, t, first, second)
  BY Fields DEF IInv
<1> HIDE DEF s, t
<1>2. PICK p \in 1..(Len(s) + 1), q \in 1..(Len(t) + 1) : PlaceOK(s, t, first, second, p, q)
  BY <1>1 DEF Left
<1>3. At(s, p, first) /\ At(t, q, second) /\ Boundary(s, p) /\ Boundary(t, q)
  BY <1>2 DEF PlaceOK
<1>4. /\ FirstKind(first) \in {0, 1, 2, 3} /\ (Starts(first, {Tilde}) <=> FirstKind(first) = 0)
      /\ first = <<>> <=> FirstKind(first) = 1
      /\ Starts(first, Letters) <=> FirstKind(first) = 2
      /\ Starts(first, Digits) <=> FirstKind(first) = 3
  BY <1>1, <1>3, FirstKindIs
<1>5. /\ FirstKind(second) \in {0, 1, 2, 3} /\ (Starts(second, {Tilde}) <=> FirstKind(second) = 0)
      /\ second = <<>> <=> FirstKind(second) = 1
      /\ Starts(second, Letters) <=> FirstKind(second) = 2
      /\ Starts(second, Digits) <=> FirstKind(second) = 3
  BY <1>1, <1>3, FirstKindIs
<1>6. /\ FirstKind(first) < FirstKind(second) => VersionCmp(s, t) = -1
      /\ FirstKind(second) < FirstKind(first) => VersionCmp(s, t) = 1
      /\ first = <<>> /\ second = <<>> => VersionCmp(s, t) = 0
  BY <1>1, FirstKindsDecide
<1> QED
  BY <1>4, <1>5, <1>6 DEF s, t

(* Tildes.                                                                 *)
LEMMA CompareTildeIInv ==
  ASSUME IInv, CompareTilde
  PROVE  IInv'
<1>1. ret = Running /\ ~Starts(first, JunkChars) /\ ~Starts(second, JunkChars)
  BY DEF CompareTilde, NoJunk, Round
<1>2. CASE Starts(first, {Tilde}) /\ ~Starts(second, {Tilde}) /\ Return(-1)
  <2>1. FirstKind(first) < FirstKind(second)
    BY <1>1, <1>2, RoundKinds
  <2>2. VersionCmp(input[1][field], input[2][field]) = -1
    BY <1>1, <2>1, RoundKinds
  <2> QED
    BY <1>1, <1>2, <2>2, ReturnIInv
<1>3. CASE Starts(first, {Tilde}) /\ Starts(second, {Tilde}) /\ Continue(Tail(first), Tail(second))
  <2> DEFINE s == input[1][field]
             t == input[2][field]
  <2>1. s \in Seq(Chars) /\ t \in Seq(Chars) /\ Left(s, t, first, second)
    BY Fields DEF IInv
  <2> HIDE DEF s, t
  <2>2. Left(s, t, Tail(first), Tail(second))
    BY <1>3, <2>1, LeftAfterTilde
  <2> QED
    BY <1>1, <1>3, <2>2, ContinueIInv DEF s, t
<1>4. CASE ~Starts(first, {Tilde}) /\ Starts(second, {Tilde}) /\ Return(1)
  <2>1. FirstKind(second) < FirstKind(first)
    BY <1>1, <1>4, RoundKinds
  <2>2. VersionCmp(input[1][field], input[2][field]) = 1
    BY <1>1, <2>1, RoundKinds
  <2> QED
    BY <1>1, <1>4, <2>2, ReturnIInv
<1> QED
  BY <1>2, <1>3, <1>4 DEF CompareTilde

(* The end of both strings, or of one of them.                             *)
LEMMA AtEndIInv ==
  ASSUME IInv, AtEnd
  PROVE  IInv'
<1> DEFINE v == IF first # <<>> THEN 1 ELSE IF second # <<>> THEN -1 ELSE 0
<1>1. ret = Running /\ Return(v) /\ (first = <<>> \/ second = <<>>)
  BY DEF AtEnd
<1>2. /\ ~Starts(first, JunkChars) /\ ~Starts(second, JunkChars)
      /\ first # <<>> => ~Starts(first, {Tilde})
      /\ second # <<>> => ~Starts(second, {Tilde})
  BY DEF AtEnd, NoTilde, NoJunk, Starts
<1>3. VersionCmp(input[1][field], input[2][field]) = v
  <2>1. CASE first # <<>>
    <3>1. FirstKind(second) = 1 /\ FirstKind(first) \in {2, 3}
      BY <1>1, <1>2, <2>1, RoundKinds
    <3>2. FirstKind(second) < FirstKind(first)
      BY <3>1
    <3> QED
      BY <1>2, <2>1, <3>2, RoundKinds
  <2>2. CASE first = <<>> /\ second # <<>>
    <3>1. FirstKind(first) = 1 /\ FirstKind(second) \in {2, 3}
      BY <1>1, <1>2, <2>2, RoundKinds
    <3>2. FirstKind(first) < FirstKind(second)
      BY <3>1
    <3> QED
      BY <1>2, <2>2, <3>2, RoundKinds
  <2>3. CASE first = <<>> /\ second = <<>>
    BY <1>2, <2>3, RoundKinds
  <2> QED
    BY <2>1, <2>2, <2>3
<1> HIDE DEF v
<1> QED
  BY <1>1, <1>3, ReturnIInv

(* A number against letters.                                               *)
LEMMA CompareKindsIInv ==
  ASSUME IInv, CompareKinds
  PROVE  IInv'
<1> DEFINE v == IF Starts(first, Digits) THEN 1 ELSE -1
<1>1. /\ ret = Running /\ Return(v) /\ ~Starts(first, JunkChars) /\ ~Starts(second, JunkChars)
      /\ ~Starts(first, {Tilde}) /\ ~Starts(second, {Tilde}) /\ first # <<>> /\ second # <<>>
      /\ Starts(first, Digits) # Starts(second, Digits)
  BY DEF CompareKinds, BothLeft, NoTilde, NoJunk, Round
<1>2. FirstKind(first) \in {2, 3} /\ FirstKind(second) \in {2, 3}
  BY <1>1, RoundKinds
<1>3. VersionCmp(input[1][field], input[2][field]) = v
  <2>1. CASE Starts(first, Digits)
    <3>1. ~Starts(second, Digits)
      BY <1>1, <2>1 DEF Starts
    <3>2. FirstKind(first) = 3 /\ FirstKind(second) = 2
      BY <1>1, <1>2, <2>1, <3>1, RoundKinds
    <3>3. FirstKind(second) < FirstKind(first)
      BY <3>2
    <3> QED
      BY <1>1, <2>1, <3>3, RoundKinds
  <2>2. CASE ~Starts(first, Digits)
    <3>1. Starts(second, Digits)
      BY <1>1, <2>2 DEF Starts
    <3>2. FirstKind(first) = 2 /\ FirstKind(second) = 3
      BY <1>1, <1>2, <2>2, <3>1, RoundKinds
    <3>3. FirstKind(first) < FirstKind(second)
      BY <3>2
    <3> QED
      BY <1>1, <2>2, <3>3, RoundKinds
  <2> QED
    BY <2>1, <2>2
<1> HIDE DEF v
<1> QED
  BY <1>1, <1>3, ReturnIInv

(* Two numbers, or letters on both sides.                                  *)
LEMMA CompareSegmentsIInv ==
  ASSUME IInv, CompareSegments
  PROVE  IInv'
<1> DEFINE s == input[1][field]
           t == input[2][field]
           set == IF Starts(first, Digits) THEN Digits ELSE Letters
           kind == IF Starts(first, Digits) THEN 3 ELSE 2
           cmp == IF Starts(first, Digits) THEN numCmp(Run(first, set), Run(second, set))
                  ELSE StringCmp(Run(first, set), Run(second, set))
<1>1. s \in Seq(Chars) /\ t \in Seq(Chars) /\ Left(s, t, first, second)
  BY Fields DEF IInv
<1>2. /\ ret = Running /\ ~Starts(first, JunkChars) /\ ~Starts(second, JunkChars)
      /\ ~Starts(first, {Tilde}) /\ ~Starts(second, {Tilde}) /\ first # <<>> /\ second # <<>>
      /\ Starts(first, Digits) = Starts(second, Digits)
      /\ IF cmp # 0 THEN Return(cmp) ELSE Continue(Rest(first, set), Rest(second, set))
  BY DEF CompareSegments, BothLeft, NoTilde, NoJunk, Round
<1>3. FirstKind(first) \in {2, 3} /\ FirstKind(second) \in {2, 3}
  BY <1>2, RoundKinds
<1>4. /\ SegmentKind(set, kind) /\ Starts(first, set) /\ Starts(second, set)
      /\ SegmentCmp(set, first, second, cmp)
  <2>1. CASE Starts(first, Digits)
    <3>1. Starts(second, Digits)
      BY <1>2, <2>1
    <3> QED
      BY <2>1, <3>1 DEF SegmentKind, SegmentCmp
  <2>2. CASE ~Starts(first, Digits)
    <3>1. ~Starts(second, Digits)
      BY <1>2, <2>2
    <3>2. Starts(first, Letters) /\ Starts(second, Letters)
      BY <1>2, <1>3, <2>2, <3>1, RoundKinds
    <3>3. Digits # Letters
      <4>1. 48 \in Digits /\ 48 \notin Letters
        BY DEF Digits, Letters
      <4> QED
        BY <4>1
    <3> QED
      BY <2>2, <3>2, <3>3 DEF SegmentKind, SegmentCmp
  <2> QED
    BY <2>1, <2>2
<1> HIDE DEF s, t, set, kind, cmp
<1>5. /\ cmp # 0 => VersionCmp(s, t) = cmp
      /\ cmp = 0 => Left(s, t, Rest(first, set), Rest(second, set))
  BY <1>1, <1>4, SegmentsDecide
<1>6. CASE cmp # 0
  BY <1>2, <1>5, <1>6, ReturnIInv DEF s, t
<1>7. CASE cmp = 0
  BY <1>2, <1>5, <1>7, ContinueIInv DEF s, t
<1> QED
  BY <1>6, <1>7

-----------------------------------------------------------------------------
(* Every state of every comparison satisfies the invariant (Vercmp and     *)
(* NEVRAcmp, vercmp.go:51, nevra.go:39).                                   *)
THEOREM Invariance ==
  Spec => []IInv
<1>1. Init => IInv
  BY InitIInv
<1>2. IInv /\ [Next]_vars => IInv'
  <2> SUFFICES ASSUME IInv, [Next]_vars PROVE IInv'
    OBVIOUS
  <2>1. CASE SkipJunk
    BY <2>1, SkipJunkIInv
  <2>2. CASE CompareTilde
    BY <2>2, CompareTildeIInv
  <2>3. CASE AtEnd
    BY <2>3, AtEndIInv
  <2>4. CASE CompareKinds
    BY <2>4, CompareKindsIInv
  <2>5. CASE CompareSegments
    BY <2>5, CompareSegmentsIInv
  <2>6. CASE UNCHANGED vars
    BY <2>6 DEF vars, IInv
  <2> QED
    BY <2>1, <2>2, <2>3, <2>4, <2>5, <2>6 DEF Next
<1> QED
  BY <1>1, <1>2, PTL DEF Spec

(* What is left of a string is a suffix of it.                             *)
LEMMA AtIsSuffix ==
  ASSUME NEW s \in Seq(Chars), NEW p, NEW f, At(s, p, f)
  PROVE  IsSuffix(f, s)
<1>1. /\ p \in 1..(Len(s) + 1) /\ f \in Seq(Chars) /\ Len(f) = Len(s) + 1 - p
      /\ Len(s) \in Nat /\ Len(f) \in Nat /\ \A i \in 1..Len(f) : f[i] = s[p + i - 1]
  BY DEF At
<1> DEFINE a == Reverse(f)
           b == Reverse(s)
<1>2. /\ a \in Seq(Chars) /\ Len(a) = Len(f)
      /\ \A i \in 1..Len(f) : a[i] = f[(Len(f) - i) + 1]
  <2>1. \A i \in 1..Len(f) : (Len(f) - i) + 1 \in 1..Len(f)
    BY <1>1
  <2>2. \A i \in 1..Len(f) : f[(Len(f) - i) + 1] \in Chars
    BY <1>1, <2>1
  <2> QED
    BY <1>1, <2>2 DEF Reverse
<1>3. /\ b \in Seq(Chars) /\ Len(b) = Len(s)
      /\ \A i \in 1..Len(s) : b[i] = s[(Len(s) - i) + 1]
  <2>1. \A i \in 1..Len(s) : (Len(s) - i) + 1 \in 1..Len(s)
    BY <1>1
  <2>2. \A i \in 1..Len(s) : s[(Len(s) - i) + 1] \in Chars
    BY <1>1, <2>1
  <2> QED
    BY <1>1, <2>2 DEF Reverse
<1> HIDE DEF a, b
<1>4. Len(a) <= Len(b)
  BY <1>1, <1>2, <1>3
<1>5. ASSUME NEW i \in 1..Len(a) PROVE a[i] = b[i]
  <2>1. /\ (Len(f) - i) + 1 \in 1..Len(f) /\ i \in 1..Len(s) /\ i \in 1..Len(f)
        /\ p + ((Len(f) - i) + 1) - 1 = (Len(s) - i) + 1
    BY <1>1, <1>2
  <2>2. f[(Len(f) - i) + 1] = s[(Len(s) - i) + 1]
    BY <1>1, <2>1
  <2> QED
    BY <1>2, <1>3, <2>1, <2>2
<1>6. SubSeq(a, 1, Len(a)) = SubSeq(b, 1, Len(a))
  <2> DEFINE n == Len(a)
  <2>1. n \in Nat /\ (\A i \in 1..n : a[i] \in Chars /\ b[i] \in Chars)
    BY <1>1, <1>2, <1>3, <1>4
  <2>2. SubSeq(a, 1, n) = [i \in 1..n |-> a[i]] /\ SubSeq(b, 1, n) = [i \in 1..n |-> b[i]]
    BY <1>1, <1>2, <1>3, <1>4
  <2> QED
    BY <1>5, <2>2
<1>7. IsPrefix(a, b)
  BY <1>4, <1>6 DEF IsPrefix
<1> QED
  BY <1>7 DEF IsSuffix, a, b

(* Type correctness: what the loop of Vercmp works on are always ends of   *)
(* the field it was called for, however many rounds have been taken off it *)
(* (vercmp.go:56).                                                         *)
THEOREM TypeCorrect ==
  Spec => []TypeOK
<1>1. IInv => TypeOK
  <2> SUFFICES ASSUME IInv PROVE TypeOK
    OBVIOUS
  <2> DEFINE s == input[1][field]
             t == input[2][field]
  <2>1. s \in Seq(Chars) /\ t \in Seq(Chars) /\ Left(s, t, first, second)
    BY Fields DEF IInv
  <2> HIDE DEF s, t
  <2>2. IsSuffix(first, s) /\ IsSuffix(second, t)
    BY <2>1, AtIsSuffix DEF Left, PlaceOK
  <2> QED
    BY <2>2 DEF TypeOK, IInv, s, t
<1> QED
  BY <1>1, Invariance, PTL

(* NEVRAcmp is the lexicographic order of the fields by the order of their *)
(* tokens, for packages with fields of any length (nevra.go:39), although  *)
(* Vercmp compares neither tokens nor values but cuts strings up as it     *)
(* goes (vercmp.go:51).                                                    *)
THEOREM OrderCorrect ==
  Spec => []MatchesOrder
<1>1. IInv => MatchesOrder
  <2> SUFFICES ASSUME IInv, ret # Running PROVE MatchesOrder
    BY DEF MatchesOrder
  <2>1. /\ input \in Inputs /\ field \in 1..Len(input[1])
        /\ \A k \in 1..(field - 1) : VersionCmp(input[1][k], input[2][k]) = 0
        /\ ret = <<VersionCmp(input[1][field], input[2][field])>>
        /\ ret = <<0>> => field = Len(input[1])
    BY DEF IInv
  <2>2. Len(input[1]) \in Nat /\ DOMAIN input[1] = 1..Len(input[1])
    BY <2>1, Fields
  <2>3. CASE ret = <<0>>
    <3>1. VersionCmp(input[1][field], input[2][field]) = 0
      BY <2>1, <2>3
    <3>2. ASSUME NEW k \in DOMAIN input[1] PROVE VersionCmp(input[1][k], input[2][k]) = 0
      <4>1. k = field \/ k \in 1..(field - 1)
        BY <2>1, <2>2, <2>3
      <4> QED
        BY <2>1, <3>1, <4>1
    <3> QED
      BY <2>3, <3>2 DEF MatchesOrder
  <2>4. CASE ret # <<0>>
    BY <2>1, <2>4 DEF MatchesOrder
  <2> QED
    BY <2>3, <2>4
<1> QED
  BY <1>1, Invariance, PTL

-----------------------------------------------------------------------------
(* The order of words over a strict order R: the first difference decides, *)
(* and a word comes before those it begins.                                *)
Differ(R, a, b, n) ==
  /\ n <= Len(a) /\ n < Len(b) /\ \A i \in 1..n : a[i] = b[i]
  /\ n = Len(a) \/ <<a[n + 1], b[n + 1]>> \in R
Lex(R, a, b) == \E n \in Nat : Differ(R, a, b, n)
StrictOrder(X, R) ==
  /\ \A x \in X : <<x, x>> \notin R
  /\ \A x, y, z \in X : <<x, y>> \in R /\ <<y, z>> \in R => <<x, z>> \in R
  /\ \A x, y \in X : x = y \/ <<x, y>> \in R \/ <<y, x>> \in R

(* It is strict.                                                           *)
LEMMA LexStrict ==
  ASSUME NEW X, NEW R, StrictOrder(X, R), NEW a \in Seq(X)
  PROVE  ~Lex(R, a, a)
<1>1. Len(a) \in Nat /\ \A i \in 1..Len(a) : a[i] \in X
  OBVIOUS
<1>2. SUFFICES ASSUME NEW n \in Nat, Differ(R, a, a, n) PROVE FALSE
  BY DEF Lex
<1>3. n < Len(a) /\ <<a[n + 1], a[n + 1]>> \in R
  BY <1>1, <1>2 DEF Differ
<1>4. a[n + 1] \in X
  BY <1>1, <1>3
<1> QED
  BY <1>3, <1>4 DEF StrictOrder

(* It is transitive.                                                       *)
LEMMA LexTransitive ==
  ASSUME NEW X, NEW R, StrictOrder(X, R), NEW a \in Seq(X), NEW b \in Seq(X), NEW c \in Seq(X),
         Lex(R, a, b), Lex(R, b, c)
  PROVE  Lex(R, a, c)
<1>1. /\ Len(a) \in Nat /\ \A i \in 1..Len(a) : a[i] \in X
      /\ Len(b) \in Nat /\ \A i \in 1..Len(b) : b[i] \in X
      /\ Len(c) \in Nat /\ \A i \in 1..Len(c) : c[i] \in X
  OBVIOUS
<1>2. PICK n \in Nat : Differ(R, a, b, n)
  BY DEF Lex
<1>3. PICK m \in Nat : Differ(R, b, c, m)
  BY DEF Lex
<1>4. /\ n <= Len(a) /\ n < Len(b) /\ \A i \in 1..n : a[i] = b[i]
      /\ n = Len(a) \/ <<a[n + 1], b[n + 1]>> \in R
  BY <1>2 DEF Differ
<1>5. /\ m <= Len(b) /\ m < Len(c) /\ \A i \in 1..m : b[i] = c[i]
      /\ m = Len(b) \/ <<b[m + 1], c[m + 1]>> \in R
  BY <1>3 DEF Differ
<1>6. CASE n < m
  <2>1. n + 1 \in 1..m /\ n < Len(c) /\ \A i \in 1..n : a[i] = c[i]
    BY <1>1, <1>4, <1>5, <1>6
  <2>2. b[n + 1] = c[n + 1]
    BY <1>5, <2>1
  <2>3. Differ(R, a, c, n)
    BY <1>4, <2>1, <2>2 DEF Differ
  <2> QED
    BY <2>3 DEF Lex
<1>7. CASE n = m
  <2>1. n < Len(c) /\ \A i \in 1..n : a[i] = c[i]
    BY <1>1, <1>4, <1>5, <1>7
  <2>2. ASSUME n # Len(a) PROVE <<a[n + 1], c[n + 1]>> \in R
    <3>1. <<a[n + 1], b[n + 1]>> \in R /\ <<b[n + 1], c[n + 1]>> \in R
      BY <1>1, <1>4, <1>5, <1>7, <2>2
    <3>2. a[n + 1] \in X /\ b[n + 1] \in X /\ c[n + 1] \in X
      BY <1>1, <1>4, <2>1, <2>2
    <3> QED
      BY <3>1, <3>2 DEF StrictOrder
  <2>3. Differ(R, a, c, n)
    BY <1>4, <2>1, <2>2 DEF Differ
  <2> QED
    BY <2>3 DEF Lex
<1>8. CASE m < n
  <2>1. m + 1 \in 1..n /\ m < Len(a) /\ m # Len(b) /\ \A i \in 1..m : a[i] = c[i]
    BY <1>1, <1>4, <1>5, <1>8
  <2>2. a[m + 1] = b[m + 1]
    BY <1>4, <2>1
  <2>3. Differ(R, a, c, m)
    BY <1>5, <2>1, <2>2 DEF Differ
  <2> QED
    BY <2>3 DEF Lex
<1> QED
  BY <1>6, <1>7, <1>8

(* It is total: different words have a first difference.                   *)
LEMMA LexTotal ==
  ASSUME NEW X, NEW R, StrictOrder(X, R), NEW a \in Seq(X), NEW b \in Seq(X), a # b
  PROVE  Lex(R, a, b) \/ Lex(R, b, a)
<1> DEFINE T == {i \in 1..Len(a) : i <= Len(b) /\ a[i] # b[i]}
<1>1. /\ Len(a) \in Nat /\ \A i \in 1..Len(a) : a[i] \in X
      /\ Len(b) \in Nat /\ \A i \in 1..Len(b) : b[i] \in X
  OBVIOUS
<1>2. CASE T # {}
  <2>1. T \in SUBSET Nat
    BY <1>1
  <2>2. PICK k \in T : \A y \in T : k <= y
    <3> HIDE DEF T
    <3> QED
      BY <1>2, <2>1, LeastNumber
  <2>3. /\ k \in 1..Len(a) /\ k \in 1..Len(b) /\ a[k] # b[k]
        /\ \A i \in 1..(k - 1) : a[i] = b[i]
    BY <1>1, <2>2
  <2> DEFINE n == k - 1
  <2>4. n \in Nat /\ n + 1 = k /\ n < Len(a) /\ n < Len(b) /\ \A i \in 1..n : a[i] = b[i]
    BY <1>1, <2>3
  <2>5. <<a[k], b[k]>> \in R \/ <<b[k], a[k]>> \in R
    BY <1>1, <2>3 DEF StrictOrder
  <2> HIDE DEF n
  <2>6. n <= Len(a) /\ n <= Len(b)
    BY <1>1, <2>4
  <2>7. Differ(R, a, b, n) \/ Differ(R, b, a, n)
    BY <2>4, <2>5, <2>6 DEF Differ
  <2> QED
    BY <2>4, <2>7 DEF Lex
<1>3. CASE T = {}
  <2>1. \A i \in 1..Len(a) : i <= Len(b) => a[i] = b[i]
    BY <1>3
  <2>2. Len(a) # Len(b)
    BY <1>1, <2>1, SeqEqual
  <2>3. CASE Len(a) < Len(b)
    <3>1. Differ(R, a, b, Len(a))
      BY <1>1, <2>1, <2>3 DEF Differ
    <3> QED
      BY <1>1, <3>1 DEF Lex
  <2>4. CASE Len(b) < Len(a)
    <3>1. Differ(R, b, a, Len(b))
      BY <1>1, <2>1, <2>4 DEF Differ
    <3> QED
      BY <1>1, <3>1 DEF Lex
  <2> QED
    BY <1>1, <2>2, <2>3, <2>4
<1> QED
  BY <1>2, <1>3

(* The order of integers.                                                  *)
IntLess == {x \in Int \X Int : x[1] < x[2]}

(* It is strict and total.                                                 *)
LEMMA IntOrder ==
  /\ StrictOrder(Int, IntLess)
  /\ \A x, y \in Int : <<x, y>> \in IntLess <=> x < y
<1>1. \A x, y \in Int : <<x, y>> \in IntLess <=> x < y
  BY DEF IntLess
<1> QED
  BY <1>1 DEF StrictOrder

(* Strings are ordered like words of integers.                             *)
LEMMA StringCmpLex ==
  ASSUME NEW s \in Seq(Int), NEW t \in Seq(Int)
  PROVE  StringCmp(s, t) = -1 <=> Lex(IntLess, s, t)
<1>1. /\ Len(s) \in Nat /\ \A i \in 1..Len(s) : s[i] \in Int
      /\ Len(t) \in Nat /\ \A i \in 1..Len(t) : t[i] \in Int
  OBVIOUS
<1> DEFINE P(n) == /\ n <= Len(t) /\ \A i \in 1..n : s[i] = t[i]
                   /\ n = Len(s) \/ (n < Len(t) /\ s[n + 1] < t[n + 1])
<1>2. StringCmp(s, t) = -1 <=> s # t /\ \E n \in 0..Len(s) : P(n)
  BY DEF StringCmp
<1>3. ASSUME s # t, NEW n \in 0..Len(s), P(n) PROVE Lex(IntLess, s, t)
  <2>1. n \in Nat /\ n <= Len(s) /\ n < Len(t)
    <3>1. CASE n = Len(s)
      <4>1. n # Len(t)
        BY <1>3, <3>1, SeqEqual
      <4> QED
        BY <1>1, <1>3, <3>1, <4>1
    <3>2. CASE n # Len(s)
      BY <1>1, <1>3, <3>2
    <3> QED
      BY <3>1, <3>2
  <2>2. n = Len(s) \/ <<s[n + 1], t[n + 1]>> \in IntLess
    <3>1. n # Len(s) => s[n + 1] \in Int /\ t[n + 1] \in Int
      BY <1>1, <2>1
    <3> QED
      BY <1>3, <3>1, IntOrder
  <2>3. Differ(IntLess, s, t, n)
    BY <1>3, <2>1, <2>2 DEF Differ
  <2> QED
    BY <2>1, <2>3 DEF Lex
<1>4. ASSUME Lex(IntLess, s, t) PROVE s # t /\ \E n \in 0..Len(s) : P(n)
  <2>1. s # t
    BY <1>4, LexStrict, IntOrder
  <2>2. PICK n \in Nat : Differ(IntLess, s, t, n)
    BY <1>4 DEF Lex
  <2>3. /\ n <= Len(s) /\ n < Len(t) /\ \A i \in 1..n : s[i] = t[i]
        /\ n = Len(s) \/ <<s[n + 1], t[n + 1]>> \in IntLess
    BY <2>2 DEF Differ
  <2>4. n # Len(s) => s[n + 1] < t[n + 1]
    <3>1. n # Len(s) => s[n + 1] \in Int /\ t[n + 1] \in Int
      BY <1>1, <2>3
    <3> QED
      BY <2>3, <3>1, IntOrder
  <2>5. n \in 0..Len(s) /\ P(n)
    BY <1>1, <2>3, <2>4
  <2> QED
    BY <2>1, <2>5
<1> HIDE DEF P
<1> QED
  BY <1>2, <1>3, <1>4

-----------------------------------------------------------------------------
(* Tokens are ordered by kind, then like strings.                          *)
Tokens == [kind : Int, key : Seq(Int)]
TokenOrder == {x \in Tokens \X Tokens : TokenLess(x[1], x[2])}

(* That order is strict and total.                                         *)
LEMMA TokenOrderStrict ==
  /\ StrictOrder(Tokens, TokenOrder)
  /\ \A x, y \in Tokens : <<x, y>> \in TokenOrder <=> TokenLess(x, y)
<1>1. \A x, y \in Tokens : <<x, y>> \in TokenOrder <=> TokenLess(x, y)
  BY DEF TokenOrder
<1>2. \A x \in Tokens : x.kind \in Int /\ x.key \in Seq(Int)
  BY DEF Tokens
<1>3. \A x, y \in Tokens :
        TokenLess(x, y) <=> \/ x.kind < y.kind
                            \/ x.kind = y.kind /\ Lex(IntLess, x.key, y.key)
  BY <1>2, StringCmpLex DEF TokenLess
<1>4. ASSUME NEW x \in Tokens PROVE <<x, x>> \notin TokenOrder
  <2>1. ~Lex(IntLess, x.key, x.key)
    BY <1>2, LexStrict, IntOrder
  <2> QED
    BY <1>1, <1>2, <1>3, <2>1
<1>5. ASSUME NEW x \in Tokens, NEW y \in Tokens, NEW z \in Tokens,
             <<x, y>> \in TokenOrder, <<y, z>> \in TokenOrder
      PROVE  <<x, z>> \in TokenOrder
  <2>1. TokenLess(x, y) /\ TokenLess(y, z)
    BY <1>1, <1>5
  <2>2. Lex(IntLess, x.key, y.key) /\ Lex(IntLess, y.key, z.key) => Lex(IntLess, x.key, z.key)
    BY <1>2, LexTransitive, IntOrder
  <2>3. x.kind \in Int /\ y.kind \in Int /\ z.kind \in Int
    BY <1>2
  <2>4. TokenLess(x, z)
    BY <1>3, <2>1, <2>2, <2>3
  <2> QED
    BY <1>1, <2>4
<1>6. ASSUME NEW x \in Tokens, NEW y \in Tokens
      PROVE  x = y \/ <<x, y>> \in TokenOrder \/ <<y, x>> \in TokenOrder
  <2>1. x.kind \in Int /\ y.kind \in Int /\ x.key \in Seq(Int) /\ y.key \in Seq(Int)
    BY <1>2
  <2>2. x.key = y.key \/ Lex(IntLess, x.key, y.key) \/ Lex(IntLess, y.key, x.key)
    BY <2>1, LexTotal, IntOrder
  <2>3. x.kind = y.kind /\ x.key = y.key => x = y
    BY DEF Tokens
  <2>4. x = y \/ TokenLess(x, y) \/ TokenLess(y, x)
    BY <1>3, <2>1, <2>2, <2>3
  <2> QED
    BY <1>1, <2>4
<1> QED
  BY <1>1, <1>4, <1>5, <1>6 DEF StrictOrder

(* A run of characters of one kind has an end.                             *)
LEMMA RunEndFacts ==
  ASSUME NEW s \in Seq(Chars), NEW i \in 1..Len(s)
  PROVE  RunEnd(s, i) \in i..Len(s) /\ \A j \in i..RunEnd(s, i) : Kind(s[j]) = Kind(s[i])
<1> DEFINE T == {m \in i..Len(s) : m < Len(s) => Kind(s[m + 1]) # Kind(s[i])}
<1>1. Len(s) \in Nat /\ i \in Nat
  OBVIOUS
<1>2. Len(s) \in T /\ T \in SUBSET Nat
  BY <1>1
<1>3. PICK m \in T : \A y \in T : m <= y
  <2> HIDE DEF T
  <2> QED
    BY <1>2, LeastNumber
<1>4. m \in i..Len(s) /\ (m < Len(s) => Kind(s[m + 1]) # Kind(s[i]))
  BY <1>3
<1>5. ASSUME NEW j \in i..m PROVE Kind(s[j]) = Kind(s[i])
  <2>1. SUFFICES ASSUME Kind(s[j]) # Kind(s[i]) PROVE FALSE
    OBVIOUS
  <2>2. j # i
    BY <2>1
  <2>3. j - 1 \in i..Len(s) /\ (j - 1) + 1 = j /\ ~(m <= j - 1)
    BY <1>1, <1>4, <2>2
  <2>4. j - 1 \in T
    BY <2>1, <2>3
  <2> HIDE DEF T
  <2> QED
    BY <1>3, <2>3, <2>4
<1>6. RunEnd(s, i) = m
  BY <1>4, <1>5, RunEndIs
<1> QED
  BY <1>4, <1>5, <1>6

(* What starts a token is one, and not the end.                            *)
LEMMA TokenAtFacts ==
  ASSUME NEW s \in Seq(Chars), NEW i \in 1..Len(s), TokenStarts(s, i)
  PROVE  TokenAt(s, i) \in Tokens /\ TokenAt(s, i).kind # 1
<1> DEFINE m == RunEnd(s, i)
           r == SubSeq(s, i, m)
<1>1. Len(s) \in Nat /\ i \in Nat /\ \A j \in 1..Len(s) : s[j] \in Chars
  OBVIOUS
<1>2. Kind(s[i]) \in {0, 2, 3}
  BY <1>1, KindFacts DEF TokenStarts
<1>3. m \in i..Len(s) /\ \A j \in i..m : Kind(s[j]) = Kind(s[i])
  BY RunEndFacts
<1> HIDE DEF m
<1>4. \A j \in i..m : s[j] \in Chars /\ (Kind(s[i]) = 3 => s[j] \in Digits)
  <2>1. ASSUME NEW j \in i..m PROVE s[j] \in Chars /\ (Kind(s[i]) = 3 => s[j] \in Digits)
    <3>1. s[j] \in Chars /\ Kind(s[j]) = Kind(s[i])
      BY <1>1, <1>3
    <3> QED
      BY <3>1, KindFacts
  <2> QED
    BY <2>1
<1>5. /\ r \in Seq(Chars)
      /\ Kind(s[i]) = 3 => r \in Seq(Digits)
  <2>1. \A S : (\A j \in i..m : s[j] \in S) => r \in Seq(S)
    BY <1>1, <1>3, SubSeqProperties
  <2> HIDE DEF r
  <2> QED
    BY <1>4, <2>1
<1>6. r \in Seq(Int)
  <2>1. Chars \subseteq Int
    BY DEF Chars
  <2> HIDE DEF r
  <2> QED
    BY <1>5, <2>1, SeqMonotonic
<1>7. CASE Kind(s[i]) = 3
  <2>1. Value(r) \in Nat
    <3>1. r \in Seq(Digits)
      BY <1>5, <1>7
    <3> HIDE DEF r
    <3>2. Len(r) \in 0..Len(r)
      BY <3>1
    <3> QED
      BY <3>1, <3>2, ValuesFacts DEF Value
  <2>2. <<Value(r)>> \in Seq(Int)
    BY <2>1
  <2>3. TokenAt(s, i) = [kind |-> 3, key |-> <<Value(r)>>]
    BY <1>7, TokenIs DEF m
  <2> HIDE DEF r
  <2> QED
    BY <2>2, <2>3 DEF Tokens
<1>8. CASE Kind(s[i]) = 2
  <2>1. TokenAt(s, i) = [kind |-> 2, key |-> r]
    BY <1>8, TokenIs DEF m
  <2> HIDE DEF r
  <2> QED
    BY <1>6, <2>1 DEF Tokens
<1>9. CASE Kind(s[i]) = 0
  <2>1. TokenAt(s, i) = [kind |-> 0, key |-> <<>>]
    BY <1>9 DEF TokenAt
  <2> QED
    BY <2>1 DEF Tokens
<1> QED
  BY <1>2, <1>7, <1>8, <1>9

(* A sequence of tokens that ends with End, which is nowhere else.         *)
IsWord(w) ==
  /\ w \in Seq(Tokens) /\ Len(w) >= 1 /\ w[Len(w)].kind = 1
  /\ \A i \in 1..(Len(w) - 1) : w[i].kind # 1

(* The tokens of a string are one.                                         *)
LEMMA WordOfString ==
  ASSUME NEW s \in Seq(Chars)
  PROVE  IsWord(TokensFrom(s)[1])
<1> DEFINE from == TokensFrom(s)
           S == {n \in Nat : n <= Len(s) => IsWord(from[Len(s) + 1 - n])}
<1>1. Len(s) \in Nat
  OBVIOUS
<1>2. /\ from[Len(s) + 1] = <<End>>
      /\ \A i \in 1..Len(s) : from[i] =
           IF TokenStarts(s, i) THEN <<TokenAt(s, i)>> \o from[i + 1] ELSE from[i + 1]
  BY TokensFacts
<1> HIDE DEF from
<1>3. 0 \in S
  <2>1. IsWord(<<End>>)
    <3>1. End \in Tokens /\ End.kind = 1
      BY DEF End, Tokens
    <3> QED
      BY <3>1 DEF IsWord
  <2>2. Len(s) + 1 - 0 = Len(s) + 1
    BY <1>1
  <2> QED
    BY <1>2, <2>1, <2>2
<1>4. ASSUME NEW n \in Nat, n \in S PROVE n + 1 \in S
  <2>1. SUFFICES ASSUME n + 1 <= Len(s) PROVE IsWord(from[Len(s) + 1 - (n + 1)])
    OBVIOUS
  <2>2. PICK i \in 1..Len(s) : i = Len(s) + 1 - (n + 1) /\ i + 1 = Len(s) + 1 - n
    BY <1>1, <2>1
  <2>3. IsWord(from[i + 1])
    BY <1>1, <1>4, <2>1, <2>2
  <2>4. CASE TokenStarts(s, i)
    <3> DEFINE x == TokenAt(s, i)
               w == from[i + 1]
               v == <<x>> \o w
    <3>1. x \in Tokens /\ x.kind # 1 /\ from[i] = v
      BY <1>2, <2>4, TokenAtFacts
    <3> HIDE DEF x, w
    <3>2. /\ w \in Seq(Tokens) /\ Len(w) >= 1 /\ w[Len(w)].kind = 1 /\ Len(w) \in Nat
          /\ \A j \in 1..(Len(w) - 1) : w[j].kind # 1
      BY <2>3 DEF IsWord, w
    <3>3. <<x>> \in Seq(Tokens) /\ Len(<<x>>) = 1 /\ <<x>>[1] = x
      BY <3>1
    <3>4. /\ v \in Seq(Tokens) /\ Len(v) = Len(<<x>>) + Len(w)
          /\ \A j \in 1..(Len(<<x>>) + Len(w)) :
               v[j] = IF j <= Len(<<x>>) THEN <<x>>[j] ELSE w[j - Len(<<x>>)]
      BY <3>2, <3>3, ConcatProperties
    <3> HIDE DEF v
    <3>5. /\ Len(v) = Len(w) + 1 /\ v[1] = x
          /\ \A j \in 2..(Len(w) + 1) : v[j] = w[j - 1]
      BY <3>2, <3>3, <3>4
    <3>6. v[Len(v)].kind = 1
      <4>1. Len(v) \in 2..(Len(w) + 1) /\ Len(v) - 1 = Len(w)
        BY <3>2, <3>5
      <4> QED
        BY <3>2, <3>5, <4>1
    <3>7. ASSUME NEW j \in 1..(Len(v) - 1) PROVE v[j].kind # 1
      <4>1. CASE j = 1
        BY <3>1, <3>5, <4>1
      <4>2. CASE j # 1
        <5>1. j \in 2..(Len(w) + 1) /\ j - 1 \in 1..(Len(w) - 1)
          BY <3>2, <3>5, <4>2
        <5> QED
          BY <3>2, <3>5, <5>1
      <4> QED
        BY <4>1, <4>2
    <3>8. IsWord(v)
      BY <3>2, <3>4, <3>5, <3>6, <3>7 DEF IsWord
    <3> QED
      BY <2>2, <3>1, <3>8
  <2>5. CASE ~TokenStarts(s, i)
    BY <1>2, <2>2, <2>3, <2>5
  <2> QED
    BY <2>4, <2>5
<1>5. \A n \in Nat : n \in S
  <2> HIDE DEF S
  <2> QED
    BY <1>3, <1>4, Induction
<1>6. IsWord(from[Len(s) + 1 - Len(s)]) /\ Len(s) + 1 - Len(s) = 1
  BY <1>1, <1>5
<1> QED
  BY <1>6 DEF from

(* So none begins another one, and WordCmp is the order of words.          *)
LEMMA WordCmpLex ==
  ASSUME NEW a, NEW b, IsWord(a), IsWord(b)
  PROVE  /\ WordCmp(a, b) = 0 <=> a = b
         /\ WordCmp(a, b) = -1 <=> Lex(TokenOrder, a, b)
         /\ WordCmp(a, b) \in {-1, 0, 1}
<1>1. /\ a \in Seq(Tokens) /\ Len(a) \in Nat /\ DOMAIN a = 1..Len(a)
      /\ b \in Seq(Tokens) /\ Len(b) \in Nat /\ DOMAIN b = 1..Len(b)
      /\ \A i \in 1..Len(a) : a[i] \in Tokens
      /\ \A i \in 1..Len(b) : b[i] \in Tokens
  BY DEF IsWord
<1>2. /\ Len(a) >= 1 /\ a[Len(a)].kind = 1 /\ \A i \in 1..(Len(a) - 1) : a[i].kind # 1
      /\ Len(b) >= 1 /\ b[Len(b)].kind = 1 /\ \A i \in 1..(Len(b) - 1) : b[i].kind # 1
  BY DEF IsWord
<1> DEFINE P(i) == /\ i \in DOMAIN b /\ \A j \in 1..(i - 1) : a[j] = b[j]
                   /\ TokenLess(a[i], b[i])
<1>3. WordCmp(a, b) = IF a = b THEN 0 ELSE IF \E i \in DOMAIN a : P(i) THEN -1 ELSE 1
  BY DEF WordCmp
<1>4. ASSUME NEW i \in DOMAIN a, P(i) PROVE Lex(TokenOrder, a, b)
  <2> DEFINE n == i - 1
  <2>1. /\ n \in Nat /\ n + 1 = i /\ n <= Len(a) /\ n < Len(b)
        /\ \A j \in 1..n : a[j] = b[j]
    BY <1>1, <1>4
  <2>2. <<a[i], b[i]>> \in TokenOrder
    BY <1>1, <1>4, TokenOrderStrict
  <2> HIDE DEF n, P
  <2>3. Differ(TokenOrder, a, b, n)
    BY <2>1, <2>2 DEF Differ
  <2> QED
    BY <2>1, <2>3 DEF Lex
<1>5. ASSUME Lex(TokenOrder, a, b) PROVE a # b /\ \E i \in DOMAIN a : P(i)
  <2>1. a # b
    BY <1>1, <1>5, LexStrict, TokenOrderStrict
  <2>2. PICK n \in Nat : Differ(TokenOrder, a, b, n)
    BY <1>5 DEF Lex
  <2>3. /\ n <= Len(a) /\ n < Len(b) /\ \A i \in 1..n : a[i] = b[i]
        /\ n = Len(a) \/ <<a[n + 1], b[n + 1]>> \in TokenOrder
    BY <2>2 DEF Differ
  <2>4. n # Len(a)
    <3>1. SUFFICES ASSUME n = Len(a) PROVE FALSE
      OBVIOUS
    <3>2. n \in 1..n /\ n \in 1..(Len(b) - 1)
      BY <1>1, <1>2, <2>3, <3>1
    <3>3. a[n] = b[n] /\ a[n].kind = 1
      BY <1>2, <2>3, <3>1, <3>2
    <3> QED
      BY <1>2, <3>2, <3>3
  <2>5. n + 1 \in 1..Len(a) /\ n + 1 \in 1..Len(b) /\ (n + 1) - 1 = n
    <3>1. Len(a) \in Nat /\ Len(b) \in Nat /\ n <= Len(a) /\ n < Len(b)
      BY <1>1, <2>3, Zenon
    <3> QED
      BY <2>4, <3>1
  <2>6. TokenLess(a[n + 1], b[n + 1])
    BY <1>1, <2>3, <2>4, <2>5, TokenOrderStrict, Zenon
  <2>7. n + 1 \in DOMAIN a /\ P(n + 1)
    BY <1>1, <2>3, <2>5, <2>6, Zenon
  <2> QED
    BY <2>1, <2>7
<1> HIDE DEF P
<1> QED
  BY <1>3, <1>4, <1>5

(* What Vercmp computes (vercmp.go:51) is a total preorder of versions,    *)
(* whatever the strings, so that sort may be given it (vercmp.go:30-49):   *)
(* swapping the arguments negates the result, and not being greater is     *)
(* transitive.                                                             *)
THEOREM VersionsOrdered ==
  \A r, s, t \in Seq(Chars) :
    /\ VersionCmp(s, s) = 0
    /\ VersionCmp(s, t) \in {-1, 0, 1} /\ VersionCmp(t, s) = -VersionCmp(s, t)
    /\ VersionCmp(r, s) <= 0 /\ VersionCmp(s, t) <= 0 => VersionCmp(r, t) <= 0
<1> SUFFICES ASSUME NEW r \in Seq(Chars), NEW s \in Seq(Chars), NEW t \in Seq(Chars)
             PROVE  /\ VersionCmp(s, s) = 0
                    /\ VersionCmp(s, t) \in {-1, 0, 1} /\ VersionCmp(t, s) = -VersionCmp(s, t)
                    /\ VersionCmp(r, s) <= 0 /\ VersionCmp(s, t) <= 0 => VersionCmp(r, t) <= 0
  OBVIOUS
<1> DEFINE a == TokensFrom(r)[1]
           b == TokensFrom(s)[1]
           c == TokensFrom(t)[1]
           W == {a, b, c}
           R == TokenOrder
<1>1. \A w \in W : IsWord(w) /\ w \in Seq(Tokens)
  BY WordOfString DEF IsWord
<1>2. /\ VersionCmp(s, s) = WordCmp(b, b) /\ VersionCmp(s, t) = WordCmp(b, c)
      /\ VersionCmp(t, s) = WordCmp(c, b) /\ VersionCmp(r, s) = WordCmp(a, b)
      /\ VersionCmp(r, t) = WordCmp(a, c)
  BY DEF VersionCmp
<1> HIDE DEF a, b, c, R
<1>3. \A x, y \in W : /\ WordCmp(x, y) = 0 <=> x = y
                      /\ WordCmp(x, y) = -1 <=> Lex(R, x, y)
                      /\ WordCmp(x, y) \in {-1, 0, 1}
  BY <1>1, WordCmpLex DEF R
<1>4. \A x \in W : ~Lex(R, x, x)
  BY <1>1, LexStrict, TokenOrderStrict DEF R
<1>5. \A x, y, z \in W : Lex(R, x, y) /\ Lex(R, y, z) => Lex(R, x, z)
  BY <1>1, LexTransitive, TokenOrderStrict DEF R
<1>6. \A x, y \in W : x = y \/ Lex(R, x, y) \/ Lex(R, y, x)
  BY <1>1, LexTotal, TokenOrderStrict DEF R
<1>7. a \in W /\ b \in W /\ c \in W
  OBVIOUS
<1> HIDE DEF W
<1>8. \A x, y \in W : WordCmp(y, x) = -WordCmp(x, y)
  BY <1>3, <1>4, <1>5, <1>6
<1>9. \A x, y \in W : WordCmp(x, y) <= 0 <=> x = y \/ Lex(R, x, y)
  BY <1>3
<1>10. WordCmp(a, b) <= 0 /\ WordCmp(b, c) <= 0 => WordCmp(a, c) <= 0
  BY <1>5, <1>7, <1>9
<1> QED
  BY <1>2, <1>3, <1>7, <1>8, <1>10

=============================================================================
