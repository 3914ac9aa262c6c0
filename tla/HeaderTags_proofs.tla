------------------------- MODULE HeaderTags_proofs --------------------------
(***************************************************************************)
(* Proofs about HeaderTags for every set of packages that are built as rpm *)
(* builds them, with any number of tags, values and files, and for bytes   *)
(* of any even number of values (256 among them).                          *)
(***************************************************************************)
EXTENDS HeaderTags, SequenceTheorems, WellFoundedInduction, TLAPS

-----------------------------------------------------------------------------
(* Induction, for a set: one that does not contain every number would have *)
(* a least one missing.                                                    *)
LEMMA Induction ==
  ASSUME NEW S, 0 \in S, \A n \in Nat : n \in S => n + 1 \in S
  PROVE  \A n \in Nat : n \in S
<1> DEFINE T == Nat \ S
<1>1. SUFFICES ASSUME T # {} PROVE FALSE
  OBVIOUS
<1>2. PICK x \in T : \A y \in T : ~(<<y, x>> \in OpToRel(<, Nat))
  <2>1. IsWellFoundedOn(OpToRel(<, Nat), Nat)
    BY NatLessThanWellFounded, Zenon
  <2>2. T \in SUBSET Nat
    OBVIOUS
  <2> HIDE DEF T
  <2> QED
    BY <1>1, <2>1, <2>2, WFMin, Zenon
<1>3. x - 1 \in Nat /\ x - 1 < x
  OBVIOUS
<1>4. x - 1 \in S
  BY <1>2, <1>3 DEF OpToRel
<1> QED
  BY <1>3, <1>4

(* A function on 0..N of which each value is computed from the one before. *)
LEMMA Recursion ==
  ASSUME NEW N \in Nat, NEW a \in Nat, NEW F \in [1..N -> [Nat -> Nat]]
  PROVE  \E g \in [0..N -> Nat] :
           g[0] = a /\ \A n \in 1..N : g[n] = F[n][g[n - 1]]
<1> DEFINE Good(g, m) == /\ g \in [0..m -> Nat] /\ g[0] = a
                         /\ \A n \in 1..m : g[n] = F[n][g[n - 1]]
           S == {m \in Nat : m <= N => \E g : Good(g, m)}
<1>1. 0 \in S
  <2>1. Good([n \in 0..0 |-> a], 0)
    OBVIOUS
  <2> QED
    BY <2>1
<1>2. ASSUME NEW m \in Nat, m \in S PROVE m + 1 \in S
  <2> HIDE DEF Good
  <2>1. SUFFICES ASSUME m + 1 <= N PROVE \E g : Good(g, m + 1)
    OBVIOUS
  <2>7. PICK g : Good(g, m)
    BY <1>2, <2>1
  <2>2. /\ g \in [0..m -> Nat] /\ g[0] = a
        /\ \A n \in 1..m : g[n] = F[n][g[n - 1]]
    BY <2>7 DEF Good
  <2> DEFINE h == [n \in 0..(m + 1) |-> IF n <= m THEN g[n] ELSE F[m + 1][g[m]]]
  <2>3. F[m + 1][g[m]] \in Nat
    <3>1. m + 1 \in 1..N /\ g[m] \in Nat
      BY <2>1, <2>2
    <3> QED
      BY <3>1
  <2>4. h \in [0..(m + 1) -> Nat] /\ h[0] = a
    <3>1. \A n \in 0..(m + 1) : n <= m => g[n] \in Nat
      BY <2>2
    <3>2. h \in [0..(m + 1) -> Nat]
      BY <2>3, <3>1
    <3>3. 0 \in 0..(m + 1) /\ 0 <= m
      OBVIOUS
    <3>4. h[0] = g[0]
      BY <3>3
    <3> QED
      BY <2>2, <3>2, <3>4, Zenon
  <2>5. ASSUME NEW n \in 1..(m + 1) PROVE h[n] = F[n][h[n - 1]]
    <3>1. CASE n = m + 1
      <4>1. h[n] = F[m + 1][g[m]] /\ n - 1 = m /\ h[m] = g[m]
        BY <3>1
      <4> QED
        BY <3>1, <4>1
    <3>2. CASE n # m + 1
      <4>1. n \in 1..m /\ h[n] = g[n] /\ h[n - 1] = g[n - 1]
        BY <3>2
      <4> QED
        BY <2>2, <4>1
    <3> QED
      BY <3>1, <3>2
  <2> HIDE DEF h
  <2>6. Good(h, m + 1)
    BY <2>4, <2>5 DEF Good
  <2> QED
    BY <2>6
<1>3. \A m \in Nat : m \in S
  <2> HIDE DEF S
  <2> QED
    BY <1>1, <1>2, Induction
<1>4. PICK g : Good(g, N)
  <2> HIDE DEF Good
  <2>1. N \in S
    BY <1>3
  <2> QED
    BY <2>1
<1> QED
  BY <1>4

-----------------------------------------------------------------------------
(* The powers of Base.                                                     *)
LEMMA PowerFacts ==
  /\ Power[0] = 1
  /\ \A n \in 1..8 : Power[n] = Base * Power[n - 1]
  /\ \A n \in 0..8 : Power[n] \in Nat
<1> DEFINE Eq(g) == g = [n \in 0..8 |-> IF n = 0 THEN 1 ELSE Base * g[n - 1]]
           F == [n \in 1..8 |-> [y \in Nat |-> Base * y]]
<1>1. F \in [1..8 -> [Nat -> Nat]]
  BY BaseAssumption
<1>2. PICK g \in [0..8 -> Nat] : g[0] = 1 /\ \A n \in 1..8 : g[n] = F[n][g[n - 1]]
  <2>1. 8 \in Nat /\ 1 \in Nat
    OBVIOUS
  <2> HIDE DEF F
  <2> QED
    BY <1>1, <2>1, Recursion
<1>3. Eq(g)
  <2>1. \A n \in 1..8 : g[n] = Base * g[n - 1]
    BY <1>2
  <2> QED
    BY <1>2, <2>1
<1>4. Power = CHOOSE u : Eq(u)
  BY Zenon DEF Power
<1>5. Eq(Power)
  BY <1>3, <1>4, Zenon
<1>6. Power[0] = 1 /\ \A n \in 1..8 : Power[n] = Base * Power[n - 1]
  BY <1>5
<1> DEFINE S == {n \in Nat : n <= 8 => Power[n] \in Nat}
<1>7. 0 \in S
  BY <1>6
<1>8. ASSUME NEW n \in Nat, n \in S PROVE n + 1 \in S
  <2>1. SUFFICES ASSUME n + 1 <= 8 PROVE Power[n + 1] \in Nat
    OBVIOUS
  <2>2. Power[n] \in Nat /\ Power[n + 1] = Base * Power[n]
    BY <1>6, <1>8, <2>1
  <2> QED
    BY <2>2, BaseAssumption
<1>9. \A n \in Nat : n \in S
  <2> HIDE DEF S
  <2> QED
    BY <1>7, <1>8, Induction
<1> QED
  BY <1>6, <1>9

(* What is left of a number without its last bytes.                        *)
LEMMA ShiftedFacts ==
  ASSUME NEW x \in Nat
  PROVE  /\ Shifted(x)[0] = x
         /\ \A n \in 1..8 : Shifted(x)[n] = Shifted(x)[n - 1] \div Base
         /\ \A n \in 0..8 : Shifted(x)[n] \in Nat
<1> DEFINE Eq(g) == g = [n \in 0..8 |-> IF n = 0 THEN x ELSE g[n - 1] \div Base]
           F == [n \in 1..8 |-> [y \in Nat |-> y \div Base]]
           q == Shifted(x)
<1>1. F \in [1..8 -> [Nat -> Nat]]
  <2>1. \A y \in Nat : y \div Base \in Nat
    BY BaseAssumption
  <2> QED
    BY <2>1
<1>2. PICK g \in [0..8 -> Nat] : g[0] = x /\ \A n \in 1..8 : g[n] = F[n][g[n - 1]]
  <2>1. 8 \in Nat /\ 1 \in Nat
    OBVIOUS
  <2> HIDE DEF F
  <2> QED
    BY <1>1, <2>1, Recursion
<1>3. Eq(g)
  <2>1. \A n \in 1..8 : g[n] = g[n - 1] \div Base
    BY <1>2
  <2> QED
    BY <1>2, <2>1
<1>4. q = CHOOSE u : Eq(u)
  BY Zenon DEF Shifted
<1>5. Eq(q)
  BY <1>3, <1>4, Zenon
<1> HIDE DEF q
<1>6. q[0] = x /\ \A n \in 1..8 : q[n] = q[n - 1] \div Base
  BY <1>5
<1> DEFINE S == {n \in Nat : n <= 8 => q[n] \in Nat}
<1>7. 0 \in S
  BY <1>6
<1>8. ASSUME NEW n \in Nat, n \in S PROVE n + 1 \in S
  <2>1. SUFFICES ASSUME n + 1 <= 8 PROVE q[n + 1] \in Nat
    OBVIOUS
  <2> DEFINE y == q[n]
  <2>2. y \in Nat /\ q[n + 1] = y \div Base
    BY <1>6, <1>8, <2>1
  <2> HIDE DEF y
  <2> QED
    BY <2>2, BaseAssumption
<1>9. \A n \in Nat : n \in S
  <2> HIDE DEF S
  <2> QED
    BY <1>7, <1>8, Induction
<1> QED
  BY <1>6, <1>9 DEF q

(* The number that bytes make up.                                          *)
LEMMA BigEndianFacts ==
  ASSUME NEW b \in Seq(Nat)
  PROVE  /\ BigEndian(b)[0] = 0
         /\ \A n \in 1..Len(b) : BigEndian(b)[n] = Base * BigEndian(b)[n - 1] + b[n]
<1> DEFINE Eq(g) == g = [n \in 0..Len(b) |-> IF n = 0 THEN 0 ELSE Base * g[n - 1] + b[n]]
           F == [n \in 1..Len(b) |-> [y \in Nat |-> Base * y + b[n]]]
           v == BigEndian(b)
<1>1. F \in [1..Len(b) -> [Nat -> Nat]] /\ Len(b) \in Nat
  <2>1. ASSUME NEW n \in 1..Len(b) PROVE [y \in Nat |-> Base * y + b[n]] \in [Nat -> Nat]
    <3>1. b[n] \in Nat
      OBVIOUS
    <3>2. \A y, c \in Nat : Base * y + c \in Nat
      BY BaseAssumption
    <3> QED
      BY <3>1, <3>2
  <2>2. F \in [1..Len(b) -> [Nat -> Nat]]
    BY <2>1, Zenon
  <2>3. Len(b) \in Nat
    BY LenProperties
  <2> QED
    BY <2>2, <2>3, Zenon
<1>2. PICK g \in [0..Len(b) -> Nat] : g[0] = 0 /\ \A n \in 1..Len(b) : g[n] = F[n][g[n - 1]]
  <2>1. 0 \in Nat
    OBVIOUS
  <2> HIDE DEF F
  <2> QED
    BY <1>1, <2>1, Recursion
<1>3. Eq(g)
  <2>1. ASSUME NEW n \in 1..Len(b) PROVE g[n] = Base * g[n - 1] + b[n]
    <3>2. n - 1 \in 0..Len(b)
      BY <1>1
    <3>1. g[n - 1] \in Nat
      BY <3>2
    <3> QED
      BY <1>2, <3>1
  <2>2. ASSUME NEW n \in 0..Len(b) PROVE g[n] = IF n = 0 THEN 0 ELSE Base * g[n - 1] + b[n]
    BY <1>1, <1>2, <2>1
  <2> QED
    BY <2>2
<1>4. v = CHOOSE u : Eq(u)
  BY Zenon DEF BigEndian
<1>5. Eq(v)
  BY <1>3, <1>4, Zenon
<1> HIDE DEF v
<1>6. v[0] = 0 /\ \A n \in 1..Len(b) : v[n] = Base * v[n - 1] + b[n]
  BY <1>1, <1>5
<1> QED
  BY <1>6 DEF v

(* Dividing.                                                               *)
LEMMA Division ==
  \A x \in Nat :
    /\ x \div Base \in Nat /\ x % Base \in Nat
    /\ Base * (x \div Base) + (x % Base) = x
    /\ \A y \in Nat : x < Base * y => x \div Base < y
BY BaseAssumption

(* A number that fits in w bytes is gone without its last w bytes.         *)
LEMMA NothingLeft ==
  ASSUME NEW x \in Nat, NEW w \in 0..8, x < Power[w]
  PROVE  Shifted(x)[w] = 0
<1> DEFINE q == Shifted(x)
           S == {n \in Nat : n <= w => q[n] < Power[w - n]}
<1>1. /\ q[0] = x /\ \A n \in 1..8 : q[n] = q[n - 1] \div Base
      /\ \A n \in 0..8 : q[n] \in Nat
  BY ShiftedFacts
<1>2. /\ Power[0] = 1 /\ \A n \in 1..8 : Power[n] = Base * Power[n - 1]
      /\ \A n \in 0..8 : Power[n] \in Nat
  BY PowerFacts
<1> HIDE DEF q
<1>3. 0 \in S
  <2>1. w - 0 = w
    OBVIOUS
  <2> QED
    BY <1>1, <2>1
<1>4. ASSUME NEW n \in Nat, n \in S PROVE n + 1 \in S
  <2>1. SUFFICES ASSUME n + 1 <= w PROVE q[n + 1] < Power[w - (n + 1)]
    OBVIOUS
  <2> DEFINE y == q[n]
             z == Power[w - (n + 1)]
  <2>2. n + 1 \in 1..8 /\ n \in 0..8 /\ w - n \in 1..8 /\ w - (n + 1) \in 0..8
        /\ (w - n) - 1 = w - (n + 1) /\ (n + 1) - 1 = n
    BY <2>1
  <2>3. y \in Nat /\ z \in Nat /\ q[n + 1] = y \div Base
    BY <1>1, <1>2, <2>2
  <2>4. y < Power[w - n] /\ Power[w - n] = Base * z
    BY <1>2, <1>4, <2>1, <2>2
  <2> HIDE DEF y, z
  <2>5. y \div Base < z
    BY <2>3, <2>4, Division
  <2> QED
    BY <2>3, <2>5 DEF z
<1>5. \A n \in Nat : n \in S
  <2> HIDE DEF S
  <2> QED
    BY <1>3, <1>4, Induction
<1>6. w \in S /\ w \in Nat /\ w - w = 0
  BY <1>5
<1>7. q[w] < 1 /\ q[w] \in Nat
  BY <1>1, <1>2, <1>6
<1> QED
  BY <1>7 DEF q

(* Reading back the bytes of a number gives the number.                    *)
LEMMA RoundTrip ==
  ASSUME NEW x \in Nat, NEW w \in 0..8, x < Power[w], NEW b \in Seq(Nat), Len(b) = w,
         \A j \in 1..w : b[j] = Shifted(x)[w - j] % Base
  PROVE  BigEndian(b)[w] = x
<1> DEFINE q == Shifted(x)
           v == BigEndian(b)
           S == {n \in Nat : n <= w => v[n] = q[w - n]}
<1>1. /\ q[0] = x /\ \A n \in 1..8 : q[n] = q[n - 1] \div Base
      /\ \A n \in 0..8 : q[n] \in Nat
  BY ShiftedFacts
<1>2. v[0] = 0 /\ \A n \in 1..w : v[n] = Base * v[n - 1] + b[n]
  BY BigEndianFacts
<1>3. q[w] = 0
  BY NothingLeft
<1>4. \A j \in 1..w : b[j] = q[w - j] % Base
  OBVIOUS
<1> HIDE DEF q, v
<1>5. 0 \in S
  <2>1. w - 0 = w
    OBVIOUS
  <2> QED
    BY <1>2, <1>3, <2>1
<1>6. ASSUME NEW n \in Nat, n \in S PROVE n + 1 \in S
  <2>1. SUFFICES ASSUME n + 1 <= w PROVE v[n + 1] = q[w - (n + 1)]
    OBVIOUS
  <2> DEFINE y == q[w - (n + 1)]
  <2>2. n + 1 \in 1..w /\ w - n \in 1..8 /\ w - (n + 1) \in 0..8
        /\ (w - n) - 1 = w - (n + 1) /\ (n + 1) - 1 = n
    BY <2>1
  <2>3. y \in Nat /\ q[w - n] = y \div Base
    BY <1>1, <2>2
  <2>4. v[n] = q[w - n] /\ b[n + 1] = y % Base
    BY <1>4, <1>6, <2>1, <2>2
  <2>5. v[n + 1] = Base * v[n] + b[n + 1]
    BY <1>2, <2>2
  <2> HIDE DEF y
  <2>6. Base * (y \div Base) + (y % Base) = y
    BY <2>3, Division
  <2>7. v[n + 1] = y
    BY <2>3, <2>4, <2>5, <2>6, Zenon
  <2> QED
    BY <2>7 DEF y
<1>7. \A n \in Nat : n \in S
  <2> HIDE DEF S
  <2> QED
    BY <1>5, <1>6, Induction
<1>8. w \in S /\ w \in Nat /\ w - w = 0
  BY <1>7
<1> QED
  BY <1>1, <1>8 DEF v

(* The widths.                                                             *)
LEMMA WidthFacts ==
  /\ IntTypes = {"CHAR", "INT8", "INT16", "INT32", "INT64"}
  /\ Width["CHAR"] = 1 /\ Width["INT8"] = 1 /\ Width["INT16"] = 2 /\ Width["INT32"] = 4
  /\ Width["INT64"] = 8
  /\ \A t \in IntTypes : Width[t] \in {1, 2, 4, 8}
BY DEF IntTypes, Width

(* Where the bytes of the i-th value are.                                  *)
LEMMA Places ==
  ASSUME NEW w \in {1, 2, 4, 8}, NEW n \in Nat
  PROVE  /\ (w * n) \div w = n /\ w * n \in Nat
         /\ \A i \in 1..n, j \in 1..w :
              /\ ((i - 1) * w + 1) + j - 1 \in 1..(w * n)
              /\ (i - 1) * w + 1 >= 1 /\ i * w <= w * n /\ i * w - ((i - 1) * w + 1) + 1 = w
              /\ (((((i - 1) * w + 1) + j - 1) - 1) \div w) + 1 = i
              /\ ((((i - 1) * w + 1) + j - 1) - 1) % w = j - 1
<1>1. CASE w = 1
  BY <1>1
<1>2. CASE w = 2
  BY <1>2
<1>3. CASE w = 4
  BY <1>3
<1>4. CASE w = 8
  BY <1>4
<1> QED
  BY <1>1, <1>2, <1>3, <1>4

-----------------------------------------------------------------------------
(* What IsSeq says, with a set to range over.                              *)
LEMMA SeqFacts ==
  ASSUME NEW v, IsSeq(v)
  PROVE  /\ Len(v) \in Nat /\ DOMAIN v = 1..Len(v)
         /\ \E T : v \in Seq(T)
<1>1. Len(v) \in Nat /\ v = [i \in 1..Len(v) |-> v[i]]
  BY DEF IsSeq
<1> DEFINE T == {v[i] : i \in 1..Len(v)}
<1>2. DOMAIN v = 1..Len(v)
  BY <1>1
<1>3. v \in [1..Len(v) -> T]
  BY <1>1
<1>4. v \in Seq(T)
  <2> HIDE DEF T
  <2> QED
    BY <1>1, <1>3, SeqDef
<1> QED
  BY <1>1, <1>2, <1>4

(* The integers of a tag, encoded and read back, are those it was built    *)
(* with.                                                                   *)
LEMMA ReadBack ==
  ASSUME NEW e, EntryOK(e), e.type \in IntTypes
  PROVE  LET w == Width[e.type]
             c == Encode(e).contents
         IN  [i \in 1..(Len(c) \div w) |-> BigEndian(SubSeq(c, (i - 1) * w + 1, i * w))[w]] = e.vals
<1> DEFINE w == Width[e.type]
           n == Len(e.vals)
           c == [k \in 1..(w * n) |-> Shifted(e.vals[((k - 1) \div w) + 1])[(w - 1) - ((k - 1) % w)] % Base]
<1>1. Encode(e).contents = c
  BY DEF Encode
<1>2. w \in {1, 2, 4, 8} /\ w \in 0..8
  BY WidthFacts
<1>3. n \in Nat /\ DOMAIN e.vals = 1..n /\ e.vals = [i \in 1..n |-> e.vals[i]]
  BY SeqFacts DEF EntryOK, IsSeq
<1>4. \A i \in 1..n : e.vals[i] \in Nat /\ e.vals[i] < Power[w]
  BY <1>3 DEF EntryOK
<1> HIDE DEF w, n
<1>5. (w * n) \div w = n /\ w * n \in Nat
  BY <1>2, <1>3, Places
<1>6. \A k \in 1..(w * n) : c[k] \in Nat
  <2> SUFFICES ASSUME NEW k \in 1..(w * n) PROVE c[k] \in Nat
    OBVIOUS
  <2> DEFINE i == ((k - 1) \div w) + 1
             j == (w - 1) - ((k - 1) % w)
  <2>1. i \in 1..n /\ j \in 0..8
    <3>1. CASE w = 1
      BY <1>3, <3>1
    <3>2. CASE w = 2
      BY <1>3, <3>2
    <3>3. CASE w = 4
      BY <1>3, <3>3
    <3>4. CASE w = 8
      BY <1>3, <3>4
    <3> QED
      BY <1>2, <3>1, <3>2, <3>3, <3>4
  <2>2. c[k] = Shifted(e.vals[i])[j] % Base
    OBVIOUS
  <2> HIDE DEF i, j, c
  <2>3. e.vals[i] \in Nat
    BY <1>4, <2>1
  <2>4. Shifted(e.vals[i])[j] \in Nat
    BY <2>1, <2>3, ShiftedFacts
  <2> QED
    BY <2>2, <2>4, Division
<1>7. c \in Seq(Nat) /\ Len(c) = w * n
  <2>1. DOMAIN c = 1..(w * n) /\ c = [k \in 1..(w * n) |-> c[k]]
    OBVIOUS
  <2> HIDE DEF c
  <2>2. c \in [1..(w * n) -> Nat]
    BY <1>6, <2>1
  <2> QED
    BY <1>5, <2>2
<1>8. ASSUME NEW i \in 1..n
      PROVE  BigEndian(SubSeq(c, (i - 1) * w + 1, i * w))[w] = e.vals[i]
  <2> DEFINE lo == (i - 1) * w + 1
             hi == i * w
             b == SubSeq(c, lo, hi)
  <2>1. ASSUME NEW j \in 1..w
        PROVE  /\ lo + j - 1 \in 1..(w * n) /\ lo >= 1 /\ hi <= w * n /\ hi - lo + 1 = w
               /\ (((lo + j - 1) - 1) \div w) + 1 = i
               /\ ((lo + j - 1) - 1) % w = j - 1
    BY <1>2, <1>3, Places
  <2>2. lo >= 1 /\ hi <= w * n /\ hi - lo + 1 = w /\ lo \in Int /\ hi \in Int /\ w \in Nat /\ w >= 1
    <3>1. 1 \in 1..w
      BY <1>2
    <3> QED
      BY <1>2, <1>3, <2>1, <3>1
  <2>3. ASSUME NEW j \in 1..w PROVE c[lo + j - 1] = Shifted(e.vals[i])[w - j] % Base
    <3> DEFINE k == lo + j - 1
    <3>1. k \in 1..(w * n) /\ ((k - 1) \div w) + 1 = i /\ (k - 1) % w = j - 1
      BY <2>1
    <3> HIDE DEF k
    <3>2. c[k] = Shifted(e.vals[((k - 1) \div w) + 1])[(w - 1) - ((k - 1) % w)] % Base
      BY <3>1
    <3>3. (w - 1) - (j - 1) = w - j
      BY <1>2
    <3> QED
      BY <3>1, <3>2, <3>3, Zenon DEF k
  <2> HIDE DEF lo, hi, c
  <2>4. /\ b \in Seq(Nat) /\ Len(b) = IF lo <= hi THEN hi - lo + 1 ELSE 0
        /\ \A j \in 1..(hi - lo + 1) : b[j] = c[lo + j - 1]
    <3>1. \A k \in lo..hi : c[k] \in Nat
      BY <1>5, <1>6, <2>2
    <3> QED
      BY <1>7, <2>2, <3>1, SubSeqProperties
  <2> HIDE DEF b
  <2>5. Len(b) = w /\ \A j \in 1..w : b[j] = Shifted(e.vals[i])[w - j] % Base
    BY <2>2, <2>3, <2>4
  <2>6. BigEndian(b)[w] = e.vals[i]
    BY <1>2, <1>4, <2>4, <2>5, RoundTrip, Zenon
  <2> QED
    BY <2>6 DEF b, lo, hi
<1> HIDE DEF c
<1>9. Len(c) \div w = n
  BY <1>5, <1>7
<1>10. [i \in 1..n |-> BigEndian(SubSeq(c, (i - 1) * w + 1, i * w))[w]] = e.vals
  BY <1>3, <1>8
<1> QED
  BY <1>1, <1>9, <1>10 DEF w

-----------------------------------------------------------------------------
EntriesOK(tags) == \A t \in DOMAIN tags : EntryOK(tags[t])

(* A header as it is read has the tags it was built with.                  *)
LEMMA EncodedFacts ==
  ASSUME NEW tags, NEW t
  PROVE  /\ HasTag(Encoded(tags), t) <=> t \in DOMAIN tags
         /\ t \in DOMAIN tags =>
              /\ Encoded(tags)[t] = Encode(tags[t])
              /\ Encoded(tags)[t].type = tags[t].type
              /\ Encoded(tags)[t].count = Len(tags[t].vals)
              /\ tags[t].type \notin IntTypes => Encoded(tags)[t].contents = tags[t].vals
  BY Zenon DEF HasTag, Encoded, Encode

(* What getInts returns.                                                   *)
IntsOf(tags, t) ==
  IF t \notin DOMAIN tags THEN NoSuchTagError
  ELSE IF tags[t].type \notin IntTypes THEN Err("not an int type") ELSE OK(tags[t].vals)

(* All integers of the tag, whatever their width.                          *)
LEMMA getIntsIs ==
  ASSUME NEW tags, EntriesOK(tags), NEW t
  PROVE  getInts(Encoded(tags), t) = IntsOf(tags, t)
<1> DEFINE h == Encoded(tags)
           w == Width[h[t].type]
           c == h[t].contents
<1>1. getInts(h, t) =
        IF ~HasTag(h, t) THEN NoSuchTagError
        ELSE IF h[t].type \notin IntTypes THEN Err("not an int type")
        ELSE OK([i \in 1..(Len(c) \div w) |-> BigEndian(SubSeq(c, (i - 1) * w + 1, i * w))[w]])
  BY DEF getInts
<1> HIDE DEF h
<1> SUFFICES getInts(h, t) = IntsOf(tags, t)
  BY DEF h
<1>2. HasTag(h, t) <=> t \in DOMAIN tags
  BY EncodedFacts DEF h
<1>3. CASE t \notin DOMAIN tags
  BY <1>1, <1>2, <1>3 DEF IntsOf
<1>4. CASE t \in DOMAIN tags /\ tags[t].type \notin IntTypes
  <2>1. h[t].type = tags[t].type
    BY <1>4, EncodedFacts DEF h
  <2> QED
    BY <1>1, <1>2, <1>4, <2>1 DEF IntsOf
<1>5. CASE t \in DOMAIN tags /\ tags[t].type \in IntTypes
  <2> DEFINE e == tags[t]
  <2>1. h[t] = Encode(e) /\ h[t].type = e.type /\ EntryOK(e)
    BY <1>5, EncodedFacts DEF h, EntriesOK
  <2> HIDE DEF e
  <2>2. [i \in 1..(Len(c) \div w) |-> BigEndian(SubSeq(c, (i - 1) * w + 1, i * w))[w]] = e.vals
    <3>1. e.type \in IntTypes
      BY <1>5 DEF e
    <3>2. LET u == Width[e.type]
              d == Encode(e).contents
          IN  [i \in 1..(Len(d) \div u) |-> BigEndian(SubSeq(d, (i - 1) * u + 1, i * u))[u]] = e.vals
      BY <2>1, <3>1, ReadBack
    <3>3. w = Width[e.type] /\ c = Encode(e).contents
      BY <2>1
    <3> QED
      BY <3>2, <3>3
  <2> HIDE DEF w, c
  <2> QED
    BY <1>1, <1>2, <1>5, <2>1, <2>2 DEF IntsOf, e
<1> QED
  BY <1>3, <1>4, <1>5

(* What strings returns.                                                   *)
StringsOf(tags, t) ==
  IF t \notin DOMAIN tags THEN NoSuchTagError
  ELSE IF tags[t].type \notin StringTypes THEN Err("not a string type") ELSE OK(tags[t].vals)

(* No type is both.                                                        *)
LEMMA TypesDiffer ==
  /\ \A x \in StringTypes : x \notin IntTypes /\ x # "BIN"
  /\ "BIN" \notin IntTypes
  BY WidthFacts DEF StringTypes

(* All strings of the tag, without the piece behind the last NUL.          *)
LEMMA stringsIs ==
  ASSUME NEW tags, EntriesOK(tags), NEW t
  PROVE  strings(Encoded(tags), t) = StringsOf(tags, t)
<1> DEFINE h == Encoded(tags)
<1>1. HasTag(h, t) <=> t \in DOMAIN tags
  BY EncodedFacts
<1> HIDE DEF h
<1> SUFFICES strings(h, t) = StringsOf(tags, t)
  BY DEF h
<1>2. CASE t \notin DOMAIN tags
  BY <1>1, <1>2 DEF strings, StringsOf
<1>3. CASE t \in DOMAIN tags /\ tags[t].type \notin StringTypes
  <2>1. h[t].type = tags[t].type
    BY <1>3, EncodedFacts DEF h
  <2> QED
    BY <1>1, <1>3, <2>1 DEF strings, StringsOf
<1>4. CASE t \in DOMAIN tags /\ tags[t].type \in StringTypes
  <2> DEFINE v == tags[t].vals
  <2>1. h[t].type = tags[t].type /\ h[t].count = Len(v) /\ h[t].contents = v
    BY <1>4, EncodedFacts, TypesDiffer DEF h
  <2>2. IsSeq(v)
    BY <1>4 DEF EntriesOK, EntryOK
  <2> HIDE DEF v
  <2>3. PICK T : v \in Seq(T)
    BY <2>2, SeqFacts
  <2>4. SubSeq(Append(v, <<>>), 1, Len(v)) = v
    <3> DEFINE U == T \cup {<<>>}
               a == Append(v, <<>>)
               b == SubSeq(a, 1, Len(v))
    <3>1. v \in Seq(U) /\ <<>> \in U
      BY <2>3, SeqMonotonic
    <3> HIDE DEF U
    <3>2. /\ a \in Seq(U) /\ Len(a) = Len(v) + 1 /\ Len(v) \in Nat
          /\ \A i \in 1..Len(v) : a[i] = v[i]
      BY <3>1, AppendProperties
    <3> HIDE DEF a
    <3>3. /\ b \in Seq(U) /\ Len(b) = IF 1 <= Len(v) THEN Len(v) - 1 + 1 ELSE 0
          /\ \A i \in 1..(Len(v) - 1 + 1) : b[i] = a[1 + i - 1]
      <4>1. \A i \in 1..Len(v) : a[i] \in U
        BY <3>2
      <4> QED
        BY <3>2, <4>1, SubSeqProperties
    <3> HIDE DEF b
    <3>4. Len(b) = Len(v) /\ \A i \in 1..Len(v) : b[i] = v[i]
      BY <3>2, <3>3
    <3>5. b = v
      BY <3>1, <3>3, <3>4, SeqEqual
    <3> QED
      BY <3>5 DEF b, a
  <2> QED
    BY <1>1, <1>4, <2>1, <2>4 DEF strings, StringsOf, v
<1> QED
  BY <1>2, <1>3, <1>4

(* GetBytes.                                                               *)
LEMMA GetBytesIs ==
  ASSUME NEW tags, NEW t
  PROVE  GetBytes(Encoded(tags), t) =
           IF t \notin DOMAIN tags THEN NoSuchTagError
           ELSE IF tags[t].type # "BIN" THEN Err("not bytes") ELSE OK(tags[t].vals)
<1> DEFINE h == Encoded(tags)
<1>1. HasTag(h, t) <=> t \in DOMAIN tags
  BY EncodedFacts
<1>2. t \in DOMAIN tags => /\ h[t].type = tags[t].type
                           /\ tags[t].type = "BIN" => h[t].contents = tags[t].vals
  BY EncodedFacts, TypesDiffer
<1> HIDE DEF h
<1>3. GetBytes(h, t) = IF t \notin DOMAIN tags THEN NoSuchTagError
           ELSE IF tags[t].type # "BIN" THEN Err("not bytes") ELSE OK(tags[t].vals)
  BY <1>1, <1>2 DEF GetBytes
<1> QED
  BY <1>3 DEF h

(* GetUint32s refuses 64-bit integers.                                     *)
LEMMA GetUint32sIs ==
  ASSUME NEW tags, EntriesOK(tags), NEW t
  PROVE  GetUint32s(Encoded(tags), t) =
           IF t \in DOMAIN tags /\ tags[t].type = "INT64" THEN Err("too big")
           ELSE IntsOf(tags, t)
<1> DEFINE h == Encoded(tags)
           r == getInts(h, t)
<1>1. r = IntsOf(tags, t)
  BY getIntsIs
<1>2. t \in DOMAIN tags => h[t].type = tags[t].type
  BY EncodedFacts
<1>3. GetUint32s(h, t) = IF r.err = "nil" /\ h[t].type = "INT64" THEN Err("too big") ELSE r
  BY DEF GetUint32s
<1> HIDE DEF h, r
<1>4. r.err = "nil" <=> t \in DOMAIN tags /\ tags[t].type \in IntTypes
  BY <1>1 DEF IntsOf, NoSuchTagError, Err, OK
<1>5. "INT64" \in IntTypes
  BY WidthFacts
<1> QED
  BY <1>1, <1>2, <1>3, <1>4, <1>5 DEF h

(* Values of less than four bytes fit an int.                              *)
LEMMA SmallFits ==
  ASSUME NEW v \in Nat, NEW w \in {1, 2}, v < Power[w]
  PROVE  v <= MaxInt32 /\ MaxInt32 \in Int
<1>1. /\ Base \in Nat /\ Base >= 2 /\ Power[0] = 1 /\ Power[1] = Base * Power[0]
      /\ Power[2] = Base * Power[1] /\ Power[3] = Base * Power[2] /\ Power[4] = Base * Power[3]
  BY PowerFacts, BaseAssumption
<1> DEFINE p == Power[2]
<1>2. Power[1] = Base /\ p = Base * Base /\ Power[4] = Base * (Base * p)
  BY <1>1
<1> HIDE DEF p
<1>3. p \in Nat /\ p >= Base /\ p >= 2 * Base /\ Base * p >= 2 * p /\ Base * (Base * p) >= 4 * p
  <2>1. \A x, y \in Nat : x >= 2 => x * y >= 2 * y /\ x * y \in Nat
    OBVIOUS
  <2>2. p \in Nat /\ p >= 2 * Base
    BY <1>1, <1>2, <2>1
  <2>3. Base * p \in Nat /\ Base * p >= 2 * p
    BY <1>1, <2>1, <2>2
  <2>4. Base * (Base * p) >= 2 * (Base * p) /\ Base * (Base * p) \in Nat
    BY <1>1, <2>1, <2>3
  <2> DEFINE q == Base * p
             z == Base * q
  <2> HIDE DEF q, z
  <2>5. q \in Nat /\ z \in Nat /\ q >= 2 * p /\ z >= 2 * q
    BY <2>3, <2>4 DEF q, z
  <2>6. z >= 4 * p
    BY <2>2, <2>5
  <2> QED
    BY <1>1, <2>2, <2>3, <2>6 DEF q, z
<1> DEFINE z == Base * (Base * p)
<1>4. z \in Int /\ z >= 4 * p
  BY <1>1, <1>3
<1>5. MaxInt32 = z \div 2 - 1
  BY <1>2 DEF MaxInt32
<1>6. v < p
  <2>1. CASE w = 1
    BY <1>1, <1>2, <1>3, <2>1
  <2>2. CASE w = 2
    BY <2>2 DEF p
  <2> QED
    BY <2>1, <2>2
<1> HIDE DEF z
<1> QED
  BY <1>3, <1>4, <1>5, <1>6

(* The largest int is an integer.                                          *)
LEMMA MaxInt32Type ==
  MaxInt32 \in Int
<1>1. Power[4] \in Nat
  BY PowerFacts
<1> QED
  BY <1>1 DEF MaxInt32

(* An answer is all the integers of the tag if they fit what was asked     *)
(* for, and else an error.                                                 *)
IntsAnswer(call, r, tags, t) ==
  /\ t \in DOMAIN tags /\ Fits(call, tags[t]) => r = OK(tags[t].vals)
  /\ ~(t \in DOMAIN tags /\ Fits(call, tags[t])) => r.err # "nil"

(* GetUint64s and GetUint32s.                                              *)
LEMMA UintAnswers ==
  ASSUME NEW tags, EntriesOK(tags), NEW t
  PROVE  /\ IntsAnswer("GetUint64s", GetUint64s(Encoded(tags), t), tags, t)
         /\ IntsAnswer("GetUint32s", GetUint32s(Encoded(tags), t), tags, t)
<1>1. GetUint64s(Encoded(tags), t) = IntsOf(tags, t)
  BY getIntsIs DEF GetUint64s
<1>2. GetUint32s(Encoded(tags), t) =
        IF t \in DOMAIN tags /\ tags[t].type = "INT64" THEN Err("too big") ELSE IntsOf(tags, t)
  BY GetUint32sIs
<1>3. \A e : /\ Fits("GetUint64s", e) <=> e.type \in IntTypes
             /\ Fits("GetUint32s", e) <=> e.type \in IntTypes /\ e.type # "INT64"
  BY DEF Fits
<1>4. IntsAnswer("GetUint64s", IntsOf(tags, t), tags, t)
  BY <1>3 DEF IntsAnswer, IntsOf, NoSuchTagError, Err, OK
<1>5. IntsAnswer("GetUint32s", IF t \in DOMAIN tags /\ tags[t].type = "INT64" THEN Err("too big")
                               ELSE IntsOf(tags, t), tags, t)
  BY <1>3 DEF IntsAnswer, IntsOf, NoSuchTagError, Err, OK
<1> QED
  BY <1>1, <1>2, <1>4, <1>5

(* GetInts, which refuses only what needs more than 31 bits.               *)
LEMMA IntAnswer ==
  ASSUME NEW tags, EntriesOK(tags), NEW t
  PROVE  IntsAnswer("GetInts", GetInts(Encoded(tags), t), tags, t)
<1> DEFINE h == Encoded(tags)
           r == getInts(h, t)
           e == tags[t]
           s == GetInts(h, t)
           Small == \A i \in DOMAIN e.vals : e.vals[i] <= MaxInt32
<1>1. r = IntsOf(tags, t)
  BY getIntsIs
<1>2. t \in DOMAIN tags => h[t].type = e.type /\ EntryOK(e)
  BY EncodedFacts DEF EntriesOK
<1>3. s = IF r.err # "nil" THEN r
          ELSE IF h[t].type = "INT64" THEN Err("too big")
          ELSE IF h[t].type = "INT32" /\ \E i \in DOMAIN r.val : r.val[i] > MaxInt32
               THEN Err("out of range")
          ELSE r
  BY DEF GetInts
<1>4. Fits("GetInts", e) <=> e.type \in IntTypes /\ e.type # "INT64" /\ Small
  BY DEF Fits
<1> HIDE DEF h, r, e, s
<1>5. CASE ~(t \in DOMAIN tags /\ e.type \in IntTypes)
  <2>1. r.err # "nil"
    BY <1>1, <1>5 DEF IntsOf, NoSuchTagError, Err, OK, e
  <2>2. s.err # "nil" /\ ~(t \in DOMAIN tags /\ Fits("GetInts", e))
    BY <1>3, <1>4, <1>5, <2>1
  <2> QED
    BY <2>2 DEF IntsAnswer, e, s, h
<1>6. CASE t \in DOMAIN tags /\ e.type \in IntTypes
  <2>1. r = OK(e.vals)
    BY <1>1, <1>6 DEF IntsOf, e
  <2>2. r.err = "nil" /\ r.val = e.vals
    BY <2>1 DEF OK
  <2>3. \A i \in DOMAIN e.vals : e.vals[i] \in Nat /\ e.vals[i] < Power[Width[e.type]]
    BY <1>2, <1>6 DEF EntryOK
  <2>4. CASE e.type = "INT64"
    <3>1. s.err # "nil" /\ ~Fits("GetInts", e)
      BY <1>2, <1>3, <1>4, <1>6, <2>2, <2>4 DEF Err
    <3> QED
      BY <3>1 DEF IntsAnswer, e, s, h
  <2>5. CASE e.type = "INT32"
    <3>1. Small <=> ~\E i \in DOMAIN e.vals : e.vals[i] > MaxInt32
      BY <2>3, MaxInt32Type
    <3>2. IF Small THEN s = r ELSE s.err # "nil"
      BY <1>2, <1>3, <1>6, <2>2, <2>5, <3>1 DEF Err
    <3>3. Fits("GetInts", e) <=> Small
      BY <1>4, <1>6, <2>5
    <3> HIDE DEF Small
    <3> QED
      BY <1>6, <2>1, <3>2, <3>3 DEF IntsAnswer, e, s, h
  <2>6. CASE e.type \notin {"INT32", "INT64"}
    <3>1. Width[e.type] \in {1, 2}
      BY <1>6, <2>6, WidthFacts
    <3>2. Small
      BY <2>3, <3>1, SmallFits
    <3>3. s = r /\ Fits("GetInts", e)
      BY <1>2, <1>3, <1>4, <1>6, <2>2, <2>6, <3>2
    <3> QED
      BY <1>6, <2>1, <3>3 DEF IntsAnswer, e, s, h
  <2> QED
    BY <2>4, <2>5, <2>6
<1> QED
  BY <1>5, <1>6

-----------------------------------------------------------------------------
(* Where getHeader looks for a public tag.                                 *)
Source(p, tag) ==
  IF tag > SIGHEADER_TAG_BASE THEN [tags |-> p.sig, t |-> tag - SIGHEADER_TAG_BASE]
  ELSE IF tag < GENERAL_TAG_BASE THEN [tags |-> p.sig, t |-> tag]
  ELSE [tags |-> p.gen, t |-> tag]

(* The headers are those of the package.                                   *)
HdrInv == pkg \in Packages /\ hdr = [sig |-> Encoded(pkg.sig), gen |-> Encoded(pkg.gen)]

(* getHeader looks there.                                                  *)
LEMMA getHeaderIs ==
  ASSUME HdrInv, NEW tag
  PROVE  /\ getHeader(tag).h = Encoded(Source(pkg, tag).tags)
         /\ getHeader(tag).t = Source(pkg, tag).t
         /\ EntriesOK(Source(pkg, tag).tags)
<1>1. hdr.sig = Encoded(pkg.sig) /\ hdr.gen = Encoded(pkg.gen)
  BY DEF HdrInv
<1>2. EntriesOK(pkg.sig) /\ EntriesOK(pkg.gen)
  BY PackagesAssumption DEF HdrInv, TagsOK, EntriesOK
<1>3. CASE tag > SIGHEADER_TAG_BASE
  BY <1>1, <1>2, <1>3 DEF getHeader, Source
<1>4. CASE ~(tag > SIGHEADER_TAG_BASE) /\ tag < GENERAL_TAG_BASE
  BY <1>1, <1>2, <1>4 DEF getHeader, Source
<1>5. CASE ~(tag > SIGHEADER_TAG_BASE) /\ ~(tag < GENERAL_TAG_BASE)
  BY <1>1, <1>2, <1>5 DEF getHeader, Source
<1> QED
  BY <1>3, <1>4, <1>5

(* Between the bases a tag number means the general header.                *)
Mid(x) == x \in Int /\ 1000 <= x /\ x <= 16384
(* The public number of a tag of the signature header.                     *)
SigTag(t) == IF t < 1000 THEN t ELSE 16384 + t

(* Public numbers of the signature header tell its tags apart, and never   *)
(* mean one of the general header.                                         *)
LEMMA SigTagFacts ==
  /\ \A t \in Nat : ~Mid(SigTag(t))
  /\ \A t \in Nat : t >= 1000 => SigTag(t) > 16384 /\ SigTag(t) - 16384 = t
  /\ \A t \in Nat : t < 1000 => SigTag(t) = t /\ ~(t > 16384)
  /\ \A t, u \in Nat : SigTag(t) = SigTag(u) => t = u
<1>1. ASSUME NEW t \in Nat
      PROVE  /\ ~Mid(SigTag(t))
             /\ t >= 1000 => SigTag(t) > 16384 /\ SigTag(t) - 16384 = t
             /\ t < 1000 => SigTag(t) = t /\ ~(t > 16384)
  BY DEF SigTag, Mid
<1>2. ASSUME NEW t \in Nat, NEW u \in Nat, SigTag(t) = SigTag(u)
      PROVE  t = u
  BY <1>2 DEF SigTag
<1> QED
  BY <1>1, <1>2

(* getHeader undoes the numbering.                                         *)
LEMMA SigSource ==
  ASSUME NEW p, NEW t \in Nat
  PROVE  Source(p, SigTag(t)) = [tags |-> p.sig, t |-> t]
<1> DEFINE tag == SigTag(t)
<1>1. CASE t < 1000
  <2>1. tag = t /\ ~(tag > 16384) /\ tag < 1000
    BY <1>1, SigTagFacts
  <2> QED
    BY <2>1 DEF Source, GENERAL_TAG_BASE, SIGHEADER_TAG_BASE
<1>2. CASE ~(t < 1000)
  <2>1. tag > 16384 /\ tag - 16384 = t
    BY <1>2, SigTagFacts
  <2> HIDE DEF tag
  <2>2. Source(p, tag) = [tags |-> p.sig, t |-> t]
    BY <2>1 DEF Source, SIGHEADER_TAG_BASE
  <2> QED
    BY <2>2 DEF tag
<1> QED
  BY <1>1, <1>2

(* All other numbers are those of the general header.                      *)
LEMMA GenSource ==
  ASSUME NEW p, NEW tag, Mid(tag)
  PROVE  Source(p, tag) = [tags |-> p.gen, t |-> tag]
<1>1. ~(tag > 16384) /\ ~(tag < 1000)
  BY DEF Mid
<1> QED
  BY <1>1 DEF Source, GENERAL_TAG_BASE, SIGHEADER_TAG_BASE

(* Where the tags of a package are, and their public numbers.              *)
LEMMA TagFacts ==
  ASSUME pkg \in Packages
  PROVE  /\ \A t \in DOMAIN pkg.sig : t \in Nat /\ PublicTag("sig", t) = SigTag(t)
         /\ \A t \in DOMAIN pkg.gen : Mid(t) /\ PublicTag("gen", t) = t
<1>1. DOMAIN pkg.sig \subseteq Nat
      /\ DOMAIN pkg.gen \subseteq GENERAL_TAG_BASE..SIGHEADER_TAG_BASE
  BY PackagesAssumption DEF TagsOK
<1>2. GENERAL_TAG_BASE = 1000 /\ SIGHEADER_TAG_BASE = 16384
  BY DEF GENERAL_TAG_BASE, SIGHEADER_TAG_BASE
<1>3. \A a, b \in Int : \A x \in a..b : x \in Int /\ a <= x /\ x <= b
  OBVIOUS
<1>4. \A x \in GENERAL_TAG_BASE..SIGHEADER_TAG_BASE :
        x \in Int /\ GENERAL_TAG_BASE <= x /\ x <= SIGHEADER_TAG_BASE
  <2>1. GENERAL_TAG_BASE \in Int /\ SIGHEADER_TAG_BASE \in Int
    BY <1>2
  <2> QED
    BY <1>3, <2>1
<1>5. ASSUME NEW t \in DOMAIN pkg.gen PROVE Mid(t)
  <2>1. t \in Int /\ GENERAL_TAG_BASE <= t /\ t <= SIGHEADER_TAG_BASE
    BY <1>1, <1>4
  <2> QED
    BY <1>2, <2>1 DEF Mid
<1>6. \A t : PublicTag("gen", t) = t
  BY DEF PublicTag
<1>7. \A t : PublicTag("sig", t) = SigTag(t)
  BY <1>2 DEF PublicTag, SigTag
<1> QED
  BY <1>1, <1>5, <1>6, <1>7

(* A tag a caller may ask for is one of the signature header, or means the *)
(* general header.                                                         *)
LEMMA PublicTagFacts ==
  ASSUME pkg \in Packages, NEW tag \in PublicTags
  PROVE  (\E t \in DOMAIN pkg.sig : SigTag(t) = tag) \/ Mid(tag)
<1>1. Mid(Tags.OLDFILENAMES) /\ Mid(Tags.EPOCH)
  BY DEF Tags, Mid
<1> QED
  BY <1>1, TagFacts DEF PublicTags

(* That is what was built under the tag, and nothing else is.              *)
LEMMA BuiltIs ==
  ASSUME pkg \in Packages, NEW tag \in PublicTags
  PROVE  Built(tag) = IF Source(pkg, tag).t \in DOMAIN Source(pkg, tag).tags
                      THEN {Source(pkg, tag).tags[Source(pkg, tag).t]} ELSE {}
<1>1. \A x : x \in Built(tag) <=>
        \/ \E t \in DOMAIN pkg.sig : PublicTag("sig", t) = tag /\ x = pkg.sig[t]
        \/ \E t \in DOMAIN pkg.gen : PublicTag("gen", t) = tag /\ x = pkg.gen[t]
  BY DEF Built
<1>2. \A x : x \in Built(tag) <=>
        \/ \E t \in DOMAIN pkg.sig : SigTag(t) = tag /\ x = pkg.sig[t]
        \/ tag \in DOMAIN pkg.gen /\ x = pkg.gen[tag]
  BY <1>1, TagFacts
<1>3. (\E t \in DOMAIN pkg.sig : SigTag(t) = tag) \/ Mid(tag)
  BY PublicTagFacts
<1>4. CASE \E t \in DOMAIN pkg.sig : SigTag(t) = tag
  <2>1. PICK t \in DOMAIN pkg.sig : SigTag(t) = tag
    BY <1>4
  <2>2. t \in Nat /\ ~Mid(tag)
    BY <2>1, TagFacts, SigTagFacts
  <2>3. Source(pkg, tag) = [tags |-> pkg.sig, t |-> t]
    BY <2>1, <2>2, SigSource
  <2>4. \A u \in DOMAIN pkg.sig : SigTag(u) = tag => u = t
    BY <2>1, <2>2, TagFacts, SigTagFacts
  <2>5. tag \notin DOMAIN pkg.gen
    BY <2>2, TagFacts
  <2>6. \A x : x \in Built(tag) <=> x = pkg.sig[t]
    BY <1>2, <2>1, <2>4, <2>5, Zenon
  <2>7. Built(tag) = {pkg.sig[t]}
    BY <2>6
  <2> QED
    BY <2>1, <2>3, <2>7
<1>5. CASE Mid(tag)
  <2>1. Source(pkg, tag) = [tags |-> pkg.gen, t |-> tag]
    BY <1>5, GenSource
  <2>2. \A t \in DOMAIN pkg.sig : SigTag(t) # tag
    BY <1>5, TagFacts, SigTagFacts
  <2>3. \A x : x \in Built(tag) <=> tag \in DOMAIN pkg.gen /\ x = pkg.gen[tag]
    BY <1>2, <2>2, Zenon
  <2>4. Built(tag) = IF tag \in DOMAIN pkg.gen THEN {pkg.gen[tag]} ELSE {}
    BY <2>3
  <2> QED
    BY <2>1, <2>4
<1> QED
  BY <1>3, <1>4, <1>5, Zenon

-----------------------------------------------------------------------------
(* What a call leaves.                                                     *)
LEMMA Answered ==
  ASSUME NEW call, NEW tag, NEW r, Answer(call, tag, r)
  PROVE  /\ pkg' = pkg /\ hdr' = hdr
         /\ ret'.call = call /\ ret'.tag = tag /\ ret'.err = r.err /\ ret'.val = r.val
  BY DEF Answer

(* The same for a call that succeeds.                                      *)
LEMMA AnsweredOK ==
  ASSUME NEW call, NEW tag, NEW v, Answer(call, tag, OK(v))
  PROVE  pkg' = pkg /\ ret'.call = call /\ ret'.tag = tag /\ ret'.err = "nil" /\ ret'.val = v
  BY DEF Answer, OK

(* What was built stays so.                                                *)
LEMMA BuiltKept ==
  ASSUME NEW tag, pkg' = pkg, ret'.tag = tag
  PROVE  Built(ret.tag)' = Built(tag)
  BY DEF Built, PublicTag

(* The only value of one, if there is no error.                            *)
LEMMA OnlyFacts ==
  ASSUME NEW r, NEW v, Only(r).err = "nil", r.err = "nil" => r = OK(v) /\ IsSeq(v)
  PROVE  r = OK(v) /\ v = <<Only(r).val>>
<1>1. r.err = "nil"
  BY DEF Only
<1>2. r = OK(v) /\ r.val = v /\ IsSeq(v)
  BY <1>1 DEF OK
<1>3. Len(v) = 1 /\ Only(r).val = v[1]
  BY <1>1, <1>2 DEF Only, Err, OK
<1>4. v = <<v[1]>>
  BY <1>2, <1>3 DEF IsSeq
<1> QED
  BY <1>2, <1>3, <1>4

(* IntsAsBuilt about one answer.                                           *)
IntsRight(call, err, val, built) ==
  /\ call \in {"GetInts", "GetUint32s", "GetUint64s"} =>
       \/ \E e \in built : Fits(call, e) /\ err = "nil" /\ val = e.vals
       \/ (\A e \in built : ~Fits(call, e)) /\ err # "nil"
  /\ call \in {"GetInt", "GetUint32", "GetUint64"} /\ err = "nil" =>
       \E e \in built : e.vals = <<val>>

(* What was built under a tag that is at t of tags.                        *)
BuiltAt(tags, t) == IF t \in DOMAIN tags THEN {tags[t]} ELSE {}

(* All integers of a tag.                                                  *)
LEMMA AllRight ==
  ASSUME NEW call \in {"GetInts", "GetUint32s", "GetUint64s"}, NEW r, NEW tags, NEW t,
         IntsAnswer(call, r, tags, t)
  PROVE  IntsRight(call, r.err, r.val, BuiltAt(tags, t))
<1>1. CASE t \in DOMAIN tags /\ Fits(call, tags[t])
  <2>1. r.err = "nil" /\ r.val = tags[t].vals
    BY <1>1 DEF IntsAnswer, OK
  <2> QED
    BY <1>1, <2>1 DEF IntsRight, BuiltAt
<1>2. CASE ~(t \in DOMAIN tags /\ Fits(call, tags[t]))
  <2>1. r.err # "nil"
    BY <1>2 DEF IntsAnswer
  <2> QED
    BY <1>2, <2>1 DEF IntsRight, BuiltAt
<1> QED
  BY <1>1, <1>2

(* The only integer of a tag.                                              *)
LEMMA OneRight ==
  ASSUME NEW call, NEW one \in {"GetInt", "GetUint32", "GetUint64"}, NEW r, NEW tags, NEW t,
         EntriesOK(tags), IntsAnswer(call, r, tags, t)
  PROVE  IntsRight(one, Only(r).err, Only(r).val, BuiltAt(tags, t))
<1>1. ASSUME Only(r).err = "nil"
      PROVE  \E e \in BuiltAt(tags, t) : e.vals = <<Only(r).val>>
  <2>1. r.err = "nil" => t \in DOMAIN tags /\ r = OK(tags[t].vals) /\ IsSeq(tags[t].vals)
    BY DEF IntsAnswer, EntriesOK, EntryOK
  <2>2. t \in DOMAIN tags
    BY <1>1, <2>1 DEF Only
  <2>3. tags[t].vals = <<Only(r).val>>
    BY <1>1, <2>1, OnlyFacts
  <2> QED
    BY <2>2, <2>3 DEF BuiltAt
<1> QED
  BY <1>1 DEF IntsRight

(* IntsAsBuilt, by the call that was made.                                 *)
LEMMA IntsAnswered ==
  ASSUME NEW call, NEW tag \in PublicTags, NEW r, HdrInv, Answer(call, tag, r),
         IntsRight(call, r.err, r.val, BuiltAt(Source(pkg, tag).tags, Source(pkg, tag).t))
  PROVE  IntsAsBuilt'
<1>1. /\ pkg' = pkg
      /\ ret'.call = call /\ ret'.tag = tag /\ ret'.err = r.err /\ ret'.val = r.val
  BY Answered
<1>2. Built(ret.tag)' = BuiltAt(Source(pkg, tag).tags, Source(pkg, tag).t)
  BY <1>1, BuiltKept, BuiltIs DEF HdrInv, BuiltAt
<1>3. IntsRight(ret'.call, ret'.err, ret'.val, Built(ret.tag)')
  BY <1>1, <1>2
<1> QED
  BY <1>3 DEF IntsRight, IntsAsBuilt

(* Calls it does not speak of.                                             *)
LEMMA IntsElse ==
  ASSUME NEW call, NEW tag, NEW r, Answer(call, tag, r),
         call \notin {"GetInts", "GetUint32s", "GetUint64s", "GetInt", "GetUint32", "GetUint64"}
  PROVE  IntsAsBuilt'
<1>1. ret'.call = call
  BY Answered
<1> QED
  BY <1>1 DEF IntsAsBuilt

(* Every call keeps IntsAsBuilt.                                           *)
LEMMA IntsStep ==
  ASSUME HdrInv, Next
  PROVE  IntsAsBuilt'
<1>1. ASSUME NEW tag \in PublicTags, AskInts(tag) \/ AskUint32s(tag) \/ AskUint64s(tag)
      PROVE  IntsAsBuilt'
  <2> DEFINE h == getHeader(tag).h
             u == getHeader(tag).t
             tags == Source(pkg, tag).tags
             t == Source(pkg, tag).t
  <2>1. h = Encoded(tags) /\ u = t /\ EntriesOK(tags)
    BY getHeaderIs
  <2>2. /\ IntsAnswer("GetInts", GetInts(h, u), tags, t)
        /\ IntsAnswer("GetUint32s", GetUint32s(h, u), tags, t)
        /\ IntsAnswer("GetUint64s", GetUint64s(h, u), tags, t)
    BY <2>1, IntAnswer, UintAnswers
  <2>3. \/ Answer("GetInts", tag, GetInts(h, u))
        \/ Answer("GetInt", tag, Only(GetInts(h, u)))
        \/ Answer("GetUint32s", tag, GetUint32s(h, u))
        \/ Answer("GetUint32", tag, Only(GetUint32s(h, u)))
        \/ Answer("GetUint64s", tag, GetUint64s(h, u))
        \/ Answer("GetUint64", tag, Only(GetUint64s(h, u)))
    BY <1>1 DEF AskInts, AskUint32s, AskUint64s
  <2> HIDE DEF h, u
  <2>4. ASSUME NEW call \in {"GetInts", "GetUint32s", "GetUint64s"}, NEW r,
               IntsAnswer(call, r, tags, t), Answer(call, tag, r)
        PROVE  IntsAsBuilt'
    <3>1. IntsRight(call, r.err, r.val, BuiltAt(tags, t))
      BY <2>4, AllRight
    <3> QED
      BY <2>4, <3>1, IntsAnswered
  <2>5. ASSUME NEW call \in {"GetInt", "GetUint32", "GetUint64"}, NEW c, NEW r,
               IntsAnswer(c, r, tags, t), Answer(call, tag, Only(r))
        PROVE  IntsAsBuilt'
    <3>1. IntsRight(call, Only(r).err, Only(r).val, BuiltAt(tags, t))
      BY <2>1, <2>5, OneRight
    <3> QED
      BY <2>5, <3>1, IntsAnswered
  <2> HIDE DEF tags, t
  <2> QED
    BY <2>2, <2>3, <2>4, <2>5
<1>2. ASSUME NEW tag \in PublicTags, AskStrings(tag) \/ Ask(tag)
      PROVE  IntsAsBuilt'
  BY <1>2, IntsElse DEF AskStrings, Ask
<1>3. CASE AskInstalledSize \/ AskPayloadSize \/ AskNEVRA \/ AskFiles
  BY <1>3, IntsElse DEF AskInstalledSize, AskPayloadSize, AskNEVRA, AskFiles
<1> QED
  BY <1>1, <1>2, <1>3 DEF Next

-----------------------------------------------------------------------------
(* StringsAsBuilt about one answer.                                        *)
StringsRight(call, tag, err, val, built) ==
  call \in {"GetStrings", "GetBytes"} /\ tag # Tags.OLDFILENAMES =>
    LET types == IF call = "GetBytes" THEN {"BIN"} ELSE StringTypes IN
    \/ \E e \in built : e.type \in types /\ err = "nil" /\ val = e.vals
    \/ (\A e \in built : e.type \notin types) /\ err # "nil"

(* Strings and bytes of a tag: all, or an error if they are not there.     *)
LEMMA StringsRightAt ==
  ASSUME NEW tag, NEW tags, NEW t, EntriesOK(tags)
  PROVE  /\ LET r == strings(Encoded(tags), t)
            IN  StringsRight("GetStrings", tag, r.err, r.val, BuiltAt(tags, t))
         /\ LET r == GetBytes(Encoded(tags), t)
            IN  StringsRight("GetBytes", tag, r.err, r.val, BuiltAt(tags, t))
<1> DEFINE r == strings(Encoded(tags), t)
           b == GetBytes(Encoded(tags), t)
<1>1. r = StringsOf(tags, t)
  BY stringsIs
<1>2. b = IF t \notin DOMAIN tags THEN NoSuchTagError
          ELSE IF tags[t].type # "BIN" THEN Err("not bytes") ELSE OK(tags[t].vals)
  BY GetBytesIs
<1> HIDE DEF r, b
<1>3. IF t \in DOMAIN tags /\ tags[t].type \in StringTypes
      THEN r.err = "nil" /\ r.val = tags[t].vals ELSE r.err # "nil"
  BY <1>1 DEF StringsOf, NoSuchTagError, Err, OK
<1>4. IF t \in DOMAIN tags /\ tags[t].type = "BIN"
      THEN b.err = "nil" /\ b.val = tags[t].vals ELSE b.err # "nil"
  BY <1>2 DEF NoSuchTagError, Err, OK
<1>5. StringsRight("GetStrings", tag, r.err, r.val, BuiltAt(tags, t))
  <2>1. \/ \E e \in BuiltAt(tags, t) : e.type \in StringTypes /\ r.err = "nil" /\ r.val = e.vals
        \/ (\A e \in BuiltAt(tags, t) : e.type \notin StringTypes) /\ r.err # "nil"
    BY <1>3 DEF BuiltAt
  <2> QED
    BY <2>1 DEF StringsRight
<1>6. StringsRight("GetBytes", tag, b.err, b.val, BuiltAt(tags, t))
  <2>1. \/ \E e \in BuiltAt(tags, t) : e.type \in {"BIN"} /\ b.err = "nil" /\ b.val = e.vals
        \/ (\A e \in BuiltAt(tags, t) : e.type \notin {"BIN"}) /\ b.err # "nil"
    BY <1>4 DEF BuiltAt
  <2> QED
    BY <2>1 DEF StringsRight
<1> QED
  BY <1>5, <1>6 DEF r, b

(* StringsAsBuilt, by the call that was made.                              *)
LEMMA StringsAnswered ==
  ASSUME NEW call, NEW tag \in PublicTags, NEW r, HdrInv, Answer(call, tag, r),
         StringsRight(call, tag, r.err, r.val,
                      BuiltAt(Source(pkg, tag).tags, Source(pkg, tag).t))
  PROVE  StringsAsBuilt'
<1>1. /\ pkg' = pkg
      /\ ret'.call = call /\ ret'.tag = tag /\ ret'.err = r.err /\ ret'.val = r.val
  BY Answered
<1>2. Built(ret.tag)' = BuiltAt(Source(pkg, tag).tags, Source(pkg, tag).t)
  BY <1>1, BuiltKept, BuiltIs DEF HdrInv, BuiltAt
<1>3. StringsRight(ret'.call, ret'.tag, ret'.err, ret'.val, Built(ret.tag)')
  BY <1>1, <1>2
<1> QED
  BY <1>3 DEF StringsRight, StringsAsBuilt

(* Calls it does not speak of.                                             *)
LEMMA StringsElse ==
  ASSUME NEW call, NEW tag, NEW r, Answer(call, tag, r),
         call \notin {"GetStrings", "GetBytes"} \/ tag = Tags.OLDFILENAMES
  PROVE  StringsAsBuilt'
<1>1. ret'.call = call /\ ret'.tag = tag
  BY Answered
<1> QED
  BY <1>1 DEF StringsAsBuilt

(* Every call keeps StringsAsBuilt: a name that is not there is spliced    *)
(* only if it was asked for, not for the same number in the other header.  *)
LEMMA StringsStep ==
  ASSUME HdrInv, Next
  PROVE  StringsAsBuilt'
<1>1. ASSUME NEW tag \in PublicTags, AskStrings(tag) \/ Ask(tag)
      PROVE  StringsAsBuilt'
  <2> DEFINE h == getHeader(tag).h
             u == getHeader(tag).t
             tags == Source(pkg, tag).tags
             t == Source(pkg, tag).t
  <2>1. h = Encoded(tags) /\ u = t /\ EntriesOK(tags)
    BY getHeaderIs
  <2>2. \/ Answer("GetStrings", tag, GetStrings(h, u))
        \/ Answer("GetString", tag, Only(GetStrings(h, u)))
        \/ Answer("Get", tag, Get(h, u))
        \/ Answer("GetBytes", tag, GetBytes(h, u))
        \/ Answer("HasTag", tag, OK(HasTag(h, u)))
    BY <1>1 DEF AskStrings, Ask
  <2>3. tag # Tags.OLDFILENAMES => t \in DOMAIN tags \/ t # Tags.OLDFILENAMES
    <3>1. pkg \in Packages
      BY DEF HdrInv
    <3>2. CASE \E k \in DOMAIN pkg.sig : SigTag(k) = tag
      <4>1. PICK k \in DOMAIN pkg.sig : SigTag(k) = tag
        BY <3>2
      <4>2. k \in Nat
        BY <3>1, TagFacts
      <4>3. Source(pkg, tag) = [tags |-> pkg.sig, t |-> k]
        BY <4>1, <4>2, SigSource
      <4> QED
        BY <4>1, <4>3
    <3>3. CASE Mid(tag)
      BY <3>3, GenSource
    <3> QED
      BY <3>1, <3>2, <3>3, PublicTagFacts
  <2> HIDE DEF h, u
  <2>4. tag # Tags.OLDFILENAMES => GetStrings(h, u) = strings(Encoded(tags), t)
    <3>1. HasTag(h, u) <=> t \in DOMAIN tags
      BY <2>1, EncodedFacts
    <3> QED
      BY <2>1, <2>3, <3>1 DEF GetStrings
  <2>5. CASE Answer("GetStrings", tag, GetStrings(h, u)) /\ tag # Tags.OLDFILENAMES
    <3> DEFINE r == strings(Encoded(tags), t)
    <3>1. StringsRight("GetStrings", tag, r.err, r.val, BuiltAt(tags, t))
      BY <2>1, StringsRightAt
    <3>2. Answer("GetStrings", tag, r)
      BY <2>4, <2>5
    <3> HIDE DEF r
    <3> QED
      BY <3>1, <3>2, StringsAnswered
  <2>6. CASE Answer("GetBytes", tag, GetBytes(h, u))
    <3> DEFINE r == GetBytes(Encoded(tags), t)
    <3>1. StringsRight("GetBytes", tag, r.err, r.val, BuiltAt(tags, t))
      BY <2>1, StringsRightAt
    <3>2. Answer("GetBytes", tag, r)
      BY <2>1, <2>6
    <3> HIDE DEF r
    <3> QED
      BY <3>1, <3>2, StringsAnswered
  <2> HIDE DEF tags, t
  <2> QED
    BY <2>2, <2>5, <2>6, StringsElse
<1>2. ASSUME NEW tag \in PublicTags, AskInts(tag) \/ AskUint32s(tag) \/ AskUint64s(tag)
      PROVE  StringsAsBuilt'
  BY <1>2, StringsElse DEF AskInts, AskUint32s, AskUint64s
<1>3. CASE AskInstalledSize \/ AskPayloadSize \/ AskNEVRA \/ AskFiles
  BY <1>3, StringsElse DEF AskInstalledSize, AskPayloadSize, AskNEVRA, AskFiles
<1> QED
  BY <1>1, <1>2, <1>3 DEF Next

-----------------------------------------------------------------------------
(* What is stored is read back.                                            *)
LEMMA StoredFacts ==
  ASSUME NEW tags, EntriesOK(tags), NEW t, NEW v
  PROVE  /\ Stored(tags, t, StringTypes, v) =>
              GetStrings(Encoded(tags), t) = OK(v) /\ strings(Encoded(tags), t) = OK(v)
         /\ Stored(tags, t, IntTypes, v) => GetUint64s(Encoded(tags), t) = OK(v)
         /\ Stored(tags, t, IntTypes \ {"INT64"}, v) => GetUint32s(Encoded(tags), t) = OK(v)
<1>1. HasTag(Encoded(tags), t) <=> t \in DOMAIN tags
  BY EncodedFacts
<1>2. ASSUME Stored(tags, t, StringTypes, v)
      PROVE  GetStrings(Encoded(tags), t) = OK(v) /\ strings(Encoded(tags), t) = OK(v)
  <2>1. strings(Encoded(tags), t) = OK(v)
    BY <1>2, stringsIs DEF Stored, StringsOf
  <2> QED
    BY <1>1, <1>2, <2>1 DEF GetStrings, Stored
<1>3. ASSUME Stored(tags, t, IntTypes, v)
      PROVE  GetUint64s(Encoded(tags), t) = OK(v)
  BY <1>3, getIntsIs DEF Stored, IntsOf, GetUint64s
<1>4. ASSUME Stored(tags, t, IntTypes \ {"INT64"}, v)
      PROVE  GetUint32s(Encoded(tags), t) = OK(v)
  BY <1>4, GetUint32sIs DEF Stored, IntsOf
<1> QED
  BY <1>2, <1>3, <1>4

(* What is stored short or long too.                                       *)
LEMMA EitherFacts ==
  ASSUME NEW tags, EntriesOK(tags), NEW short, NEW long, NEW v,
         StoredEither(tags, short, long, v)
  PROVE  uint64Fallback(Encoded(tags), short, long) = OK(v)
<1> DEFINE t == IF long \in DOMAIN tags THEN long ELSE short
<1>1. Stored(tags, t, IntTypes, v)
  BY DEF StoredEither
<1>2. uint64Fallback(Encoded(tags), short, long) = GetUint64s(Encoded(tags), t)
  BY EncodedFacts DEF uint64Fallback
<1> HIDE DEF t
<1> QED
  BY <1>1, <1>2, StoredFacts

(* The only value of one.                                                  *)
LEMMA OnlyOne ==
  ASSUME NEW x
  PROVE  /\ Only(OK(<<x>>)) = OK(x)
         /\ OK(x).err = "nil" /\ OK(x).val = x
         /\ Only(NoSuchTagError).err # "nil"
  BY DEF Only, OK, NoSuchTagError, Err

(* A tag that is not there.                                                *)
LEMMA MissingFacts ==
  ASSUME NEW tags, EntriesOK(tags), NEW t, t \notin DOMAIN tags
  PROVE  /\ GetUint64s(Encoded(tags), t) = NoSuchTagError
         /\ GetUint32s(Encoded(tags), t) = NoSuchTagError
         /\ strings(Encoded(tags), t) = NoSuchTagError
  BY getIntsIs, GetUint32sIs, stringsIs DEF IntsOf, StringsOf, GetUint64s

(* The headers hold what the package was built from.                       *)
LEMMA HdrFacts ==
  ASSUME HdrInv
  PROVE  /\ hdr.sig = Encoded(pkg.sig) /\ EntriesOK(pkg.sig)
         /\ hdr.gen = Encoded(pkg.gen) /\ EntriesOK(pkg.gen)
         /\ FilesOK(pkg) /\ SummaryOK(pkg)
<1>1. hdr.sig = Encoded(pkg.sig) /\ hdr.gen = Encoded(pkg.gen)
  BY DEF HdrInv
<1>2. EntriesOK(pkg.sig) /\ EntriesOK(pkg.gen)
  BY PackagesAssumption DEF HdrInv, TagsOK, EntriesOK
<1>3. FilesOK(pkg) /\ SummaryOK(pkg)
  BY PackagesAssumption DEF HdrInv
<1> QED
  BY <1>1, <1>2, <1>3

(* InstalledSize is the size the package was built with.                   *)
LEMMA InstalledSizeIs ==
  ASSUME HdrInv
  PROVE  GetUint64Fallback(Tags.SIZE, Tags.LONGSIZE) = OK(pkg.installed)
         /\ Int64(pkg.installed) = pkg.installed
<1> DEFINE gen == pkg.gen
           x == pkg.installed
           l == getHeader(Tags.LONGSIZE)
           s == getHeader(Tags.SIZE)
           rl == Only(GetUint64s(l.h, l.t))
           rs == Only(GetUint64s(s.h, s.t))
<1>1. EntriesOK(gen) /\ StoredEither(gen, Tags.SIZE, Tags.LONGSIZE, <<x>>)
      /\ x < Power[8] \div 2
  BY HdrFacts DEF SummaryOK
<1>2. Mid(Tags.SIZE) /\ Mid(Tags.LONGSIZE)
  BY DEF Tags, Mid
<1>3. /\ l.h = Encoded(gen) /\ l.t = Tags.LONGSIZE
      /\ s.h = Encoded(gen) /\ s.t = Tags.SIZE
  BY <1>2, getHeaderIs, GenSource
<1>4. GetUint64Fallback(Tags.SIZE, Tags.LONGSIZE) = IF rl.err = "nil" THEN rl ELSE rs
  BY DEF GetUint64Fallback
<1> HIDE DEF gen, x, l, s
<1>5. CASE Tags.LONGSIZE \in DOMAIN gen
  <2>1. GetUint64s(Encoded(gen), Tags.LONGSIZE) = OK(<<x>>)
    BY <1>1, <1>5, StoredFacts DEF StoredEither
  <2>2. rl = OK(x) /\ rl.err = "nil"
    BY <1>3, <2>1, OnlyOne
  <2> HIDE DEF rl, rs
  <2> QED
    BY <1>1, <1>4, <2>2 DEF x, Int64
<1>6. CASE Tags.LONGSIZE \notin DOMAIN gen
  <2>1. GetUint64s(Encoded(gen), Tags.SIZE) = OK(<<x>>)
    BY <1>1, <1>6, StoredFacts DEF StoredEither
  <2>2. GetUint64s(Encoded(gen), Tags.LONGSIZE) = NoSuchTagError
    BY <1>1, <1>6, MissingFacts
  <2>3. rl.err # "nil" /\ rs = OK(x)
    BY <1>3, <2>1, <2>2, OnlyOne
  <2> HIDE DEF rl, rs
  <2> QED
    BY <1>1, <1>4, <2>3 DEF x, Int64
<1> QED
  BY <1>5, <1>6

(* PayloadSize is the size of the payload.                                 *)
LEMMA PayloadSizeIs ==
  ASSUME HdrInv
  PROVE  /\ Only(uint64Fallback(hdr.sig, Tags.SIG_PAYLOADSIZE - SIGHEADER_TAG_BASE,
                                Tags.SIG_LONGARCHIVESIZE)) = OK(pkg.payload)
         /\ Int64(pkg.payload) = pkg.payload
<1>1. /\ hdr.sig = Encoded(pkg.sig) /\ EntriesOK(pkg.sig)
      /\ StoredEither(pkg.sig, Tags.SIG_PAYLOADSIZE - SIGHEADER_TAG_BASE,
                      Tags.SIG_LONGARCHIVESIZE, <<pkg.payload>>)
      /\ pkg.payload < Power[8] \div 2
  BY HdrFacts DEF SummaryOK
<1>2. uint64Fallback(hdr.sig, Tags.SIG_PAYLOADSIZE - SIGHEADER_TAG_BASE,
                     Tags.SIG_LONGARCHIVESIZE) = OK(<<pkg.payload>>)
  BY <1>1, EitherFacts
<1> QED
  BY <1>1, <1>2, OnlyOne DEF Int64

(* GetNEVRA is the package's, with epoch 0 if it has none.                 *)
LEMMA NEVRAIs ==
  ASSUME HdrInv
  PROVE  GetNEVRA(hdr.gen) = OK(pkg.nevra)
<1> DEFINE h == hdr.gen
           n == pkg.nevra
           e == GetUint64s(h, Tags.EPOCH)
           epoch == IF e = NoSuchTagError \/ (e.err = "nil" /\ e.val = <<>>) THEN OK(<<0>>) ELSE e
           all == <<GetStrings(h, Tags.NAME), epoch, GetStrings(h, Tags.VERSION),
                    GetStrings(h, Tags.RELEASE), GetStrings(h, Tags.ARCH)>>
<1>1. /\ h = Encoded(pkg.gen) /\ EntriesOK(pkg.gen) /\ SummaryOK(pkg)
  BY HdrFacts
<1>2. GetNEVRA(h) = IF SomeError(all) THEN FirstError(all) ELSE OK([i \in 1..5 |-> all[i].val[1]])
  BY DEF GetNEVRA
<1>3. /\ Stored(pkg.gen, Tags.NAME, StringTypes, <<n[1]>>)
      /\ Stored(pkg.gen, Tags.VERSION, StringTypes, <<n[3]>>)
      /\ Stored(pkg.gen, Tags.RELEASE, StringTypes, <<n[4]>>)
      /\ Stored(pkg.gen, Tags.ARCH, StringTypes, <<n[5]>>)
  <2>1. \A x \in {<<Tags.NAME, 1>>, <<Tags.VERSION, 3>>, <<Tags.RELEASE, 4>>, <<Tags.ARCH, 5>>} :
          Stored(pkg.gen, x[1], StringTypes, <<n[x[2]]>>)
    BY <1>1 DEF SummaryOK
  <2> DEFINE P(x) == Stored(pkg.gen, x[1], StringTypes, <<n[x[2]]>>)
  <2>2. P(<<Tags.NAME, 1>>) /\ P(<<Tags.VERSION, 3>>) /\ P(<<Tags.RELEASE, 4>>)
        /\ P(<<Tags.ARCH, 5>>)
    BY <2>1
  <2> QED
    BY <2>2
<1>4. /\ GetStrings(h, Tags.NAME) = OK(<<n[1]>>) /\ GetStrings(h, Tags.VERSION) = OK(<<n[3]>>)
      /\ GetStrings(h, Tags.RELEASE) = OK(<<n[4]>>) /\ GetStrings(h, Tags.ARCH) = OK(<<n[5]>>)
  BY <1>1, <1>3, StoredFacts
<1>5. epoch = OK(<<n[2]>>)
  <2>1. CASE Tags.EPOCH \in DOMAIN pkg.gen
    <3>1. Stored(pkg.gen, Tags.EPOCH, IntTypes, <<n[2]>>)
      BY <1>1, <2>1 DEF SummaryOK
    <3>2. e = OK(<<n[2]>>)
      BY <1>1, <3>1, StoredFacts
    <3> HIDE DEF e, n
    <3>3. e # NoSuchTagError /\ e.val # <<>>
      BY <3>2 DEF OK, NoSuchTagError, Err
    <3> QED
      BY <3>2, <3>3
  <2>2. CASE Tags.EPOCH \notin DOMAIN pkg.gen
    <3>1. n[2] = 0
      BY <1>1, <2>2 DEF SummaryOK
    <3>2. e = NoSuchTagError
      BY <1>1, <2>2, MissingFacts
    <3> QED
      BY <3>1, <3>2
  <2> QED
    BY <2>1, <2>2
<1>6. n = [i \in 1..5 |-> n[i]]
  BY <1>1 DEF SummaryOK, IsSeq
<1>7. all = <<OK(<<n[1]>>), OK(<<n[2]>>), OK(<<n[3]>>), OK(<<n[4]>>), OK(<<n[5]>>)>>
  <2> HIDE DEF epoch, n
  <2> QED
    BY <1>4, <1>5
<1> HIDE DEF all, n
<1>8. \A i \in 1..5 : all[i] = OK(<<n[i]>>)
  BY <1>7
<1>9. DOMAIN all = 1..5
  BY <1>7
<1>10. \A i \in 1..5 : all[i].err = "nil" /\ all[i].val[1] = n[i]
  BY <1>8 DEF OK
<1>11. ~SomeError(all)
  BY <1>9, <1>10 DEF SomeError
<1>12. [i \in 1..5 |-> all[i].val[1]] = n
  BY <1>6, <1>10
<1> QED
  BY <1>2, <1>11, <1>12 DEF n

(* Calls SummaryAsBuilt does not speak of.                                 *)
LEMMA SummaryElse ==
  ASSUME NEW call, NEW tag, NEW r, Answer(call, tag, r),
         call \notin {"InstalledSize", "PayloadSize", "GetNEVRA"}
  PROVE  SummaryAsBuilt'
<1>1. ret'.call = call
  BY Answered
<1> QED
  BY <1>1 DEF SummaryAsBuilt

(* Every call keeps SummaryAsBuilt.                                        *)
LEMMA SummaryStep ==
  ASSUME HdrInv, Next
  PROVE  SummaryAsBuilt'
<1>1. CASE AskInstalledSize
  <2> DEFINE r == GetUint64Fallback(Tags.SIZE, Tags.LONGSIZE)
  <2>1. Answer("InstalledSize", Tags.SIZE, IF r.err = "nil" THEN OK(Int64(r.val)) ELSE r)
    BY <1>1 DEF AskInstalledSize
  <2>2. r = OK(pkg.installed) /\ Int64(pkg.installed) = pkg.installed
    BY InstalledSizeIs
  <2> HIDE DEF r
  <2>3. (IF r.err = "nil" THEN OK(Int64(r.val)) ELSE r) = OK(pkg.installed)
    BY <2>2, OnlyOne
  <2>4. Answer("InstalledSize", Tags.SIZE, OK(pkg.installed))
    BY <2>1, <2>3
  <2>5. pkg' = pkg /\ ret'.call = "InstalledSize" /\ ret'.err = "nil" /\ ret'.val = pkg.installed
    BY <2>4, AnsweredOK
  <2> QED
    BY <2>5 DEF SummaryAsBuilt
<1>2. CASE AskPayloadSize
  <2> DEFINE r == Only(uint64Fallback(hdr.sig, Tags.SIG_PAYLOADSIZE - SIGHEADER_TAG_BASE,
                                      Tags.SIG_LONGARCHIVESIZE))
  <2>1. Answer("PayloadSize", Tags.SIG_PAYLOADSIZE,
               IF r.err = "nil" THEN OK(Int64(r.val)) ELSE r)
    BY <1>2 DEF AskPayloadSize
  <2>2. r = OK(pkg.payload) /\ Int64(pkg.payload) = pkg.payload
    BY PayloadSizeIs
  <2> HIDE DEF r
  <2>3. (IF r.err = "nil" THEN OK(Int64(r.val)) ELSE r) = OK(pkg.payload)
    BY <2>2, OnlyOne
  <2>4. Answer("PayloadSize", Tags.SIG_PAYLOADSIZE, OK(pkg.payload))
    BY <2>1, <2>3
  <2>5. pkg' = pkg /\ ret'.call = "PayloadSize" /\ ret'.err = "nil" /\ ret'.val = pkg.payload
    BY <2>4, AnsweredOK
  <2> QED
    BY <2>5 DEF SummaryAsBuilt
<1>3. CASE AskNEVRA
  <2>1. Answer("GetNEVRA", Tags.NAME, OK(pkg.nevra))
    BY <1>3, NEVRAIs DEF AskNEVRA
  <2>2. pkg' = pkg /\ ret'.call = "GetNEVRA" /\ ret'.err = "nil" /\ ret'.val = pkg.nevra
    BY <2>1, AnsweredOK
  <2> QED
    BY <2>2 DEF SummaryAsBuilt
<1>4. CASE AskFiles
  BY <1>4, SummaryElse DEF AskFiles
<1>5. ASSUME NEW tag \in PublicTags, AskStrings(tag) \/ Ask(tag)
      PROVE  SummaryAsBuilt'
  BY <1>5, SummaryElse DEF AskStrings, Ask
<1>6. ASSUME NEW tag \in PublicTags, AskInts(tag) \/ AskUint32s(tag) \/ AskUint64s(tag)
      PROVE  SummaryAsBuilt'
  BY <1>6, SummaryElse DEF AskInts, AskUint32s, AskUint64s
<1> QED
  BY <1>1, <1>2, <1>3, <1>4, <1>5, <1>6 DEF Next

-----------------------------------------------------------------------------
(* Names out of directories and base names are whole paths.                *)
LEMMA SplicedIs ==
  ASSUME HdrInv, pkg.files # <<>>, Tags.OLDFILENAMES \notin DOMAIN pkg.gen
  PROVE  spliced(hdr.gen) = OK(Column(pkg, "name"))
<1> DEFINE gen == pkg.gen
           dv == gen[Tags.DIRNAMES].vals
           iv == gen[Tags.DIRINDEXES].vals
           bv == gen[Tags.BASENAMES].vals
           dirs == strings(hdr.gen, Tags.DIRNAMES)
           idxs == GetUint32s(hdr.gen, Tags.DIRINDEXES)
           base == strings(hdr.gen, Tags.BASENAMES)
           all == <<dirs, idxs, base>>
<1>1. hdr.gen = Encoded(gen) /\ EntriesOK(gen) /\ NamesOK(pkg)
  BY HdrFacts DEF FilesOK
<1>2. /\ Stored(gen, Tags.DIRNAMES, StringTypes, dv)
      /\ Stored(gen, Tags.DIRINDEXES, IntTypes \ {"INT64"}, iv)
      /\ Stored(gen, Tags.BASENAMES, StringTypes, bv)
      /\ Joined(pkg, dv, iv, bv)
  BY <1>1 DEF NamesOK
<1>3. dirs = OK(dv) /\ idxs = OK(iv) /\ base = OK(bv)
  BY <1>1, <1>2, StoredFacts
<1>4. Len(dv) \in Nat /\ \A i \in DOMAIN iv : iv[i] \in Nat
  BY <1>1, <1>2 DEF Stored, EntriesOK, EntryOK, IsSeq
<1>5. IsSeq(iv) /\ IsSeq(bv)
  BY <1>1, <1>2 DEF Stored, EntriesOK, EntryOK
<1>6. spliced(hdr.gen) =
        IF SomeError(all) THEN FirstError(all)
        ELSE IF \E i \in DOMAIN base.val :
                  i > Len(idxs.val) \/ idxs.val[i] >= Len(dirs.val) THEN Err("panic")
        ELSE OK([i \in DOMAIN base.val |-> dirs.val[idxs.val[i] + 1] \o base.val[i]])
  BY DEF spliced
<1> HIDE DEF dv, iv, bv, dirs, idxs, base
<1>7. /\ dirs.err = "nil" /\ idxs.err = "nil" /\ base.err = "nil"
      /\ dirs.val = dv /\ idxs.val = iv /\ base.val = bv
  BY <1>3, OnlyOne
<1>8. ~SomeError(all)
  BY <1>7 DEF SomeError
<1>9. /\ DOMAIN bv = DOMAIN pkg.files /\ Len(iv) = Len(bv)
      /\ \A i \in DOMAIN pkg.files :
           iv[i] < Len(dv) /\ pkg.files[i]["name"] = dv[iv[i] + 1] \o bv[i]
  BY <1>2 DEF Joined
<1>10. DOMAIN bv = 1..Len(bv) /\ DOMAIN iv = 1..Len(iv) /\ Len(bv) \in Nat
  BY <1>5 DEF IsSeq
<1>11. \A i \in DOMAIN bv : ~(i > Len(iv)) /\ ~(iv[i] >= Len(dv))
  BY <1>4, <1>9, <1>10
<1>12. [i \in DOMAIN bv |-> dv[iv[i] + 1] \o bv[i]] = Column(pkg, "name")
  BY <1>9 DEF Column
<1> HIDE DEF all
<1> QED
  BY <1>6, <1>7, <1>8, <1>11, <1>12

(* Without files there are no names.                                       *)
LEMMA NoNames ==
  ASSUME HdrInv, pkg.files = <<>>
  PROVE  GetStrings(hdr.gen, Tags.OLDFILENAMES) = NoSuchTagError
<1> DEFINE gen == pkg.gen
           dirs == strings(hdr.gen, Tags.DIRNAMES)
           idxs == GetUint32s(hdr.gen, Tags.DIRINDEXES)
           base == strings(hdr.gen, Tags.BASENAMES)
           all == <<dirs, idxs, base>>
<1>1. hdr.gen = Encoded(gen) /\ EntriesOK(gen) /\ NamesOK(pkg)
  BY HdrFacts DEF FilesOK
<1>2. Tags.OLDFILENAMES \notin DOMAIN gen /\ Tags.DIRNAMES \notin DOMAIN gen
  BY <1>1 DEF NamesOK
<1>3. GetStrings(hdr.gen, Tags.OLDFILENAMES) = spliced(hdr.gen)
  BY <1>1, <1>2, EncodedFacts DEF GetStrings
<1>4. dirs = NoSuchTagError
  BY <1>1, <1>2, MissingFacts
<1>5. SomeError(all) => spliced(hdr.gen) = FirstError(all)
  BY DEF spliced
<1> HIDE DEF dirs, idxs, base
<1>6. all[1] = NoSuchTagError /\ all[1].err # "nil" /\ DOMAIN all = 1..3
  <2>1. NoSuchTagError.err # "nil"
    BY DEF NoSuchTagError, Err
  <2>2. all[1] = dirs /\ DOMAIN all = 1..3
    OBVIOUS
  <2> QED
    BY <1>4, <2>1, <2>2
<1> HIDE DEF all
<1>7. SomeError(all)
  BY <1>6 DEF SomeError
<1>8. FirstError(all) = all[1]
  <2> DEFINE P(i) == all[i].err # "nil" /\ \A j \in 1..(i - 1) : all[j].err = "nil"
  <2>1. 1 \in DOMAIN all /\ P(1)
    BY <1>6
  <2>2. \A i \in DOMAIN all : P(i) => i = 1
    BY <1>6
  <2> HIDE DEF P
  <2>3. (CHOOSE i \in DOMAIN all : P(i)) = 1
    BY <2>1, <2>2
  <2> QED
    BY <2>3 DEF FirstError, P
<1> QED
  BY <1>3, <1>5, <1>6, <1>7, <1>8

(* With files there are theirs.                                            *)
LEMMA NamesAre ==
  ASSUME HdrInv, pkg.files # <<>>
  PROVE  GetStrings(hdr.gen, Tags.OLDFILENAMES) = OK(Column(pkg, "name"))
<1>1. hdr.gen = Encoded(pkg.gen) /\ EntriesOK(pkg.gen) /\ NamesOK(pkg)
  BY HdrFacts DEF FilesOK
<1>2. CASE Tags.OLDFILENAMES \in DOMAIN pkg.gen
  <2>1. Stored(pkg.gen, Tags.OLDFILENAMES, StringTypes, Column(pkg, "name"))
    BY <1>1, <1>2 DEF NamesOK
  <2> QED
    BY <1>1, <2>1, StoredFacts
<1>3. CASE Tags.OLDFILENAMES \notin DOMAIN pkg.gen
  <2>1. GetStrings(hdr.gen, Tags.OLDFILENAMES) = spliced(hdr.gen)
    BY <1>1, <1>3, EncodedFacts DEF GetStrings
  <2> QED
    BY <1>3, <2>1, SplicedIs
<1> QED
  BY <1>2, <1>3

(* A column over n that may be missing if it is all zeros, and orZeros.    *)
ZerosOK(tags, t, n, v) ==
  /\ v = [i \in n |-> v[i]]
  /\ IF t \in DOMAIN tags THEN Stored(tags, t, IntTypes \ {"INT64"}, v)
     ELSE \A i \in n : v[i] = 0
ZerosFor(n, r) == IF r.err = "nil" THEN r ELSE OK([i \in n |-> 0])

(* orZeros returns the column.                                             *)
LEMMA OrZeros ==
  ASSUME NEW tags, EntriesOK(tags), NEW t, NEW n, NEW v, ZerosOK(tags, t, n, v)
  PROVE  ZerosFor(n, GetUint32s(Encoded(tags), t)) = OK(v)
<1> DEFINE r == GetUint32s(Encoded(tags), t)
<1>1. CASE t \in DOMAIN tags
  <2>1. r = OK(v)
    BY <1>1, StoredFacts DEF ZerosOK
  <2> HIDE DEF r
  <2>2. r.err = "nil"
    BY <2>1 DEF OK
  <2> QED
    BY <2>1, <2>2 DEF r, ZerosFor
<1>2. CASE t \notin DOMAIN tags
  <2>1. r = NoSuchTagError
    BY <1>2, MissingFacts
  <2> HIDE DEF r
  <2>2. r.err # "nil"
    BY <2>1 DEF NoSuchTagError, Err
  <2>3. [i \in n |-> 0] = v
    BY <1>2 DEF ZerosOK
  <2> QED
    BY <2>2, <2>3 DEF r, ZerosFor
<1> QED
  BY <1>1, <1>2

(* The attributes are found by their names.                                *)
LEMMA FieldFacts ==
  /\ DOMAIN FileFields = 1..11
  /\ \A k \in 1..11 : (CHOOSE j \in DOMAIN FileFields : FileFields[j] = FileFields[k]) = k
  /\ \A f \in FieldNames : \E k \in 1..11 : f = FileFields[k]
<1>1. DOMAIN FileFields = 1..11
  BY DEF FileFields
<1>2. \A j, k \in 1..11 : FileFields[j] = FileFields[k] => j = k
  BY DEF FileFields
<1>3. ASSUME NEW k \in 1..11
      PROVE  (CHOOSE j \in DOMAIN FileFields : FileFields[j] = FileFields[k]) = k
  BY <1>1, <1>2
<1>4. \A f \in FieldNames : \E k \in 1..11 : f = FileFields[k]
  BY <1>1 DEF FieldNames
<1> QED
  BY <1>1, <1>3, <1>4

(* GetFiles puts the columns together to the files, none too short.        *)
LEMMA FilesAre ==
  ASSUME HdrInv
  PROVE  GetFiles(hdr.gen) = OK(pkg.files)
<1> DEFINE h == hdr.gen
           gen == pkg.gen
           paths == GetStrings(h, Tags.OLDFILENAMES)
           orZeros(r) == IF r.err = "nil" THEN r ELSE OK([i \in DOMAIN paths.val |-> 0])
           all == <<paths, uint64Fallback(h, Tags.FILESIZES, Tags.LONGFILESIZES),
                    GetStrings(h, Tags.FILEUSERNAME), GetStrings(h, Tags.FILEGROUPNAME),
                    GetUint32s(h, Tags.FILEFLAGS), GetUint32s(h, Tags.FILEMTIMES),
                    GetStrings(h, Tags.FILEDIGESTS), GetUint32s(h, Tags.FILEMODES),
                    GetStrings(h, Tags.FILELINKTOS), orZeros(GetUint32s(h, Tags.FILEDEVICES)),
                    orZeros(GetUint32s(h, Tags.FILEINODES))>>
           C(f) == Column(pkg, f)
           D == DOMAIN pkg.files
           files == [i \in DOMAIN paths.val |->
                      [f \in FieldNames |->
                        all[CHOOSE k \in DOMAIN FileFields : FileFields[k] = f].val[i]]]
<1>1. GetFiles(h) = IF paths = NoSuchTagError THEN OK(<<>>)
                    ELSE IF SomeError(all) THEN FirstError(all)
                    ELSE IF \E k \in DOMAIN all : Len(all[k].val) < Len(paths.val) THEN Err("panic")
                    ELSE OK(files)
  BY DEF GetFiles
<1>2. CASE pkg.files = <<>>
  BY <1>1, <1>2, NoNames, Zenon
<1>3. CASE pkg.files # <<>>
  <2>1. h = Encoded(gen) /\ EntriesOK(gen) /\ FilesOK(pkg)
    BY HdrFacts
  <2>2. paths = OK(C("name"))
    BY <1>3, NamesAre
  <2>3. \A f : DOMAIN C(f) = D /\ C(f) = [i \in D |-> C(f)[i]]
               /\ \A i \in D : C(f)[i] = pkg.files[i][f]
    BY DEF Column
  <2>4. paths.err = "nil" /\ paths.val = C("name") /\ DOMAIN paths.val = D
    <3> HIDE DEF C, D, paths
    <3> QED
      BY <2>2, <2>3 DEF OK
  <2>5. /\ StoredEither(gen, Tags.FILESIZES, Tags.LONGFILESIZES, C("size"))
        /\ Stored(gen, Tags.FILEUSERNAME, StringTypes, C("user"))
        /\ Stored(gen, Tags.FILEGROUPNAME, StringTypes, C("group"))
        /\ Stored(gen, Tags.FILEFLAGS, IntTypes \ {"INT64"}, C("flags"))
        /\ Stored(gen, Tags.FILEMTIMES, IntTypes \ {"INT64"}, C("mtime"))
        /\ Stored(gen, Tags.FILEDIGESTS, StringTypes, C("digest"))
        /\ Stored(gen, Tags.FILEMODES, IntTypes \ {"INT64"}, C("mode"))
        /\ Stored(gen, Tags.FILELINKTOS, StringTypes, C("linkto"))
    BY <1>3, <2>1 DEF FilesOK
  <2>6. IF Tags.FILEDEVICES \in DOMAIN gen
        THEN Stored(gen, Tags.FILEDEVICES, IntTypes \ {"INT64"}, C("device"))
        ELSE \A i \in D : C("device")[i] = 0
    BY <1>3, <2>1, <2>3 DEF FilesOK
  <2>7. IF Tags.FILEINODES \in DOMAIN gen
        THEN Stored(gen, Tags.FILEINODES, IntTypes \ {"INT64"}, C("inode"))
        ELSE \A i \in D : C("inode")[i] = 0
    BY <1>3, <2>1, <2>3 DEF FilesOK
  <2> HIDE DEF C
  <2>8. /\ uint64Fallback(h, Tags.FILESIZES, Tags.LONGFILESIZES) = OK(C("size"))
        /\ GetStrings(h, Tags.FILEUSERNAME) = OK(C("user"))
        /\ GetStrings(h, Tags.FILEGROUPNAME) = OK(C("group"))
        /\ GetUint32s(h, Tags.FILEFLAGS) = OK(C("flags"))
        /\ GetUint32s(h, Tags.FILEMTIMES) = OK(C("mtime"))
        /\ GetStrings(h, Tags.FILEDIGESTS) = OK(C("digest"))
        /\ GetUint32s(h, Tags.FILEMODES) = OK(C("mode"))
        /\ GetStrings(h, Tags.FILELINKTOS) = OK(C("linkto"))
    BY <2>1, <2>5, StoredFacts, EitherFacts
  <2>9. /\ orZeros(GetUint32s(h, Tags.FILEDEVICES)) = OK(C("device"))
        /\ orZeros(GetUint32s(h, Tags.FILEINODES)) = OK(C("inode"))
    <3> HIDE DEF D
    <3>1. ZerosOK(gen, Tags.FILEDEVICES, D, C("device"))
          /\ ZerosOK(gen, Tags.FILEINODES, D, C("inode"))
      BY <2>3, <2>6, <2>7 DEF ZerosOK
    <3>2. /\ ZerosFor(D, GetUint32s(h, Tags.FILEDEVICES)) = OK(C("device"))
          /\ ZerosFor(D, GetUint32s(h, Tags.FILEINODES)) = OK(C("inode"))
      BY <2>1, <3>1, OrZeros
    <3>3. \A r : orZeros(r) = ZerosFor(D, r)
      BY <2>4 DEF ZerosFor
    <3> HIDE DEF orZeros
    <3> QED
      BY <3>2, <3>3
  <2>10. all = <<OK(C("name")), OK(C("size")), OK(C("user")), OK(C("group")), OK(C("flags")),
                 OK(C("mtime")), OK(C("digest")), OK(C("mode")), OK(C("linkto")),
                 OK(C("device")), OK(C("inode"))>>
    <3> HIDE DEF orZeros, paths
    <3> QED
      BY <2>2, <2>8, <2>9
  <2> HIDE DEF all, paths
  <2>11. DOMAIN all = 1..11 /\ \A k \in 1..11 : all[k] = OK(C(FileFields[k]))
    BY <2>10 DEF FileFields
  <2>12. \A k \in 1..11 : all[k].err = "nil" /\ all[k].val = C(FileFields[k])
    BY <2>11 DEF OK
  <2>13. paths # NoSuchTagError
    <3>1. NoSuchTagError.err # "nil"
      BY DEF NoSuchTagError, Err
    <3> QED
      BY <2>4, <3>1
  <2>14. ~SomeError(all)
    BY <2>11, <2>12 DEF SomeError
  <2>15. D = 1..Len(pkg.files) /\ Len(pkg.files) \in Nat
    BY <2>1 DEF FilesOK, IsSeq
  <2>16. \A f : Len(C(f)) = Len(pkg.files)
    BY <2>3, <2>15
  <2>17. ~\E k \in DOMAIN all : Len(all[k].val) < Len(paths.val)
    BY <2>4, <2>11, <2>12, <2>15, <2>16
  <2>18. files = pkg.files
    <3>1. \A f \in FieldNames : \A i \in D :
            all[CHOOSE k \in DOMAIN FileFields : FileFields[k] = f].val[i] = pkg.files[i][f]
      <4> SUFFICES ASSUME NEW f \in FieldNames, NEW i \in D
                   PROVE  all[CHOOSE k \in DOMAIN FileFields : FileFields[k] = f].val[i]
                            = pkg.files[i][f]
        OBVIOUS
      <4>1. PICK k \in 1..11 : f = FileFields[k]
        BY FieldFacts
      <4>2. (CHOOSE j \in DOMAIN FileFields : FileFields[j] = f) = k
        BY <4>1, FieldFacts
      <4>3. all[k].val[i] = C(f)[i]
        BY <2>12, <4>1
      <4> QED
        BY <2>3, <4>2, <4>3
    <3>2. pkg.files = [i \in D |-> [f \in FieldNames |-> pkg.files[i][f]]]
      <4>1. pkg.files = [i \in D |-> pkg.files[i]]
        BY <2>1 DEF FilesOK, IsSeq
      <4>2. \A i \in D : pkg.files[i] = [f \in FieldNames |-> pkg.files[i][f]]
        BY <2>1 DEF FilesOK
      <4> QED
        BY <4>1, <4>2
    <3> HIDE DEF D
    <3>3. files = [i \in D |-> [f \in FieldNames |->
                     all[CHOOSE k \in DOMAIN FileFields : FileFields[k] = f].val[i]]]
      BY <2>4
    <3>4. \A i \in D : [f \in FieldNames |->
                         all[CHOOSE k \in DOMAIN FileFields : FileFields[k] = f].val[i]]
                       = [f \in FieldNames |-> pkg.files[i][f]]
      BY <3>1
    <3> QED
      BY <3>2, <3>3, <3>4
  <2> HIDE DEF files
  <2> QED
    BY <1>1, <2>13, <2>14, <2>17, <2>18
<1> QED
  BY <1>2, <1>3

(* Calls FilesAsBuilt does not speak of.                                   *)
LEMMA FilesElse ==
  ASSUME NEW call, NEW tag, NEW r, Answer(call, tag, r),
         call # "GetFiles", call # "GetStrings" \/ tag # Tags.OLDFILENAMES \/ pkg.files = <<>>
  PROVE  FilesAsBuilt'
<1>1. pkg' = pkg /\ ret'.call = call /\ ret'.tag = tag
  BY Answered
<1> QED
  BY <1>1 DEF FilesAsBuilt

(* Every call keeps FilesAsBuilt.                                          *)
LEMMA FilesStep ==
  ASSUME HdrInv, Next
  PROVE  FilesAsBuilt'
<1>1. CASE AskFiles
  <2>1. Answer("GetFiles", Tags.OLDFILENAMES, OK(pkg.files))
    BY <1>1, FilesAre DEF AskFiles
  <2>2. pkg' = pkg /\ ret'.call = "GetFiles" /\ ret'.err = "nil" /\ ret'.val = pkg.files
    BY <2>1, AnsweredOK
  <2> QED
    BY <2>2 DEF FilesAsBuilt
<1>2. ASSUME NEW tag \in PublicTags, AskStrings(tag)
      PROVE  FilesAsBuilt'
  <2> DEFINE g == getHeader(tag)
             r == GetStrings(g.h, g.t)
  <2>1. Answer("GetStrings", tag, r) \/ Answer("GetString", tag, Only(r))
    BY <1>2 DEF AskStrings
  <2>2. CASE Answer("GetStrings", tag, r) /\ tag = Tags.OLDFILENAMES /\ pkg.files # <<>>
    <3>1. Mid(tag)
      BY <2>2 DEF Mid, Tags
    <3>2. g.h = hdr.gen /\ g.t = Tags.OLDFILENAMES
      BY <2>2, <3>1, getHeaderIs, GenSource, HdrFacts
    <3>3. r = OK(Column(pkg, "name"))
      BY <2>2, <3>2, NamesAre
    <3> HIDE DEF r
    <3>4. Answer("GetStrings", tag, OK(Column(pkg, "name")))
      BY <2>2, <3>3
    <3>5. /\ pkg' = pkg /\ ret'.call = "GetStrings" /\ ret'.err = "nil"
          /\ ret'.val = Column(pkg, "name")
      BY <3>4, AnsweredOK
    <3> QED
      BY <3>5 DEF FilesAsBuilt, Column
  <2> HIDE DEF r
  <2> QED
    BY <2>1, <2>2, FilesElse
<1>3. ASSUME NEW tag \in PublicTags, AskInts(tag) \/ AskUint32s(tag) \/ AskUint64s(tag) \/ Ask(tag)
      PROVE  FilesAsBuilt'
  BY <1>3, FilesElse DEF AskInts, AskUint32s, AskUint64s, Ask
<1>4. CASE AskInstalledSize \/ AskPayloadSize \/ AskNEVRA
  BY <1>4, FilesElse DEF AskInstalledSize, AskPayloadSize, AskNEVRA
<1> QED
  BY <1>1, <1>2, <1>3, <1>4 DEF Next

-----------------------------------------------------------------------------
(* No call changes the package or its headers.                             *)
LEMMA HdrStep ==
  ASSUME HdrInv, [Next]_vars
  PROVE  HdrInv'
<1>1. ASSUME NEW call, NEW tag, NEW r, Answer(call, tag, r)
      PROVE  pkg' = pkg /\ hdr' = hdr
  BY <1>1, Answered
<1>2. ASSUME Next
      PROVE  pkg' = pkg /\ hdr' = hdr
  <2>1. ASSUME NEW tag \in PublicTags,
               AskStrings(tag) \/ AskInts(tag) \/ AskUint32s(tag) \/ AskUint64s(tag) \/ Ask(tag)
        PROVE  pkg' = pkg /\ hdr' = hdr
    BY <1>1, <2>1 DEF AskStrings, AskInts, AskUint32s, AskUint64s, Ask
  <2>2. CASE AskInstalledSize \/ AskPayloadSize \/ AskNEVRA \/ AskFiles
    BY <1>1, <2>2 DEF AskInstalledSize, AskPayloadSize, AskNEVRA, AskFiles
  <2> QED
    BY <1>2, <2>1, <2>2 DEF Next
<1>3. pkg' = pkg /\ hdr' = hdr
  BY <1>2 DEF vars
<1> QED
  BY <1>3, Zenon DEF HdrInv, Encoded, Encode

(* The headers stay those the package was built with, whatever is asked of *)
(* them (rpmutils.go:276-319: the accessors only read).                    *)
THEOREM HeadersKept ==
  Spec => []HdrInv
<1>1. Init => HdrInv
  BY DEF Init, HdrInv
<1>2. HdrInv /\ [Next]_vars => HdrInv'
  BY HdrStep
<1> QED
  BY <1>1, <1>2, PTL DEF Spec

(* Integers are read back as they were built in whatever width, and an     *)
(* error means that they are not there or do not fit (header.go:240-328).  *)
THEOREM IntsCorrect ==
  Spec => []IntsAsBuilt
<1>1. Init => IntsAsBuilt
  BY DEF Init, IntsAsBuilt
<1>2. HdrInv /\ IntsAsBuilt /\ [Next]_vars => IntsAsBuilt'
  <2>1. IntsAsBuilt /\ UNCHANGED vars => IntsAsBuilt'
    BY DEF vars, IntsAsBuilt, Built, PublicTag
  <2> QED
    BY <2>1, IntsStep
<1> QED
  BY <1>1, <1>2, HeadersKept, PTL DEF Spec

(* Strings and bytes are read back as they were built, of the header the   *)
(* tag belongs to (header.go:179-238, rpmutils.go:276-288).                *)
THEOREM StringsCorrect ==
  Spec => []StringsAsBuilt
<1>1. Init => StringsAsBuilt
  BY DEF Init, StringsAsBuilt
<1>2. HdrInv /\ StringsAsBuilt /\ [Next]_vars => StringsAsBuilt'
  <2>1. StringsAsBuilt /\ UNCHANGED vars => StringsAsBuilt'
    BY DEF vars, StringsAsBuilt, Built, PublicTag
  <2> QED
    BY <2>1, StringsStep
<1> QED
  BY <1>1, <1>2, HeadersKept, PTL DEF Spec

(* The files are read back as they were built, and no index of a parallel  *)
(* array is out of range (header.go:179-212, 383-455).                     *)
THEOREM FilesCorrect ==
  Spec => []FilesAsBuilt
<1>1. Init => FilesAsBuilt
  BY DEF Init, FilesAsBuilt
<1>2. HdrInv /\ FilesAsBuilt /\ [Next]_vars => FilesAsBuilt'
  <2>1. FilesAsBuilt /\ UNCHANGED vars => FilesAsBuilt'
    BY DEF vars, FilesAsBuilt
  <2> QED
    BY <2>1, FilesStep
<1> QED
  BY <1>1, <1>2, HeadersKept, PTL DEF Spec

(* The sizes and the NEVRA are read back as they were built, beyond 32     *)
(* bits and without an epoch too (rpmutils.go:300-319, header.go:349-381). *)
THEOREM SummaryCorrect ==
  Spec => []SummaryAsBuilt
<1>1. Init => SummaryAsBuilt
  BY DEF Init, SummaryAsBuilt
<1>2. HdrInv /\ SummaryAsBuilt /\ [Next]_vars => SummaryAsBuilt'
  <2>1. SummaryAsBuilt /\ UNCHANGED vars => SummaryAsBuilt'
    BY DEF vars, SummaryAsBuilt
  <2> QED
    BY <2>1, SummaryStep
<1> QED
  BY <1>1, <1>2, HeadersKept, PTL DEF Spec

=============================================================================
