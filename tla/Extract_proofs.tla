--------------------------- MODULE Extract_proofs ---------------------------
(***************************************************************************)
(* Proofs about Extract for every set of archives and destinations, any    *)
(* number of passes and any failing calls.                                 *)
(***************************************************************************)
EXTENDS Extract, WellFoundedInduction, SequenceTheorems, TLAPS

Path == Seq(STRING)

-----------------------------------------------------------------------------
(* Paths                                                                   *)

(* One component more or less is a path.                                   *)
LEMMA StepType ==
  ASSUME NEW a, NEW p \in Path, NEW c \in STRING
  PROVE  cleanStep(a, p, c) \in Path
<1>1. Append(p, c) \in Path /\ (p # <<>> => Front(p) \in Path)
  <2>1. Append(p, c) \in Path
    BY AppendProperties DEF Path
  <2>2. ASSUME p # <<>> PROVE SubSeq(p, 1, Len(p) - 1) \in Path
    <3>1. Len(p) \in Nat /\ Len(p) # 0
      BY <2>2 DEF Path
    <3>2. \A i \in 1..(Len(p) - 1) : p[i] \in STRING
      BY <3>1 DEF Path
    <3> QED
      BY <3>1, <3>2, SubSeqProperties DEF Path
  <2> QED
    BY <2>1, <2>2 DEF Front
<1> QED
  BY <1>1 DEF cleanStep

(* The first n rounds of Clean's loop.                                     *)
Rounds(a, path, n, g) ==
  /\ g \in [0..n -> Path]
  /\ \A i \in 0..n : g[i] = IF i = 0 THEN <<>> ELSE cleanStep(a, g[i - 1], path[i])

(* There are as many rounds as the path has components: if n were the      *)
(* first number of rounds that could not be made, n - 1 could be, and one  *)
(* more.                                                                   *)
LEMMA RoundsExist ==
  ASSUME NEW a, NEW path \in Path, NEW n \in 0..Len(path)
  PROVE  \E g : Rounds(a, path, n, g)
<1> DEFINE Bad == {i \in Nat : i <= Len(path) /\ ~\E g : Rounds(a, path, i, g)}
<1>1. Len(path) \in Nat
  BY DEF Path
<1> SUFFICES ASSUME Bad # {} PROVE FALSE
  BY <1>1
<1>2. PICK m \in Bad : \A i \in Bad : ~(<<i, m>> \in OpToRel(<, Nat))
  BY NatLessThanWellFounded, WFMin
<1>3. m \in Nat /\ m <= Len(path) /\ \A i \in Nat : i < m => i \notin Bad
  BY <1>2 DEF OpToRel
<1>4. m # 0
  <2> DEFINE g == [i \in 0..0 |-> <<>>]
  <2>1. 0..0 = {0} /\ <<>> \in Path
    BY DEF Path
  <2>2. Rounds(a, path, 0, g)
    BY <2>1 DEF Rounds
  <2> QED
    BY <1>2, <2>2
<1>5. m - 1 \in Nat /\ m - 1 < m /\ m - 1 <= Len(path)
  BY <1>1, <1>3, <1>4
<1>6. PICK g : Rounds(a, path, m - 1, g)
  BY <1>3, <1>5
<1> DEFINE c == cleanStep(a, g[m - 1], path[m])
           h == [i \in 0..m |-> IF i = m THEN c ELSE g[i]]
<1>7. g[m - 1] \in Path /\ path[m] \in STRING
  BY <1>1, <1>3, <1>4, <1>5, <1>6 DEF Rounds, Path
<1>8. c \in Path
  BY <1>7, StepType
<1> HIDE DEF c
<1>9. h \in [0..m -> Path]
  BY <1>3, <1>5, <1>6, <1>8 DEF Rounds
<1>10. ASSUME NEW i \in 0..m
       PROVE  h[i] = IF i = 0 THEN <<>> ELSE cleanStep(a, h[i - 1], path[i])
  <2>1. CASE i = m
    <3>1. h[i] = c /\ h[i - 1] = g[m - 1]
      BY <1>3, <1>4, <1>5, <2>1
    <3> QED
      BY <1>4, <2>1, <3>1 DEF c
  <2>2. CASE i # m
    <3>1. i \in 0..(m - 1) /\ h[i] = g[i]
      BY <1>3, <1>5, <2>2
    <3>2. i # 0 => h[i - 1] = g[i - 1]
      BY <1>3, <1>5, <2>2
    <3> QED
      BY <1>6, <3>1, <3>2 DEF Rounds
  <2> QED
    BY <2>1, <2>2
<1>11. Rounds(a, path, m, h)
  BY <1>9, <1>10 DEF Rounds
<1> QED
  BY <1>2, <1>11

(* Clean returns a path.                                                   *)
LEMMA CleanType ==
  ASSUME NEW a, NEW path \in Path
  PROVE  Clean(a, path) \in Path
<1> DEFINE F(g) == [n \in 0..Len(path) |->
                      IF n = 0 THEN <<>> ELSE cleanStep(a, g[n - 1], path[n])]
           upTo == CHOOSE g : g = F(g)
<1>1. Len(path) \in Nat /\ Len(path) \in 0..Len(path)
  BY DEF Path
<1>2. PICK g : Rounds(a, path, Len(path), g)
  BY <1>1, RoundsExist
<1>3. g = F(g)
  BY <1>2 DEF Rounds
<1>4. upTo = F(upTo)
  BY <1>3, Zenon
<1>5. Clean(a, path) = upTo[Len(path)]
  BY DEF Clean
<1> HIDE DEF upTo
<1>6. ASSUME NEW n \in 0..Len(path), upTo[n] \notin Path
      PROVE  FALSE
  <2> DEFINE Bad == {i \in Nat : i <= Len(path) /\ upTo[i] \notin Path}
  <2>1. n \in Bad
    BY <1>1, <1>6
  <2>2. PICK m \in Bad : \A i \in Bad : ~(<<i, m>> \in OpToRel(<, Nat))
    BY <2>1, NatLessThanWellFounded, WFMin
  <2>3. m \in Nat /\ m <= Len(path) /\ upTo[m] \notin Path /\ \A i \in Nat : i < m => i \notin Bad
    BY <2>2 DEF OpToRel
  <2> HIDE DEF Bad
  <2>4. upTo[m] = IF m = 0 THEN <<>> ELSE cleanStep(a, upTo[m - 1], path[m])
    <3>1. m \in 0..Len(path)
      BY <1>1, <2>3
    <3>2. upTo[m] = F(upTo)[m]
      BY <1>4
    <3> QED
      BY <3>1, <3>2
  <2>5. m # 0
    <3>1. <<>> \in Path
      BY DEF Path
    <3> QED
      BY <2>3, <2>4, <3>1
  <2>6. m - 1 \in Nat /\ m - 1 < m /\ m - 1 <= Len(path) /\ path[m] \in STRING
    BY <1>1, <2>3, <2>5 DEF Path
  <2>7. upTo[m - 1] \in Path
    BY <2>3, <2>6 DEF Bad
  <2> QED
    BY <2>3, <2>4, <2>5, <2>6, <2>7, StepType
<1> QED
  BY <1>1, <1>5, <1>6

(* Nothing but leading ".." is cut off.                                    *)
LEMMA StripType ==
  ASSUME NEW path \in Path
  PROVE  stripDotDot(path) \in Path
<1> DEFINE Up(n) == /\ \A i \in 1..n : path[i] = ".."
                    /\ n < Len(path) => path[n + 1] # ".."
           Ends == {i \in Nat : i <= Len(path) /\ (i < Len(path) => path[i + 1] # "..")}
           up == CHOOSE n \in 0..Len(path) : Up(n)
<1>1. Len(path) \in Nat
  BY DEF Path
<1>2. Len(path) \in Ends
  BY <1>1
<1>3. PICK m \in Ends : \A i \in Ends : ~(<<i, m>> \in OpToRel(<, Nat))
  BY <1>2, NatLessThanWellFounded, WFMin
<1>4. /\ m \in Nat /\ m <= Len(path) /\ (m < Len(path) => path[m + 1] # "..")
      /\ \A i \in Nat : i < m => i \notin Ends
  BY <1>3 DEF OpToRel
<1>5. \A i \in 1..m : path[i] = ".."
  <2> TAKE i \in 1..m
  <2>1. i - 1 \in Nat /\ i - 1 < m /\ i - 1 < Len(path) /\ i - 1 <= Len(path) /\ (i - 1) + 1 = i
    BY <1>1, <1>4
  <2> QED
    BY <1>4, <2>1
<1>6. m \in 0..Len(path) /\ Up(m)
  BY <1>1, <1>4, <1>5
<1> HIDE DEF Up
<1>7. up \in 0..Len(path)
  BY <1>6
<1> DEFINE from == IF up = Len(path) /\ up > 0 THEN up ELSE up + 1
<1>8. stripDotDot(path) = SubSeq(path, from, Len(path))
  BY DEF stripDotDot, Up
<1> HIDE DEF up
<1>9. from \in Int /\ 1 <= from
  BY <1>1, <1>7
<1> HIDE DEF from
<1>10. \A i \in from..Len(path) : path[i] \in STRING
  BY <1>1, <1>9 DEF Path
<1> QED
  BY <1>1, <1>8, <1>9, <1>10, SubSeqProperties DEF Path

(* A path is a prefix of itself.                                           *)
LEMMA PrefixSelf ==
  ASSUME NEW p \in Path
  PROVE  IsPrefix(p, p)
BY DEF Path, IsPrefix

(* Where an entry goes is a path, and if it passes the check it is dest or *)
(* below it.                                                               *)
LEMMA SanitizeFacts ==
  ASSUME NEW dest, dest.path \in Path, NEW x, x.path \in Path
  PROVE  LET s == sanitize(dest, x)
         IN  s.path \in Path /\ (s.ok => IsPrefix(dest.path, s.path))
<1> DEFINE q == stripDotDot(Clean(x.absolute, x.path))
           p == Clean(dest.absolute, dest.path \o q)
<1>1. q \in Path
  BY CleanType, StripType
<1> HIDE DEF q
<1>2. dest.path \o q \in Path
  BY <1>1, ConcatProperties DEF Path
<1>3. p \in Path
  BY <1>2, CleanType
<1> HIDE DEF p
<1> DEFINE good == p = dest.path \/ (dest.path # <<>> /\ IsStrictPrefix(dest.path, p))
<1>4. sanitize(dest, x) = [path |-> p, ok |-> good]
  BY DEF sanitize, p, q
<1>5. IsPrefix(dest.path, dest.path)
  BY PrefixSelf
<1>6. ASSUME good PROVE IsPrefix(dest.path, p)
  BY <1>5, <1>6, Zenon DEF IsStrictPrefix
<1> HIDE DEF good
<1>7. sanitize(dest, x).path = p /\ (sanitize(dest, x).ok <=> good)
  BY <1>4
<1> QED
  BY <1>3, <1>6, <1>7, Zenon

(* The prefixes of a path.                                                 *)
LEMMA PrefixOf ==
  ASSUME NEW p \in Path, NEW n \in 0..Len(p)
  PROVE  /\ SubSeq(p, 1, n) \in Path /\ Len(SubSeq(p, 1, n)) = n
         /\ \A i \in 1..n : SubSeq(p, 1, n)[i] = p[i]
<1>1. Len(p) \in Nat /\ n \in Nat
  BY DEF Path
<1>2. \A i \in 1..n : p[i] \in STRING
  BY <1>1 DEF Path
<1>3. SubSeq(p, 1, n) \in Path
  BY <1>1, <1>2, SubSeqProperties DEF Path
<1> QED
  BY <1>1, <1>3 DEF Path

(* A prefix of a prefix.                                                   *)
LEMMA PrefixOfPrefix ==
  ASSUME NEW p \in Path, NEW n \in 0..Len(p), NEW m \in 0..n
  PROVE  SubSeq(SubSeq(p, 1, n), 1, m) = SubSeq(p, 1, m)
<1> DEFINE q == SubSeq(p, 1, n)
<1>1. Len(p) \in Nat /\ n \in Nat /\ m \in 0..Len(p)
  BY DEF Path
<1>2. q \in Path /\ Len(q) = n /\ \A i \in 1..n : q[i] = p[i]
  BY PrefixOf
<1> HIDE DEF q
<1>3. SubSeq(q, 1, m) \in Path /\ Len(SubSeq(q, 1, m)) = m /\ \A i \in 1..m : SubSeq(q, 1, m)[i] = q[i]
  BY <1>2, PrefixOf
<1>4. SubSeq(p, 1, m) \in Path /\ Len(SubSeq(p, 1, m)) = m /\ \A i \in 1..m : SubSeq(p, 1, m)[i] = p[i]
  BY <1>1, PrefixOf
<1>5. \A i \in 1..m : SubSeq(q, 1, m)[i] = SubSeq(p, 1, m)[i]
  BY <1>1, <1>2, <1>3, <1>4
<1>6. SubSeq(q, 1, m) = SubSeq(p, 1, m)
  BY <1>3, <1>4, <1>5, SeqEqual DEF Path
<1> QED
  BY <1>6 DEF q

(* The directories above a path.                                           *)
LEMMA AboveFacts ==
  ASSUME NEW p \in Path
  PROVE  /\ p \notin Above(p)
         /\ \A q \in Above(p) : q \in Path /\ Above(q) \subseteq Above(p)
<1>1. Len(p) \in Nat
  BY DEF Path
<1>2. ASSUME NEW n \in 0..(Len(p) - 1)
      PROVE  /\ n \in 0..Len(p) /\ SubSeq(p, 1, n) \in Path /\ Len(SubSeq(p, 1, n)) = n
             /\ SubSeq(p, 1, n) # p
  <2>1. n \in 0..Len(p) /\ n # Len(p)
    BY <1>1
  <2> QED
    BY <2>1, PrefixOf
<1>3. p \notin Above(p)
  BY <1>2 DEF Above
<1>4. ASSUME NEW n \in 0..(Len(p) - 1), NEW r \in Above(SubSeq(p, 1, n))
      PROVE  r \in Above(p)
  <2> DEFINE q == SubSeq(p, 1, n)
  <2>1. PICK m \in 0..(Len(q) - 1) : r = SubSeq(q, 1, m)
    BY DEF Above
  <2>2. Len(q) = n /\ n \in 0..Len(p)
    BY <1>2
  <2>3. m \in 0..n /\ m \in 0..(Len(p) - 1)
    BY <1>1, <2>1, <2>2
  <2>4. r = SubSeq(p, 1, m)
    BY <2>1, <2>2, <2>3, PrefixOfPrefix
  <2> QED
    BY <2>3, <2>4 DEF Above
<1>5. ASSUME NEW q \in Above(p) PROVE q \in Path /\ Above(q) \subseteq Above(p)
  <2>1. PICK n \in 0..(Len(p) - 1) : q = SubSeq(p, 1, n)
    BY DEF Above
  <2> QED
    BY <1>2, <1>4, <2>1
<1> QED
  BY <1>3, <1>5

(* What lies above a path below d lies above or below d.                   *)
LEMMA PrefixesInside ==
  ASSUME NEW d \in Path, NEW p \in Path, IsPrefix(d, p), NEW q \in Above(p)
  PROVE  IsPrefix(q, d) \/ IsPrefix(d, q)
<1>1. PICK n \in 0..(Len(p) - 1) : q = SubSeq(p, 1, n)
  BY DEF Above
<1>2. Len(p) \in Nat /\ Len(d) \in Nat /\ n \in 0..Len(p) /\ n \in Nat /\ Len(d) <= Len(p)
  <2>1. Len(p) \in Nat /\ Len(d) \in Nat
    BY DEF Path
  <2> QED
    BY <2>1 DEF IsPrefix
<1>3. SubSeq(d, 1, Len(d)) = SubSeq(p, 1, Len(d))
  BY DEF IsPrefix
<1>4. SubSeq(d, 1, Len(d)) = d /\ Len(q) = n /\ SubSeq(q, 1, n) = SubSeq(p, 1, n)
  <2>1. Len(d) \in 0..Len(d) /\ n \in 0..n
    BY <1>2
  <2>2. SubSeq(d, 1, Len(d)) = d
    BY <2>1, <1>2, PrefixOf, SeqEqual DEF Path
  <2>3. Len(q) = n
    BY <1>1, <1>2, PrefixOf
  <2>4. SubSeq(q, 1, n) = SubSeq(p, 1, n)
    BY <1>1, <1>2, <2>1, PrefixOfPrefix
  <2> QED
    BY <2>2, <2>3, <2>4
<1>5. CASE n <= Len(d)
  <2>1. SubSeq(d, 1, n) = SubSeq(p, 1, n)
    <3>1. Len(d) \in 0..Len(p) /\ n \in 0..Len(d)
      BY <1>2, <1>5
    <3>2. SubSeq(SubSeq(p, 1, Len(d)), 1, n) = SubSeq(p, 1, n)
      BY <3>1, PrefixOfPrefix
    <3> QED
      BY <1>3, <1>4, <3>2
  <2> QED
    BY <1>4, <1>5, <2>1 DEF IsPrefix
<1>6. CASE Len(d) <= n
  <2>1. SubSeq(q, 1, Len(d)) = SubSeq(p, 1, Len(d))
    <3>1. Len(d) \in 0..n
      BY <1>2, <1>6
    <3> QED
      BY <1>1, <1>2, <3>1, PrefixOfPrefix
  <2> QED
    BY <1>3, <1>4, <1>6, <2>1 DEF IsPrefix
<1> QED
  BY <1>2, <1>5, <1>6

-----------------------------------------------------------------------------
(* The file system                                                         *)

(* A path that may be made: its parents are there and it lies above or     *)
(* below d.                                                                *)
Rooted(d, t, p) ==
  /\ p \in Path /\ (IsPrefix(p, d) \/ IsPrefix(d, p))
  /\ Above(p) \subseteq DOMAIN t

TreeOK(d, t, n) == \A p \in DOMAIN t : Rooted(d, t, p) /\ t[p] \in 0..n

(* u has the names of t, as they were, and those in more.                  *)
Grown(t, u, more) ==
  /\ DOMAIN u = DOMAIN t \cup more
  /\ \A q \in DOMAIN t : u[q] = t[q]

(* os.MkdirAll of the directories above p.                                 *)
LEMMA ParentsMade ==
  ASSUME NEW d \in Path, NEW t, NEW n \in Nat, NEW p \in Path, NEW u,
         TreeOK(d, t, n), IsPrefix(d, p), u = Also(t, WithDirs(Above(p)))
  PROVE  TreeOK(d, u, n) /\ Grown(t, u, Above(p)) /\ Rooted(d, u, p)
<1>1. /\ DOMAIN u = DOMAIN t \cup Above(p)
      /\ \A q \in DOMAIN t : u[q] = t[q]
      /\ \A q \in Above(p) : q \notin DOMAIN t => u[q] = 0
  BY DEF WithDirs, Also
<1>2. Rooted(d, u, p)
  BY <1>1 DEF Rooted
<1>3. ASSUME NEW q \in DOMAIN u PROVE Rooted(d, u, q) /\ u[q] \in 0..n
  <2>1. CASE q \in DOMAIN t
    <3>1. Rooted(d, t, q) /\ t[q] \in 0..n
      BY <2>1 DEF TreeOK
    <3> QED
      BY <1>1, <2>1, <3>1 DEF Rooted
  <2>2. CASE q \notin DOMAIN t
    <3>1. q \in Above(p) /\ u[q] = 0
      BY <1>1, <2>2
    <3>2. q \in Path /\ Above(q) \subseteq Above(p) /\ (IsPrefix(q, d) \/ IsPrefix(d, q))
      BY <3>1, AboveFacts, PrefixesInside
    <3> QED
      BY <1>1, <3>1, <3>2 DEF Rooted
  <2> QED
    BY <2>1, <2>2
<1> QED
  BY <1>1, <1>2, <1>3 DEF TreeOK, Grown

(* A new name, or one that stays as it was.                                *)
LEMMA NameMade ==
  ASSUME NEW d, NEW t, NEW n \in Nat, NEW p, NEW m \in Nat, NEW v \in 0..m, NEW u,
         TreeOK(d, t, n), Rooted(d, t, p), n <= m, u = Also(t, One(p, v))
  PROVE  TreeOK(d, u, m) /\ Grown(t, u, {p}) /\ (p \notin DOMAIN t => u[p] = v)
<1>1. /\ DOMAIN u = DOMAIN t \cup {p}
      /\ \A q \in DOMAIN t : u[q] = t[q]
      /\ p \notin DOMAIN t => u[p] = v
  BY DEF Also, One
<1>2. ASSUME NEW q \in DOMAIN u PROVE Rooted(d, u, q) /\ u[q] \in 0..m
  <2>1. CASE q \in DOMAIN t
    <3>1. Rooted(d, t, q) /\ t[q] \in 0..n
      BY <2>1 DEF TreeOK
    <3> QED
      BY <1>1, <2>1, <3>1 DEF Rooted
  <2>2. CASE q \notin DOMAIN t
    BY <1>1, <2>2 DEF Rooted
  <2> QED
    BY <2>1, <2>2
<1> QED
  BY <1>1, <1>2 DEF TreeOK, Grown

-----------------------------------------------------------------------------
(* The invariant.  The names that wait for their contents, in linkMap and  *)
(* in links, have passed the check and have their parents, so that os.Link *)
(* may make them later; the file being copied has its name.                *)

InodeType == [type : Types, of : Nat, len : Nat]

InputInv ==
  /\ input \in Inputs
  /\ places = [k \in DOMAIN entries |-> sanitize(input.dest, entries[k])]

TreeInv == inodes \in Seq(InodeType) /\ TreeOK(input.dest.path, tree, Len(inodes))

Waits(d, t, ps) == ps \in Seq(Path) /\ \A j \in 1..Len(ps) : Rooted(d, t, ps[j])

WaitInv ==
  /\ Waits(input.dest.path, tree, links)
  /\ \A i \in DOMAIN linkMap : Waits(input.dest.path, tree, linkMap[i]) /\ linkMap[i] # <<>>

CopyInv == file # 0 \/ links # <<>> => pos # 0 /\ Target(pos) \in DOMAIN tree

IInv ==
  /\ pass \in 1..MaxPasses /\ pos \in 0..Len(entries)
  /\ file \in 0..Len(inodes) /\ written \in Nat
  /\ InputInv /\ TreeInv /\ WaitInv /\ CopyInv

(* The archive and the places of its entries.                              *)
LEMMA InputFacts ==
  ASSUME InputInv
  PROVE  /\ input.dest.path \in Path /\ Len(entries) \in Nat /\ DOMAIN entries = 1..Len(entries)
         /\ \A k \in 1..Len(entries) :
              /\ Target(k) \in Path
              /\ places[k].ok => IsPrefix(input.dest.path, Target(k))
              /\ entries[k].size \in Nat /\ entries[k].type \in Types
<1>1. InputOK(input)
  BY InputsAssumption DEF InputInv
<1>2. /\ input.dest.path \in Path /\ DOMAIN entries = 1..Len(entries) /\ Len(entries) \in Nat
      /\ \A k \in 1..Len(entries) : /\ entries[k].path \in Path
                                    /\ entries[k].type \in Types /\ entries[k].size \in Nat
  BY <1>1 DEF InputOK, entries, Path
<1>3. ASSUME NEW k \in 1..Len(entries)
      PROVE  Target(k) \in Path /\ (places[k].ok => IsPrefix(input.dest.path, Target(k)))
  <2>1. places[k] = sanitize(input.dest, entries[k])
    BY <1>2 DEF InputInv
  <2>2. LET s == sanitize(input.dest, entries[k])
        IN  s.path \in Path /\ (s.ok => IsPrefix(input.dest.path, s.path))
    BY <1>2, SanitizeFacts
  <2> QED
    BY <2>1, <2>2 DEF Target
<1> QED
  BY <1>2, <1>3

(* Names that wait go on waiting when the tree grows.                      *)
LEMMA StillWaits ==
  ASSUME NEW d, NEW t, NEW u, NEW ps, Waits(d, t, ps), DOMAIN t \subseteq DOMAIN u
  PROVE  Waits(d, u, ps)
BY DEF Waits, Rooted

(* The same for all of them.                                               *)
LEMMA AllStillWait ==
  ASSUME WaitInv, input' = input, DOMAIN tree \subseteq DOMAIN tree', UNCHANGED <<linkMap, links>>
  PROVE  WaitInv'
BY StillWaits DEF WaitInv

(* The invariant gives TypeOK and InsideDest.                              *)
LEMMA TypeFollows == IInv => TypeOK /\ InsideDest
<1> SUFFICES ASSUME IInv PROVE TypeOK /\ InsideDest
  OBVIOUS
<1>1. TypeOK
  BY DEF IInv, TreeInv, TreeOK, Rooted, WaitInv, TypeOK
<1>2. InsideDest
  BY DEF IInv, TreeInv, TreeOK, Rooted, InsideDest
<1> QED
  BY <1>1, <1>2

-----------------------------------------------------------------------------
(* A step that only returns, or does nothing.                              *)
LEMMA ReturnIInv ==
  ASSUME IInv, UNCHANGED <<input, places, pass, pos, linkMap, file, written, links, tree, inodes>>
  PROVE  IInv'
BY DEF IInv, InputInv, TreeInv, WaitInv, CopyInv, entries, Target

(* Extract starts on an empty file system.                                 *)
LEMMA InitIInv == Init => IInv
<1> SUFFICES ASSUME Init PROVE IInv
  OBVIOUS
<1>1. /\ input \in Inputs /\ pass = 1 /\ pos = 0 /\ linkMap = <<>> /\ file = 0 /\ written = 0
      /\ links = <<>> /\ tree = One(<<>>, 0) /\ inodes = <<>> /\ InputInv
  BY DEF Init, Start, InputInv, entries
<1>2. Len(entries) \in Nat /\ input.dest.path \in Path
  BY <1>1, InputFacts
<1>3. DOMAIN tree = {<<>>} /\ tree[<<>>] = 0
  BY <1>1 DEF One
<1>4. Rooted(input.dest.path, tree, <<>>)
  <2>1. <<>> \in Path /\ Len(<<>>) = 0
    BY DEF Path
  <2>2. Above(<<>>) = {}
    BY <2>1 DEF Above
  <2>3. IsPrefix(<<>>, input.dest.path)
    <3>1. 0 <= Len(input.dest.path)
      BY <1>2 DEF Path
    <3>2. SubSeq(<<>>, 1, 0) = SubSeq(input.dest.path, 1, 0)
      OBVIOUS
    <3> QED
      BY <2>1, <3>1, <3>2 DEF IsPrefix
  <2> QED
    BY <2>1, <2>2, <2>3 DEF Rooted
<1>5. TreeInv
  BY <1>1, <1>3, <1>4 DEF TreeInv, TreeOK
<1>6. WaitInv
  BY <1>1 DEF WaitInv, Waits
<1>7. pass \in 1..MaxPasses
  BY <1>1, BoundsAssumption
<1> QED
  BY <1>1, <1>2, <1>5, <1>6, <1>7 DEF IInv, CopyInv

(* The entry that is read passes the check: its place is dest or below it, *)
(* and stays there when the directories above it have been made.           *)
LEMMA EntryFacts ==
  ASSUME IInv, NEW types, NextEntry(TRUE, types)
  PROVE  /\ pos' = pos + 1 /\ pos' \in 1..Len(entries) /\ UNCHANGED <<input, places, pass>>
         /\ file = 0 /\ links = <<>> /\ InputInv' /\ target = Target(pos)'
         /\ entries' = entries /\ input.dest.path \in Path /\ Len(inodes) \in Nat
         /\ e.type \in types /\ pos + 1 \in Nat
         /\ Grown(tree, WithParents, Above(target)) /\ target \notin Above(target)
         /\ TreeOK(input.dest.path, WithParents, Len(inodes))
         /\ Rooted(input.dest.path, WithParents, target)
<1>1. /\ pos' = pos + 1 /\ pos < Len(entries) /\ UNCHANGED <<input, places, pass>>
      /\ file = 0 /\ links = <<>> /\ places[pos + 1].ok = TRUE /\ e.type \in types
  BY DEF NextEntry, Idle
<1>2. /\ pos \in 0..Len(entries) /\ InputInv /\ inodes \in Seq(InodeType)
      /\ TreeOK(input.dest.path, tree, Len(inodes))
  BY DEF IInv, TreeInv
<1>3. /\ input.dest.path \in Path /\ Len(entries) \in Nat
      /\ \A k \in 1..Len(entries) :
           /\ Target(k) \in Path
           /\ places[k].ok => IsPrefix(input.dest.path, Target(k))
  BY <1>2, InputFacts
<1>4. pos + 1 \in 1..Len(entries) /\ Len(inodes) \in Nat
  BY <1>1, <1>2, <1>3
<1>5. target \in Path /\ IsPrefix(input.dest.path, target)
  BY <1>1, <1>3, <1>4 DEF target
<1>6. InputInv' /\ target = Target(pos)' /\ entries' = entries
  BY <1>1, <1>2 DEF InputInv, entries, target, Target
<1>7. WithParents = Also(tree, WithDirs(Above(target)))
  BY DEF WithParents
<1>8. target \notin Above(target)
  BY <1>5, AboveFacts
<1> HIDE DEF target
<1>9. /\ TreeOK(input.dest.path, WithParents, Len(inodes))
      /\ Grown(tree, WithParents, Above(target))
      /\ Rooted(input.dest.path, WithParents, target)
  BY <1>2, <1>3, <1>4, <1>5, <1>7, ParentsMade, Zenon
<1> QED
  BY <1>1, <1>3, <1>4, <1>6, <1>8, <1>9

(* The entry is done with once the directories above it are there.         *)
LEMMA DoneIInv ==
  ASSUME IInv, NEW types, NextEntry(TRUE, types), NEW err, Done(err)
  PROVE  IInv'
<1>1. tree' = WithParents /\ UNCHANGED <<linkMap, file, written, links, inodes>>
  BY DEF Done
<1>2. /\ pos' \in 1..Len(entries) /\ UNCHANGED <<input, places, pass>>
      /\ file = 0 /\ links = <<>> /\ InputInv' /\ entries' = entries
      /\ Grown(tree, WithParents, Above(target))
      /\ TreeOK(input.dest.path, WithParents, Len(inodes))
  BY EntryFacts
<1>3. TreeInv'
  BY <1>1, <1>2 DEF IInv, TreeInv
<1>4. WaitInv'
  BY <1>1, <1>2, AllStillWait DEF IInv, Grown
<1> QED
  BY <1>1, <1>2, <1>3, <1>4 DEF IInv, CopyInv

(* An entry that does not pass the check.                                  *)
LEMMA InvalidPathIInv == IInv /\ InvalidPath => IInv'
<1> SUFFICES ASSUME IInv, InvalidPath PROVE IInv'
  OBVIOUS
<1>1. /\ pos' = pos + 1 /\ pos < Len(entries) /\ file = 0 /\ links = <<>>
      /\ UNCHANGED <<input, places, pass, linkMap, file, written, links, tree, inodes>>
  BY DEF InvalidPath, NextEntry, Idle, fsVars
<1>2. pos \in 0..Len(entries) /\ Len(entries) \in Nat /\ entries' = entries
  BY <1>1, InputFacts DEF IInv, entries
<1>3. pos' \in 0..Len(entries)
  BY <1>1, <1>2
<1> QED
  BY <1>1, <1>2, <1>3 DEF IInv, InputInv, TreeInv, WaitInv, CopyInv

(* os.Mkdir.                                                               *)
LEMMA MakeDirIInv == IInv /\ MakeDir => IInv'
<1> SUFFICES ASSUME IInv, MakeDir PROVE IInv'
  OBVIOUS
<1>1. /\ NextEntry(TRUE, {"dir"}) /\ tree' = Also(WithParents, WithDirs({target}))
      /\ UNCHANGED <<linkMap, file, written, links, inodes>>
  BY DEF MakeDir
<1>2. /\ pos' \in 1..Len(entries) /\ UNCHANGED <<input, places, pass>>
      /\ file = 0 /\ links = <<>> /\ InputInv' /\ entries' = entries /\ Len(inodes) \in Nat
      /\ Grown(tree, WithParents, Above(target))
      /\ TreeOK(input.dest.path, WithParents, Len(inodes))
      /\ Rooted(input.dest.path, WithParents, target)
  BY <1>1, EntryFacts
<1>3. tree' = Also(WithParents, One(target, 0))
  BY <1>1 DEF WithDirs, One
<1>4. TreeOK(input.dest.path, tree', Len(inodes)) /\ Grown(WithParents, tree', {target})
  <2>1. 0 \in 0..Len(inodes) /\ Len(inodes) <= Len(inodes)
    BY <1>2
  <2> QED
    BY <1>2, <1>3, <2>1, NameMade, Zenon
<1>5. TreeInv'
  BY <1>1, <1>2, <1>4 DEF IInv, TreeInv
<1>6. WaitInv'
  BY <1>1, <1>2, <1>4, AllStillWait DEF IInv, Grown
<1> QED
  BY <1>1, <1>2, <1>5, <1>6 DEF IInv, CopyInv

(* A new inode under the name of the entry.                                *)
LEMMA NewInodeFacts ==
  ASSUME IInv, NEW types, NextEntry(TRUE, types), NEW ty \in Types, NewInode(ty), ~Exists
  PROVE  /\ TreeInv' /\ WaitInv' /\ Len(inodes') = Len(inodes) + 1
         /\ target \in DOMAIN tree' /\ tree'[target] = Len(inodes) + 1
<1>1. /\ tree' = Also(WithParents, One(target, Len(inodes) + 1))
      /\ inodes' = Append(inodes, [type |-> ty, of |-> pos + 1, len |-> 0])
      /\ UNCHANGED <<linkMap, links>> /\ target \notin DOMAIN WithParents
  BY DEF NewInode, Exists
<1>2. /\ UNCHANGED input /\ Len(inodes) \in Nat /\ pos + 1 \in Nat
      /\ Grown(tree, WithParents, Above(target))
      /\ TreeOK(input.dest.path, WithParents, Len(inodes))
      /\ Rooted(input.dest.path, WithParents, target)
  BY EntryFacts
<1>3. /\ TreeOK(input.dest.path, tree', Len(inodes) + 1)
      /\ Grown(WithParents, tree', {target}) /\ tree'[target] = Len(inodes) + 1
  <2>1. PICK m : m = Len(inodes) + 1
    OBVIOUS
  <2>2. m \in 0..m /\ m \in Nat /\ Len(inodes) <= m
    BY <1>2, <2>1
  <2>3. tree' = Also(WithParents, One(target, m))
    BY <1>1, <2>1
  <2>4. TreeOK(input.dest.path, tree', m) /\ Grown(WithParents, tree', {target})
    BY <1>2, <2>2, <2>3, NameMade, Zenon
  <2>5. tree'[target] = m
    BY <1>1, <2>3 DEF Also, One
  <2> QED
    BY <2>1, <2>4, <2>5
<1>4. inodes' \in Seq(InodeType) /\ Len(inodes') = Len(inodes) + 1
  <2>1. [type |-> ty, of |-> pos + 1, len |-> 0] \in InodeType
    BY <1>2 DEF InodeType
  <2>2. inodes \in Seq(InodeType)
    BY DEF IInv, TreeInv
  <2> QED
    BY <1>1, <2>1, <2>2, AppendProperties
<1>5. TreeInv'
  BY <1>2, <1>3, <1>4 DEF TreeInv
<1>6. WaitInv'
  BY <1>1, <1>2, <1>3, AllStillWait DEF IInv, Grown
<1> QED
  BY <1>3, <1>4, <1>5, <1>6 DEF Grown

(* Mkfifo and os.Symlink.                                                  *)
LEMMA MakeSpecialIInv ==
  ASSUME IInv, NEW types, NextEntry(TRUE, types), NEW ty \in Types, MakeSpecial(ty)
  PROVE  IInv'
<1>1. CASE Exists
  BY <1>1, DoneIInv DEF MakeSpecial
<1>2. CASE ~Exists
  <2>1. NewInode(ty) /\ UNCHANGED <<file, written>> /\ UNCHANGED links
    BY <1>2 DEF MakeSpecial, NewInode
  <2>2. /\ pos' \in 1..Len(entries) /\ UNCHANGED <<input, places, pass>>
        /\ file = 0 /\ links = <<>> /\ InputInv' /\ entries' = entries /\ Len(inodes) \in Nat
    BY EntryFacts
  <2>3. TreeInv' /\ WaitInv' /\ Len(inodes') = Len(inodes) + 1
    BY <1>2, <2>1, NewInodeFacts
  <2>4. 0 \in 0..Len(inodes')
    BY <2>2, <2>3
  <2> QED
    BY <2>1, <2>2, <2>3, <2>4 DEF IInv, CopyInv
<1> QED
  BY <1>1, <1>2

(* A symbolic link.                                                        *)
LEMMA MakeSymlinkIInv == IInv /\ MakeSymlink => IInv'
<1> SUFFICES ASSUME IInv, MakeSymlink PROVE IInv'
  OBVIOUS
<1>1. NextEntry(TRUE, {"lnk"}) /\ "lnk" \in Types
  BY DEF MakeSymlink, Types
<1>2. (\E err : Done(err)) \/ MakeSpecial("lnk")
  BY Zenon DEF MakeSymlink
<1> QED
  BY <1>1, <1>2, DoneIInv, MakeSpecialIInv

(* A link waits for its contents; the directories above it are there.      *)
LEMMA SaveLinkIInv == IInv /\ SaveLink => IInv'
<1> SUFFICES ASSUME IInv, SaveLink PROVE IInv'
  OBVIOUS
<1> DEFINE ps == Append(Waiting(e.ino), target)
           ino == e.ino
<1>1. /\ NextEntry(TRUE, {"reg"}) /\ tree' = WithParents
      /\ linkMap' = Also(One(ino, ps), linkMap)
      /\ UNCHANGED <<file, written, links, inodes>>
  BY DEF SaveLink
<1>2. /\ pos' \in 1..Len(entries) /\ UNCHANGED <<input, places, pass>>
      /\ file = 0 /\ links = <<>> /\ InputInv' /\ entries' = entries
      /\ Grown(tree, WithParents, Above(target))
      /\ TreeOK(input.dest.path, WithParents, Len(inodes))
      /\ Rooted(input.dest.path, WithParents, target)
  BY <1>1, EntryFacts
<1>3. TreeInv'
  BY <1>1, <1>2 DEF IInv, TreeInv
<1>4. Waits(input.dest.path, tree', Waiting(ino))
  <2>1. CASE ino \in DOMAIN linkMap
    <3>1. Waits(input.dest.path, tree, linkMap[ino])
      BY <2>1 DEF IInv, WaitInv
    <3>2. Waits(input.dest.path, tree', linkMap[ino])
      BY <1>1, <1>2, <3>1, StillWaits DEF Grown
    <3> QED
      BY <2>1, <3>2 DEF Waiting
  <2>2. CASE ino \notin DOMAIN linkMap
    BY <2>2 DEF Waiting, Waits
  <2> QED
    BY <2>1, <2>2
<1>5. Waits(input.dest.path, tree', ps) /\ ps # <<>>
  <2> DEFINE w == Waiting(ino)
  <2>1. w \in Seq(Path) /\ target \in Path /\ \A j \in 1..Len(w) : Rooted(input.dest.path, tree', w[j])
    BY <1>2, <1>4 DEF Waits, Rooted
  <2>2. /\ ps \in Seq(Path) /\ Len(ps) = Len(w) + 1
        /\ \A j \in 1..Len(w) : ps[j] = w[j]
        /\ ps[Len(w) + 1] = target
    BY <2>1, AppendProperties
  <2> HIDE DEF ps, w
  <2>3. Len(w) \in Nat
    BY <2>1
  <2>4. ASSUME NEW j \in 1..Len(ps) PROVE Rooted(input.dest.path, tree', ps[j])
    <3>1. j \in 1..Len(w) \/ j = Len(w) + 1
      BY <2>2, <2>3
    <3> QED
      BY <1>1, <1>2, <2>1, <2>2, <3>1
  <2> QED
    BY <2>2, <2>3, <2>4 DEF Waits
<1> HIDE DEF ps, ino
<1>6. WaitInv'
  <2>1. Waits(input.dest.path, tree', links)
    BY <1>1, <1>2, StillWaits DEF IInv, WaitInv, Grown
  <2>2. ASSUME NEW i \in DOMAIN linkMap'
        PROVE  Waits(input.dest.path, tree', linkMap'[i]) /\ linkMap'[i] # <<>>
    <3>1. CASE i = ino
      <4>1. linkMap'[i] = ps
        BY <1>1, <3>1 DEF Also, One
      <4> QED
        BY <1>5, <4>1
    <3>2. CASE i # ino
      <4>1. i \in DOMAIN linkMap /\ linkMap'[i] = linkMap[i]
        BY <1>1, <2>2, <3>2 DEF Also, One
      <4>2. Waits(input.dest.path, tree, linkMap[i]) /\ linkMap[i] # <<>>
        BY <4>1 DEF IInv, WaitInv
      <4>3. Waits(input.dest.path, tree', linkMap[i])
        BY <1>1, <1>2, <4>2, StillWaits DEF Grown
      <4> QED
        BY <4>1, <4>2, <4>3
    <3> QED
      BY <3>1, <3>2
  <2> QED
    BY <1>1, <1>2, <2>1, <2>2 DEF WaitInv
<1> QED
  BY <1>1, <1>2, <1>3, <1>6 DEF IInv, CopyInv

(* os.Create: nothing is made if there is a directory; what is there is    *)
(* truncated, and keeps its inode.                                         *)
LEMMA CreateIInv == IInv /\ Create => IInv'
<1> SUFFICES ASSUME IInv, Create PROVE IInv'
  OBVIOUS
<1>1. NextEntry(TRUE, {"reg"}) /\ "reg" \in Types
  BY DEF Create, Types
<1>2. /\ pos' = pos + 1 /\ pos' \in 1..Len(entries) /\ UNCHANGED <<input, places, pass>>
      /\ file = 0 /\ links = <<>> /\ InputInv' /\ target = Target(pos)'
      /\ entries' = entries /\ Len(inodes) \in Nat /\ pos + 1 \in Nat
      /\ Grown(tree, WithParents, Above(target)) /\ target \notin Above(target)
      /\ TreeOK(input.dest.path, WithParents, Len(inodes))
  BY <1>1, EntryFacts
<1>3. CASE Exists /\ WithParents[target] = 0
  <2>1. Done("is a directory")
    BY <1>3 DEF Create
  <2> QED
    BY <1>1, <2>1, DoneIInv
<1>4. CASE Exists /\ WithParents[target] # 0
  <2> DEFINE n == tree[target]
  <2>1. /\ tree' = WithParents /\ UNCHANGED <<linkMap, links>>
        /\ inodes' = [inodes EXCEPT ![n] = [@ EXCEPT !.of = pos + 1, !.len = 0]]
        /\ file' = tree'[target] /\ written' = 0
    BY <1>4 DEF Create
  <2>2. target \in DOMAIN tree /\ WithParents[target] = n /\ n \in 1..Len(inodes)
    <3>1. target \in DOMAIN WithParents
      BY <1>4 DEF Exists
    <3>2. target \in DOMAIN tree /\ WithParents[target] = n
      BY <1>2, <3>1 DEF Grown
    <3>3. n \in 0..Len(inodes) /\ n # 0
      BY <1>2, <1>4, <3>1, <3>2 DEF TreeOK
    <3> QED
      BY <1>2, <3>2, <3>3
  <2>3. inodes \in Seq(InodeType)
    BY DEF IInv, TreeInv
  <2> HIDE DEF n
  <2>4. inodes[n] \in InodeType
    BY <2>2, <2>3
  <2>5. [inodes[n] EXCEPT !.of = pos + 1, !.len = 0] \in InodeType
    BY <1>2, <2>4 DEF InodeType
  <2>6. inodes' = [inodes EXCEPT ![n] = [inodes[n] EXCEPT !.of = pos + 1, !.len = 0]]
    BY <2>1
  <2>7. inodes' \in Seq(InodeType) /\ Len(inodes') = Len(inodes)
    BY <2>2, <2>3, <2>5, <2>6, ExceptSeq
  <2>8. TreeInv'
    BY <1>2, <2>1, <2>7 DEF TreeInv
  <2>9. WaitInv'
    BY <1>2, <2>1, AllStillWait DEF IInv, Grown
  <2>10. file' \in 0..Len(inodes') /\ written' \in Nat /\ Target(pos)' \in DOMAIN tree' /\ pos' # 0
    BY <1>2, <2>1, <2>2, <2>7 DEF Grown
  <2> QED
    BY <1>2, <2>8, <2>9, <2>10 DEF IInv, CopyInv
<1>5. CASE ~Exists
  <2>1. NewInode("reg") /\ file' = tree'[target] /\ written' = 0
    BY <1>5 DEF Create
  <2>2. /\ TreeInv' /\ WaitInv' /\ Len(inodes') = Len(inodes) + 1
        /\ target \in DOMAIN tree' /\ tree'[target] = Len(inodes) + 1
    BY <1>1, <1>5, <2>1, NewInodeFacts
  <2>3. file' \in 0..Len(inodes') /\ written' \in Nat /\ Target(pos)' \in DOMAIN tree' /\ pos' # 0
    BY <1>2, <2>1, <2>2
  <2> QED
    BY <1>2, <2>2, <2>3 DEF IInv, CopyInv
<1> QED
  BY <1>3, <1>4, <1>5

(* io.Copy makes the file longer.                                          *)
LEMMA CopyIInv == IInv /\ Copy => IInv'
<1> SUFFICES ASSUME IInv, Copy PROVE IInv'
  OBVIOUS
<1>1. PICK n \in 1..(Available(pos) - written) :
        /\ written' = written + n
        /\ inodes' = [inodes EXCEPT ![file].len = @ + n]
  BY DEF Copy
<1>2. file # 0 /\ UNCHANGED <<input, places, pass, pos, linkMap, file, links, tree>>
  BY DEF Copy
<1>3. n \in Nat /\ inodes \in Seq(InodeType) /\ file \in 1..Len(inodes) /\ written \in Nat
  BY <1>1, <1>2 DEF IInv, TreeInv
<1>4. inodes' \in Seq(InodeType) /\ Len(inodes') = Len(inodes)
  <2>1. inodes[file] \in InodeType
    BY <1>3
  <2> DEFINE l == inodes[file].len + n
  <2>2. [inodes[file] EXCEPT !.len = l] \in InodeType
    <3>1. l \in Nat
      BY <1>3, <2>1 DEF InodeType
    <3> HIDE DEF l
    <3> QED
      BY <2>1, <3>1 DEF InodeType
  <2>3. inodes' = [inodes EXCEPT ![file] = [inodes[file] EXCEPT !.len = l]]
    BY <1>1
  <2> QED
    BY <1>3, <2>2, <2>3, ExceptSeq
<1>5. TreeInv'
  BY <1>2, <1>4 DEF IInv, TreeInv
<1>6. WaitInv'
  BY <1>2 DEF IInv, WaitInv
<1>7. written' \in Nat
  BY <1>1, <1>3
<1> QED
  BY <1>2, <1>4, <1>5, <1>6, <1>7 DEF IInv, InputInv, CopyInv, entries, Target

(* The contents are there; the names in linkMap are linked next.           *)
LEMMA CopyEndIInv == IInv /\ CopyEnd => IInv'
<1> SUFFICES ASSUME IInv, CopyEnd PROVE IInv'
  OBVIOUS
<1>1. ASSUME NEW err, Return(err), UNCHANGED fsVars PROVE IInv'
  BY <1>1, ReturnIInv DEF Return, fsVars
<1>2. ASSUME ~(HasLinks(pos) /\ entries[pos].ino \notin DOMAIN linkMap), file' = 0,
             links' = IF HasLinks(pos) THEN linkMap[entries[pos].ino] ELSE <<>>,
             UNCHANGED <<input, places, pass, pos, linkMap, written>>, UNCHANGED fsVars
      PROVE  IInv'
  <2>1. UNCHANGED <<input, places, pass, pos, linkMap, written, tree, inodes>>
    BY <1>2 DEF fsVars
  <2>2. Waits(input.dest.path, tree, links')
    <3>1. CASE HasLinks(pos)
      BY <1>2, <3>1 DEF IInv, WaitInv
    <3>2. CASE ~HasLinks(pos)
      BY <1>2, <3>2 DEF Waits
    <3> QED
      BY <3>1, <3>2
  <2>3. WaitInv'
    BY <2>1, <2>2 DEF IInv, WaitInv
  <2>4. pos # 0 /\ Target(pos) \in DOMAIN tree
    BY DEF CopyEnd, IInv, CopyInv
  <2>5. Len(inodes) \in Nat
    BY DEF IInv, TreeInv
  <2>6. TreeInv'
    BY <2>1 DEF IInv, TreeInv
  <2>7. InputInv' /\ CopyInv' /\ entries' = entries
    BY <2>1, <2>4 DEF IInv, InputInv, CopyInv, entries, Target
  <2> QED
    BY <1>2, <2>1, <2>3, <2>5, <2>6, <2>7 DEF IInv
<1>3. \/ \E err : Return(err)
      \/ /\ ~(HasLinks(pos) /\ entries[pos].ino \notin DOMAIN linkMap) /\ file' = 0
         /\ links' = IF HasLinks(pos) THEN linkMap[entries[pos].ino] ELSE <<>>
         /\ UNCHANGED <<input, places, pass, pos, linkMap, written>>
  BY Zenon DEF CopyEnd
<1>4. UNCHANGED fsVars
  BY DEF CopyEnd
<1> QED
  BY <1>1, <1>2, <1>3, <1>4

(* os.Link: the name has waited, so it lies inside and has its parents.    *)
LEMMA MakeLinkIInv == IInv /\ MakeLink => IInv'
<1> SUFFICES ASSUME IInv, MakeLink PROVE IInv'
  OBVIOUS
<1>1. CASE Head(links) \in DOMAIN tree
  BY <1>1, ReturnIInv DEF MakeLink, Return
<1>2. CASE Head(links) \notin DOMAIN tree
  <2> DEFINE p == Head(links)
             v == tree[Target(pos)]
             d == input.dest.path
             n == Len(inodes)
  <2>1. /\ links # <<>> /\ file = 0 /\ tree' = Also(tree, One(p, v)) /\ links' = Tail(links)
        /\ UNCHANGED <<input, places, pass, pos, linkMap, file, written, inodes>>
    BY <1>2 DEF MakeLink
  <2>2. Waits(d, tree, links) /\ TreeOK(d, tree, n) /\ n \in Nat
    BY DEF IInv, WaitInv, TreeInv
  <2>3. pos # 0 /\ Target(pos) \in DOMAIN tree
    BY <2>1 DEF IInv, CopyInv
  <2>4. v \in 0..n
    BY <2>2, <2>3 DEF TreeOK
  <2>5. links \in Seq(Path) /\ Len(links) \in Nat /\ Len(links) # 0 /\ p = links[1]
    BY <2>1, <2>2 DEF Waits
  <2>6. Rooted(d, tree, p)
    BY <2>2, <2>5 DEF Waits
  <2>7. n <= n
    BY <2>2
  <2> HIDE DEF p, v, d, n
  <2>8. TreeOK(d, tree', n) /\ Grown(tree, tree', {p})
    BY <2>1, <2>2, <2>4, <2>6, <2>7, NameMade, Zenon
  <2>9. Waits(d, tree, Tail(links))
    <3>1. Tail(links) \in Seq(Path) /\ Len(Tail(links)) = Len(links) - 1
          /\ \A j \in 1..(Len(links) - 1) : Tail(links)[j] = links[j + 1]
      BY <2>1, <2>5, HeadTailProperties
    <3>2. \A j \in 1..(Len(links) - 1) : j + 1 \in 1..Len(links)
      BY <2>5
    <3> QED
      BY <2>2, <3>1, <3>2 DEF Waits
  <2>10. Waits(d, tree', links')
    BY <2>1, <2>8, <2>9, StillWaits DEF Grown
  <2>11. \A i \in DOMAIN linkMap : Waits(d, tree', linkMap[i]) /\ linkMap[i] # <<>>
    BY <2>8, StillWaits DEF Grown, IInv, WaitInv, d
  <2>12. WaitInv'
    BY <2>1, <2>10, <2>11 DEF WaitInv, d
  <2>13. TreeInv'
    BY <2>1, <2>8 DEF IInv, TreeInv, d, n
  <2>14. Target(pos) \in DOMAIN tree'
    BY <2>3, <2>8 DEF Grown
  <2>15. InputInv' /\ CopyInv' /\ entries' = entries
    BY <2>1, <2>3, <2>14 DEF IInv, InputInv, CopyInv, entries, Target
  <2> QED
    BY <2>1, <2>12, <2>13, <2>15 DEF IInv
<1> QED
  BY <1>1, <1>2

(* The archive is extracted once more.                                     *)
LEMMA AgainIInv == IInv /\ Again => IInv'
<1> SUFFICES ASSUME IInv, Again PROVE IInv'
  OBVIOUS
<1>1. /\ pass < MaxPasses /\ pass' = pass + 1 /\ pos' = 0 /\ linkMap' = <<>> /\ file' = 0
      /\ written' = 0 /\ links' = <<>> /\ UNCHANGED <<input, places, tree, inodes>>
  BY DEF Again
<1>2. pass' \in 1..MaxPasses
  BY <1>1, BoundsAssumption DEF IInv
<1>3. InputInv' /\ TreeInv' /\ entries' = entries
  BY <1>1 DEF IInv, InputInv, TreeInv, entries
<1>4. WaitInv' /\ CopyInv'
  BY <1>1 DEF WaitInv, Waits, CopyInv
<1>5. Len(entries) \in Nat /\ Len(inodes) \in Nat
  BY InputFacts DEF IInv, TreeInv
<1> QED
  BY <1>1, <1>2, <1>3, <1>4, <1>5 DEF IInv

(* Every step keeps the invariant.                                         *)
LEMMA NextIInv == IInv /\ [Next]_vars => IInv'
<1> SUFFICES ASSUME IInv, [Next]_vars PROVE IInv'
  OBVIOUS
<1>1. CASE NextFails
  BY <1>1, ReturnIInv DEF NextFails, Return, fsVars
<1>2. CASE Trailer
  BY <1>2, ReturnIInv DEF Trailer, Return, fsVars
<1>3. CASE InvalidPath
  BY <1>3, InvalidPathIInv
<1>4. CASE SkipDevice
  BY <1>4, DoneIInv DEF SkipDevice
<1>5. CASE UnknownMode
  BY <1>5, DoneIInv DEF UnknownMode
<1>6. CASE MakeDir
  BY <1>6, MakeDirIInv
<1>7. CASE MakeFifo
  BY <1>7, MakeSpecialIInv DEF MakeFifo, Types
<1>8. CASE MakeSymlink
  BY <1>8, MakeSymlinkIInv
<1>9. CASE SaveLink
  BY <1>9, SaveLinkIInv
<1>10. CASE Create
  BY <1>10, CreateIInv
<1>11. CASE Copy
  BY <1>11, CopyIInv
<1>12. CASE CopyEnd
  BY <1>12, CopyEndIInv
<1>13. CASE MakeLink
  BY <1>13, MakeLinkIInv
<1>14. CASE CallFails
  BY <1>14, ReturnIInv DEF CallFails, Return, fsVars
<1>15. CASE Again
  BY <1>15, AgainIInv
<1>16. CASE UNCHANGED vars
  BY <1>16, ReturnIInv DEF vars
<1> QED
  BY <1>1, <1>2, <1>3, <1>4, <1>5, <1>6, <1>7, <1>8, <1>9, <1>10, <1>11, <1>12, <1>13, <1>14,
     <1>15, <1>16 DEF Next, Step

(* The invariant holds in every state of every extraction.                 *)
THEOREM Invariance == Spec => []IInv
BY InitIInv, NextIInv, PTL DEF Spec

(* The variables of Extract keep their types, every name has all the       *)
(* directories above it, and no waiting list is empty.                     *)
THEOREM TypeCorrect == Spec => []TypeOK
BY Invariance, TypeFollows, PTL

(* Whatever ".." the names of an archive hold, whatever links wait, and    *)
(* wherever it breaks off, nothing is made outside dest                    *)
(* (extract.go:62-71).                                                     *)
THEOREM Inside == Spec => []InsideDest
BY Invariance, TypeFollows, PTL

-----------------------------------------------------------------------------
(* What is on disk.  A second invariant, on top of the first: an inode is  *)
(* known by the entry it was made for, and names but for those of waiting  *)
(* links lead to the inode of their own entry.  So neither the truncation  *)
(* of os.Create nor the copying touches the file of another entry, and     *)
(* entries that are done with stay as they are.                            *)

(* The entry waits in linkMap, or makes an inode of its own.               *)
LinkEntry(k) == entries[k].type = "reg" /\ entries[k].nlink > 1 /\ entries[k].size = 0
OwnFile(k)   == entries[k].type \in {"fifo", "lnk", "reg"} /\ ~LinkEntry(k)

(* No error was returned so far.                                           *)
Going == ret \in {"running", "nil"}

OwnedBy(i, k) == OwnFile(k) /\ inodes[i].of = k /\ inodes[i].type = entries[k].type
NameOf(p, k)  == p = Target(k) /\ (LinkEntry(k) \/ OwnedBy(tree[p], k))
NamesInv == \A p \in DOMAIN tree : tree[p] # 0 => \E k \in 1..Len(entries) : NameOf(p, k)

(* ps are the places of waiting links to i among the first n entries.      *)
From(i, ps, n) ==
  \A j \in 1..Len(ps) : \E k \in 1..n : LinkEntry(k) /\ entries[k].ino = i /\ ps[j] = Target(k)
In(p, ps) == \E j \in 1..Len(ps) : ps[j] = p
Saved(k) == entries[k].ino \in DOMAIN linkMap /\ In(Target(k), linkMap[entries[k].ino])
MapInv ==
  /\ \A i \in DOMAIN linkMap : From(i, linkMap[i], pos)
  /\ links # <<>> => From(entries[pos].ino, links, pos) /\ file = 0 /\ ret # "nil"
  /\ Going => \A k \in 1..pos : LinkEntry(k) => Saved(k)

(* Entry k has its inode, with len bytes.                                  *)
Made(k, len) ==
  /\ Target(k) \in DOMAIN tree /\ tree[Target(k)] # 0
  /\ inodes[tree[Target(k)]] = [type |-> entries[k].type, of |-> k, len |-> len]
FullLen(k) == IF entries[k].type = "reg" THEN entries[k].size ELSE 0
Good(k) ==
  /\ entries[k].type = "dir" => Target(k) \in DOMAIN tree /\ tree[Target(k)] = 0
  /\ OwnFile(k) => Made(k, FullLen(k))
DoneInv == Going => \A k \in 1..pos : k < pos \/ file = 0 => Good(k)

ContentsInv ==
  Going /\ file # 0 =>
    /\ pos # 0 /\ OwnFile(pos) /\ entries[pos].type = "reg"
    /\ Made(pos, written) /\ tree[Target(pos)] = file

(* The links that waited for m share its inode, or are about to.           *)
Joins(k, m) ==
  /\ HasLinks(m) /\ entries[m].type = "reg"
  /\ LinkEntry(k) /\ entries[k].ino = entries[m].ino
LinkedInv ==
  Going => \A m \in 1..pos : m < pos \/ file = 0 =>
    \A k \in 1..(m - 1) : Joins(k, m) => Shares(k, m) \/ (m = pos /\ In(Target(k), links))

DiskInv == NamesInv /\ MapInv /\ DoneInv /\ ContentsInv /\ LinkedInv

(* A step of Extract: names and their inodes stay, and only what belongs   *)
(* to entry n is written.                                                  *)
OnlyWrites(n) ==
  /\ UNCHANGED <<input, places>>
  /\ DOMAIN tree \subseteq DOMAIN tree' /\ \A p \in DOMAIN tree : tree'[p] = tree[p]
  /\ \A i \in 1..Len(inodes) :
       /\ inodes'[i].of = inodes[i].of /\ inodes'[i].type = inodes[i].type
       /\ inodes[i].of # n => inodes'[i] = inodes[i]

(* Two entries do not share a place.                                       *)
LEMMA DistinctTargets ==
  ASSUME InputInv, NEW k \in 1..Len(entries), NEW m \in 1..Len(entries), Target(k) = Target(m)
  PROVE  k = m
<1>1. InputOK(input)
  BY InputsAssumption DEF InputInv
<1>2. DOMAIN entries = 1..Len(entries)
  BY InputFacts
<1>3. \A i, j \in DOMAIN entries : i # j =>
        sanitize(input.dest, entries[i]).path # sanitize(input.dest, entries[j]).path
  BY <1>1, Zenon DEF InputOK, entries
<1>4. Target(k) = sanitize(input.dest, entries[k]).path /\ Target(m) = sanitize(input.dest, entries[m]).path
  BY <1>2 DEF InputInv, Target
<1> QED
  BY <1>2, <1>3, <1>4

(* The stream has no more of an entry's contents than there are.           *)
LEMMA AvailableFacts ==
  ASSUME InputInv, NEW k \in 1..Len(entries)
  PROVE  Available(k) \in 0..entries[k].size
<1>1. InputOK(input)
  BY InputsAssumption DEF InputInv
<1>2. DOMAIN entries = 1..Len(entries) /\ entries[k].size \in Nat
  BY InputFacts
<1>3. input.upto = k => input.avail \in 0..entries[k].size
  BY <1>1, <1>2 DEF InputOK, entries
<1> QED
  BY <1>2, <1>3 DEF Available

(* What a name leads to.                                                   *)
LEMMA TreeFacts ==
  ASSUME IInv, NEW p \in DOMAIN tree
  PROVE  tree[p] \in 0..Len(inodes) /\ Len(inodes) \in Nat /\ (tree[p] # 0 => tree[p] \in 1..Len(inodes))
<1>1. tree[p] \in 0..Len(inodes) /\ Len(inodes) \in Nat
  BY DEF IInv, TreeInv, TreeOK
<1> QED
  BY <1>1

(* The name of an entry that makes an inode leads to its own.              *)
LEMMA OwnName ==
  ASSUME IInv, NamesInv, NEW k \in 1..Len(entries), Target(k) \in DOMAIN tree, tree[Target(k)] # 0
  PROVE  /\ LinkEntry(k) \/ OwnFile(k)
         /\ ~LinkEntry(k) => /\ inodes[tree[Target(k)]].of = k
                            /\ inodes[tree[Target(k)]].type = entries[k].type
<1>1. PICK m \in 1..Len(entries) : NameOf(Target(k), m)
  BY DEF NamesInv
<1>2. m = k
  BY <1>1, DistinctTargets DEF IInv, NameOf
<1> QED
  BY <1>1, <1>2 DEF NameOf, OwnedBy

(* Entries that are done with stay as they are.                            *)
LEMMA KeepGood ==
  ASSUME IInv, NEW n, OnlyWrites(n), NEW k, k # n, Good(k)
  PROVE  Good(k)'
<1>1. UNCHANGED <<input, places>> /\ Target(k)' = Target(k) /\ entries' = entries
  BY DEF OnlyWrites, Target, entries
<1>2. (LinkEntry(k)' <=> LinkEntry(k)) /\ (OwnFile(k)' <=> OwnFile(k)) /\ FullLen(k)' = FullLen(k)
  BY <1>1 DEF LinkEntry, OwnFile, FullLen
<1>3. ASSUME NEW l, Made(k, l) PROVE Made(k, l)'
  <2>1. Target(k) \in DOMAIN tree /\ tree[Target(k)] \in 1..Len(inodes)
    BY <1>3, TreeFacts DEF Made
  <2>2. inodes[tree[Target(k)]].of = k
    BY <1>3 DEF Made
  <2>3. tree'[Target(k)] = tree[Target(k)] /\ Target(k) \in DOMAIN tree'
    BY <2>1 DEF OnlyWrites
  <2>4. inodes'[tree[Target(k)]] = inodes[tree[Target(k)]]
    BY <2>1, <2>2 DEF OnlyWrites
  <2> QED
    BY <1>1, <1>3, <2>3, <2>4 DEF Made
<1>4. ASSUME Target(k) \in DOMAIN tree PROVE Target(k) \in DOMAIN tree' /\ tree'[Target(k)] = tree[Target(k)]
  BY <1>4 DEF OnlyWrites
<1>5. entries[k].type = "dir" => Target(k) \in DOMAIN tree' /\ tree'[Target(k)] = 0
  BY <1>4 DEF Good
<1>6. ASSUME OwnFile(k) PROVE Made(k, FullLen(k))'
  <2>1. PICK l : l = FullLen(k)
    OBVIOUS
  <2>2. Made(k, l)
    BY <1>6, <2>1 DEF Good
  <2>3. Made(k, l)' /\ l = FullLen(k)'
    BY <1>2, <1>3, <2>1, <2>2
  <2> QED
    BY <2>3 DEF Made
<1> QED
  BY <1>1, <1>2, <1>5, <1>6 DEF Good

(* So do the names, if those that are new are directories or the entry's.  *)
LEMMA KeepNames ==
  ASSUME IInv, NamesInv, NEW n, OnlyWrites(n),
         \A p \in DOMAIN tree' : p \notin DOMAIN tree =>
           tree'[p] = 0 \/ \E k \in 1..Len(entries) : NameOf(p, k)'
  PROVE  NamesInv'
<1>1. UNCHANGED <<input, places>> /\ entries' = entries
  BY DEF OnlyWrites, entries
<1> SUFFICES ASSUME NEW p \in DOMAIN tree', tree'[p] # 0
             PROVE  \E k \in 1..Len(entries) : NameOf(p, k)'
  BY <1>1 DEF NamesInv
<1>2. CASE p \in DOMAIN tree
  <2>1. tree'[p] = tree[p] /\ tree[p] \in 1..Len(inodes)
    BY <1>2, TreeFacts DEF OnlyWrites
  <2>2. PICK k \in 1..Len(entries) : NameOf(p, k)
    BY <1>2, <2>1 DEF NamesInv
  <2>3. inodes'[tree[p]].of = inodes[tree[p]].of /\ inodes'[tree[p]].type = inodes[tree[p]].type
    BY <2>1 DEF OnlyWrites
  <2>4. NameOf(p, k)'
    BY <1>1, <2>1, <2>2, <2>3 DEF NameOf, OwnedBy, Target, LinkEntry, OwnFile
  <2> QED
    BY <2>4
<1> QED
  BY <1>2

(* And links go on sharing.                                                *)
LEMMA KeepShares ==
  ASSUME NEW n, OnlyWrites(n), NEW k, NEW m, Target(m) \in DOMAIN tree, Shares(k, m)
  PROVE  Shares(k, m)'
<1>1. Target(k)' = Target(k) /\ Target(m)' = Target(m)
  BY DEF OnlyWrites, Target
<1>2. Target(k) \in DOMAIN tree' /\ tree'[Target(k)] = tree[Target(k)] /\ tree'[Target(m)] = tree[Target(m)]
  BY DEF OnlyWrites, Shares
<1> QED
  BY <1>1, <1>2 DEF Shares

(* A file that others link to is one that makes an inode.                  *)
LEMMA JoinedIsGood ==
  ASSUME NEW k, NEW m, Joins(k, m), Good(m), entries[m].size \in Nat
  PROVE  Target(m) \in DOMAIN tree
<1>1. OwnFile(m)
  BY DEF Joins, HasLinks, OwnFile, LinkEntry
<1> QED
  BY <1>1 DEF Good, Made

(* Nothing on disk changes.                                                *)
LEMMA NothingWritten ==
  ASSUME UNCHANGED <<input, places, tree, inodes>>, NEW n
  PROVE  OnlyWrites(n)
BY DEF OnlyWrites

(* A step that returns an error.                                           *)
LEMMA ErrorDisk ==
  ASSUME IInv, DiskInv, NEW n, OnlyWrites(n), ret' \notin {"running", "nil"},
         \A p \in DOMAIN tree' : p \notin DOMAIN tree => tree'[p] = 0,
         UNCHANGED <<linkMap, links, file>>, pos' = pos \/ (pos' = pos + 1 /\ links = <<>>)
  PROVE  DiskInv'
<1>1. NamesInv'
  BY KeepNames DEF DiskInv
<1>2. ~Going'
  BY DEF Going
<1>3. DoneInv' /\ ContentsInv' /\ LinkedInv'
  BY <1>2 DEF DoneInv, ContentsInv, LinkedInv
<1>4. UNCHANGED <<input, places>> /\ entries' = entries
  BY DEF OnlyWrites, entries
<1>5. pos \in Nat
  BY InputFacts DEF IInv
<1>6. ASSUME NEW i, NEW ps, From(i, ps, pos) PROVE From(i, ps, pos)'
  BY <1>4, <1>5, <1>6 DEF From, LinkEntry, Target
<1>7. MapInv'
  <2>1. \A i \in DOMAIN linkMap : From(i, linkMap[i], pos)'
    BY <1>6 DEF DiskInv, MapInv
  <2>2. \A i \in DOMAIN linkMap' : From(i, linkMap[i], pos)'
    BY <2>1
  <2>3. ASSUME links # <<>> PROVE From(entries[pos].ino, links, pos)' /\ file' = 0
    <3>1. From(entries[pos].ino, links, pos) /\ file = 0
      BY <2>3 DEF DiskInv, MapInv
    <3>2. PICK i : i = entries[pos].ino
      OBVIOUS
    <3>3. From(i, links, pos)' /\ i = entries'[pos'].ino
      BY <1>4, <1>6, <2>3, <3>1, <3>2
    <3> QED
      BY <3>1, <3>3 DEF From
  <2> QED
    BY <1>2, <2>2, <2>3 DEF MapInv
<1> QED
  BY <1>1, <1>3, <1>7 DEF DiskInv

(* A step that goes on to the next entry.                                  *)
LEMMA EntryDisk ==
  ASSUME IInv, DiskInv, NEW types, NextEntry(TRUE, types), OnlyWrites(pos + 1),
         UNCHANGED <<ret, links>>, MapInv', ContentsInv',
         \A p \in DOMAIN tree' : p \notin DOMAIN tree =>
           tree'[p] = 0 \/ \E k \in 1..Len(entries) : NameOf(p, k)',
         file' = 0 => Good(pos)' /\ ~(HasLinks(pos) /\ entries[pos].type = "reg")'
  PROVE  DiskInv'
<1>1. NamesInv'
  BY KeepNames DEF DiskInv
<1>2. /\ pos' = pos + 1 /\ pos' \in 1..Len(entries) /\ UNCHANGED <<input, places>>
      /\ file = 0 /\ links = <<>> /\ entries' = entries /\ Len(entries) \in Nat /\ InputInv
  BY EntryFacts, InputFacts DEF IInv
<1>3. pos \in 0..Len(entries) /\ pos \in Nat
  BY <1>2 DEF IInv
<1>4. Going
  BY DEF NextEntry, Idle, Going
<1>5. ASSUME NEW k \in 1..pos PROVE Good(k) /\ Good(k)'
  <2>1. Good(k)
    BY <1>2, <1>4 DEF DiskInv, DoneInv
  <2>2. k # pos + 1
    BY <1>3
  <2> QED
    BY <2>1, <2>2, KeepGood
<1>6. DoneInv'
  <2> SUFFICES ASSUME NEW k \in 1..pos', k < pos' \/ file' = 0 PROVE Good(k)'
    BY DEF DoneInv
  <2>1. CASE k = pos + 1
    <3>1. Good(pos)'
      BY <1>2, <1>3, <2>1
    <3> QED
      BY <1>2, <2>1, <3>1
  <2>2. CASE k # pos + 1
    <3>1. k \in 1..pos
      BY <1>2, <1>3, <2>2
    <3> QED
      BY <1>5, <3>1
  <2> QED
    BY <2>1, <2>2
<1>7. LinkedInv'
  <2> SUFFICES ASSUME NEW m \in 1..pos', m < pos' \/ file' = 0,
                      NEW k \in 1..(m - 1), Joins(k, m)'
               PROVE  Shares(k, m)'
    BY DEF LinkedInv
  <2>1. m \in 1..pos
    <3>1. m # pos + 1
      BY <1>2, <1>3 DEF Joins
    <3> QED
      BY <1>2, <1>3, <3>1
  <2>2. Joins(k, m)
    BY <1>2 DEF Joins, HasLinks, LinkEntry
  <2>3. Shares(k, m)
    <3>1. ~In(Target(k), links)
      BY <1>2 DEF In
    <3> QED
      BY <1>2, <1>4, <2>1, <2>2, <3>1 DEF DiskInv, LinkedInv
  <2>4. entries[m].size \in Nat
    BY <1>2, <1>3, <2>1, InputFacts
  <2>5. Target(m) \in DOMAIN tree
    BY <1>5, <2>1, <2>2, <2>4, JoinedIsGood
  <2> QED
    BY <2>3, <2>5, KeepShares
<1> QED
  BY <1>1, <1>6, <1>7 DEF DiskInv

(* linkMap is left alone by an entry that is not a link.                   *)
LEMMA MapKept ==
  ASSUME IInv, DiskInv, NEW types, NextEntry(TRUE, types), UNCHANGED <<ret, links, linkMap>>,
         ~LinkEntry(pos + 1)
  PROVE  MapInv'
<1>1. /\ pos' = pos + 1 /\ UNCHANGED <<input, places>> /\ entries' = entries
      /\ links = <<>>
  BY EntryFacts
<1>2. pos \in Nat
  BY InputFacts DEF IInv
<1>3. Going
  BY DEF NextEntry, Idle, Going
<1>4. ASSUME NEW i \in DOMAIN linkMap PROVE From(i, linkMap[i], pos)'
  <2>1. From(i, linkMap[i], pos)
    BY DEF DiskInv, MapInv
  <2> QED
    BY <1>1, <1>2, <2>1 DEF From, LinkEntry, Target
<1>5. ASSUME NEW k \in 1..pos', LinkEntry(k)' PROVE Saved(k)'
  <2>1. LinkEntry(k)
    BY <1>1, <1>5 DEF LinkEntry
  <2>2. k \in 1..pos
    BY <1>1, <1>2, <2>1
  <2>3. Saved(k)
    BY <1>3, <2>1, <2>2 DEF DiskInv, MapInv
  <2> QED
    BY <1>1, <2>3 DEF Saved, In, Target
<1> QED
  BY <1>1, <1>4, <1>5 DEF MapInv

(* A step that is done with an entry that makes neither a directory nor a  *)
(* file: a device.                                                         *)
LEMMA SkipDeviceDisk == IInv /\ DiskInv /\ SkipDevice => DiskInv'
<1> SUFFICES ASSUME IInv, DiskInv, SkipDevice PROVE DiskInv'
  OBVIOUS
<1>1. NextEntry(TRUE, {"chr", "blk"}) /\ ret = "running"
  BY DEF SkipDevice, NextEntry, Idle
<1>2. ret' = "running" /\ tree' = WithParents /\ UNCHANGED <<linkMap, file, written, links, inodes>>
  BY DEF SkipDevice, Done
<1>3. /\ pos' = pos + 1 /\ UNCHANGED <<input, places>> /\ entries' = entries /\ file = 0
      /\ Grown(tree, WithParents, Above(target)) /\ e.type \in {"chr", "blk"}
  BY <1>1, EntryFacts
<1>4. OnlyWrites(pos + 1)
  BY <1>2, <1>3 DEF OnlyWrites, Grown
<1>5. entries[pos + 1].type \in {"chr", "blk"}
  BY <1>3 DEF e
<1>6. MapInv'
  BY <1>1, <1>2, <1>5, MapKept DEF LinkEntry
<1>7. ContentsInv'
  BY <1>2, <1>3 DEF ContentsInv
<1>8. Good(pos)' /\ ~(HasLinks(pos) /\ entries[pos].type = "reg")'
  BY <1>3, <1>5 DEF Good, OwnFile
<1>9. \A p \in DOMAIN tree' : p \notin DOMAIN tree => tree'[p] = 0
  BY <1>2 DEF WithParents, Also, WithDirs
<1> QED
  BY <1>1, <1>2, <1>4, <1>6, <1>7, <1>8, <1>9, EntryDisk

(* The directories above a place are new names at most.                    *)
LEMMA ParentsOnly ==
  ASSUME IInv, NEW types, NextEntry(TRUE, types), tree' = WithParents, UNCHANGED inodes, NEW n
  PROVE  OnlyWrites(n) /\ \A p \in DOMAIN tree' : p \notin DOMAIN tree => tree'[p] = 0
<1>1. UNCHANGED <<input, places>> /\ Grown(tree, WithParents, Above(target))
  BY EntryFacts
<1>2. OnlyWrites(n)
  BY <1>1 DEF OnlyWrites, Grown
<1>3. \A p \in DOMAIN tree' : p \notin DOMAIN tree => tree'[p] = 0
  BY DEF WithParents, Also, WithDirs
<1> QED
  BY <1>2, <1>3

(* An entry for which an error is returned.                                *)
LEMMA DoneDisk ==
  ASSUME IInv, DiskInv, NEW types, NextEntry(TRUE, types), NEW err, Done(err),
         err \notin {"running", "nil"}
  PROVE  DiskInv'
<1>1. ret' = err /\ tree' = WithParents /\ UNCHANGED <<linkMap, file, links, inodes>>
  BY DEF Done
<1>2. pos' = pos + 1 /\ links = <<>>
  BY EntryFacts
<1>3. OnlyWrites(pos) /\ \A p \in DOMAIN tree' : p \notin DOMAIN tree => tree'[p] = 0
  BY <1>1, ParentsOnly
<1> QED
  BY <1>1, <1>2, <1>3, ErrorDisk

(* os.Mkdir: if the place of a directory is taken, then by a directory.    *)
LEMMA MakeDirDisk == IInv /\ DiskInv /\ MakeDir => DiskInv'
<1> SUFFICES ASSUME IInv, DiskInv, MakeDir PROVE DiskInv'
  OBVIOUS
<1>1. /\ NextEntry(TRUE, {"dir"}) /\ tree' = Also(WithParents, WithDirs({target}))
      /\ UNCHANGED <<ret, linkMap, file, written, links, inodes>>
  BY DEF MakeDir
<1>2. /\ pos' = pos + 1 /\ pos' \in 1..Len(entries) /\ UNCHANGED <<input, places>> /\ entries' = entries
      /\ file = 0 /\ target = Target(pos)' /\ e.type \in {"dir"}
      /\ Grown(tree, WithParents, Above(target)) /\ target \notin Above(target)
  BY <1>1, EntryFacts
<1>3. target = Target(pos + 1) /\ pos + 1 \in 1..Len(entries) /\ entries[pos + 1].type = "dir"
  BY <1>2 DEF target, e
<1>4. /\ DOMAIN tree \subseteq DOMAIN tree' /\ target \in DOMAIN tree'
      /\ \A p \in DOMAIN tree : tree'[p] = tree[p]
      /\ \A p \in DOMAIN tree' : p \notin DOMAIN tree => tree'[p] = 0
  <2>1. /\ DOMAIN tree' = DOMAIN WithParents \cup {target}
        /\ \A p \in DOMAIN WithParents : tree'[p] = WithParents[p]
        /\ target \notin DOMAIN WithParents => tree'[target] = 0
    BY <1>1 DEF Also, WithDirs
  <2>2. \A p \in DOMAIN WithParents : p \notin DOMAIN tree => WithParents[p] = 0
    BY DEF WithParents, Also, WithDirs
  <2> QED
    BY <1>2, <2>1, <2>2 DEF Grown
<1>5. OnlyWrites(pos + 1)
  BY <1>1, <1>2, <1>4 DEF OnlyWrites
<1>6. tree'[target] = 0
  <2>1. CASE target \in DOMAIN tree
    <3>1. tree[target] = 0
      BY <1>3, <2>1, OwnName DEF DiskInv, LinkEntry, OwnFile
    <3> QED
      BY <1>4, <2>1, <3>1
  <2>2. CASE target \notin DOMAIN tree
    BY <1>4, <2>2
  <2> QED
    BY <2>1, <2>2
<1>7. MapInv'
  BY <1>1, <1>3, MapKept DEF LinkEntry
<1>8. ContentsInv'
  BY <1>1, <1>2 DEF ContentsInv
<1>9. Good(pos)' /\ ~(HasLinks(pos) /\ entries[pos].type = "reg")'
  BY <1>2, <1>3, <1>4, <1>6 DEF Good, OwnFile
<1> QED
  BY <1>1, <1>4, <1>5, <1>7, <1>8, <1>9, EntryDisk

(* A new inode is made for the entry, and has its name.                    *)
LEMMA NewInodeDisk ==
  ASSUME IInv, NEW types, NextEntry(TRUE, types), NEW ty \in Types, NewInode(ty), ~Exists,
         OwnFile(pos + 1), ty = entries[pos + 1].type
  PROVE  /\ OnlyWrites(pos + 1) /\ Made(pos, 0)'
         /\ \A p \in DOMAIN tree' : p \notin DOMAIN tree =>
              tree'[p] = 0 \/ \E k \in 1..Len(entries) : NameOf(p, k)'
<1>1. /\ tree' = Also(WithParents, One(target, Len(inodes) + 1))
      /\ inodes' = Append(inodes, [type |-> ty, of |-> pos + 1, len |-> 0])
      /\ target \notin DOMAIN WithParents
  BY DEF NewInode, Exists
<1>2. /\ pos' = pos + 1 /\ pos' \in 1..Len(entries) /\ UNCHANGED <<input, places>> /\ entries' = entries
      /\ target = Target(pos)' /\ Grown(tree, WithParents, Above(target)) /\ Len(inodes) \in Nat
  BY EntryFacts
<1> DEFINE new == [type |-> ty, of |-> pos + 1, len |-> 0]
           n == Len(inodes) + 1
<1>3. inodes \in Seq(InodeType) /\ new \in InodeType
  <2>1. pos + 1 \in Nat
    BY EntryFacts
  <2> QED
    BY <2>1 DEF IInv, TreeInv, InodeType
<1>4. inodes'[n] = new /\ \A i \in 1..Len(inodes) : inodes'[i] = inodes[i]
  BY <1>1, <1>3, AppendProperties
<1>5. /\ DOMAIN tree' = DOMAIN WithParents \cup {target} /\ tree'[target] = n
      /\ \A p \in DOMAIN WithParents : tree'[p] = WithParents[p]
  BY <1>1 DEF Also, One
<1>6. \A p \in DOMAIN WithParents : p \notin DOMAIN tree => WithParents[p] = 0
  BY DEF WithParents, Also, WithDirs
<1>7. OnlyWrites(pos + 1)
  BY <1>2, <1>4, <1>5 DEF OnlyWrites, Grown
<1>8. n # 0
  BY <1>2
<1>9. new.of = pos + 1 /\ new.type = ty
  OBVIOUS
<1> HIDE DEF n
<1>10. Made(pos, 0)'
  BY <1>2, <1>4, <1>5, <1>8 DEF Made
<1>11. ASSUME NEW p, NEW k, p = target, k = pos + 1 PROVE NameOf(p, k)'
  <2>1. inodes'[tree'[p]].of = k /\ inodes'[tree'[p]].type = entries'[k].type
    BY <1>2, <1>4, <1>5, <1>9, <1>11
  <2>2. OwnFile(k)' /\ p = Target(k)'
    BY <1>2, <1>11 DEF OwnFile, LinkEntry, Target
  <2> QED
    BY <2>1, <2>2 DEF NameOf, OwnedBy
<1>12. ASSUME NEW p \in DOMAIN tree', p \notin DOMAIN tree
       PROVE  tree'[p] = 0 \/ \E k \in 1..Len(entries) : NameOf(p, k)'
  <2>1. CASE p = target
    <3>1. PICK k : k = pos + 1
      OBVIOUS
    <3>2. k \in 1..Len(entries) /\ NameOf(p, k)'
      BY <1>2, <1>11, <2>1, <3>1
    <3> QED
      BY <3>2
  <2>2. CASE p # target
    BY <1>5, <1>6, <1>12, <2>2
  <2> QED
    BY <2>1, <2>2
<1> QED
  BY <1>7, <1>10, <1>12

(* Mkfifo and os.Symlink.                                                  *)
LEMMA MakeSpecialDisk ==
  ASSUME IInv, DiskInv, NEW ty \in {"fifo", "lnk"}, NextEntry(TRUE, {ty}), MakeSpecial(ty)
  PROVE  DiskInv'
<1>1. CASE Exists
  <2>1. Done("exists")
    BY <1>1 DEF MakeSpecial
  <2> QED
    BY <2>1, DoneDisk
<1>2. CASE ~Exists
  <2>1. NewInode(ty) /\ UNCHANGED <<file, written>> /\ UNCHANGED <<ret, links, linkMap>>
    BY <1>2 DEF MakeSpecial, NewInode
  <2>2. e.type \in {ty} /\ pos' = pos + 1 /\ entries' = entries /\ file = 0
    BY EntryFacts
  <2>3. OwnFile(pos + 1) /\ entries[pos + 1].type = ty /\ ~LinkEntry(pos + 1) /\ ty \in Types
    BY <2>2 DEF OwnFile, LinkEntry, e, Types
  <2>4. /\ OnlyWrites(pos + 1) /\ Made(pos, 0)'
        /\ \A p \in DOMAIN tree' : p \notin DOMAIN tree =>
             tree'[p] = 0 \/ \E k \in 1..Len(entries) : NameOf(p, k)'
    BY <1>2, <2>1, <2>3, NewInodeDisk
  <2>5. MapInv'
    BY <2>1, <2>3, MapKept
  <2>6. ContentsInv'
    BY <2>1, <2>2 DEF ContentsInv
  <2>7. Good(pos)' /\ ~(HasLinks(pos) /\ entries[pos].type = "reg")'
    <3>1. entries'[pos'].type = ty /\ ty # "dir" /\ ty # "reg"
      BY <2>2, <2>3
    <3>2. FullLen(pos)' = 0
      BY <3>1 DEF FullLen
    <3> QED
      BY <2>4, <3>1, <3>2 DEF Good, Made
  <2> QED
    BY <2>1, <2>4, <2>5, <2>6, <2>7, EntryDisk
<1> QED
  BY <1>1, <1>2

(* A symbolic link.                                                        *)
LEMMA MakeSymlinkDisk == IInv /\ DiskInv /\ MakeSymlink => DiskInv'
<1> SUFFICES ASSUME IInv, DiskInv, MakeSymlink PROVE DiskInv'
  OBVIOUS
<1>1. NextEntry(TRUE, {"lnk"})
  BY DEF MakeSymlink
<1>2. Done("read error") \/ Done("NUL in target") \/ MakeSpecial("lnk")
  BY Zenon DEF MakeSymlink
<1>3. CASE Done("read error")
  BY <1>1, <1>3, DoneDisk
<1>4. CASE Done("NUL in target")
  BY <1>1, <1>4, DoneDisk
<1>5. CASE MakeSpecial("lnk")
  BY <1>1, <1>5, MakeSpecialDisk
<1> QED
  BY <1>2, <1>3, <1>4, <1>5

(* A link is saved behind those that wait for the same inode number.       *)
LEMMA MapSaved ==
  ASSUME IInv, DiskInv, SaveLink
  PROVE  MapInv'
<1> DEFINE ino == e.ino
           w == Waiting(e.ino)
           ps == Append(Waiting(e.ino), target)
<1>1. /\ NextEntry(TRUE, {"reg"}) /\ linkMap' = Also(One(ino, ps), linkMap)
      /\ UNCHANGED <<ret, links, file>> /\ isLink
  BY DEF SaveLink
<1>2. /\ pos' = pos + 1 /\ UNCHANGED <<input, places>> /\ entries' = entries
      /\ links = <<>> /\ e.type \in {"reg"} /\ Rooted(input.dest.path, WithParents, target)
  BY <1>1, EntryFacts
<1>3. pos \in Nat
  BY InputFacts DEF IInv
<1>4. Going
  BY <1>1 DEF NextEntry, Idle, Going
<1>5. LinkEntry(pos + 1) /\ entries[pos + 1].ino = ino /\ target = Target(pos + 1)
  BY <1>1, <1>2 DEF LinkEntry, isLink, e, target
<1>6. /\ Len(w) \in Nat /\ Len(ps) = Len(w) + 1 /\ ps[Len(w) + 1] = target
      /\ \A j \in 1..Len(w) : ps[j] = w[j]
  <2>1. w \in Seq(Path)
    BY DEF Waiting, IInv, WaitInv, Waits
  <2>2. target \in Path
    BY <1>2 DEF Rooted
  <2> QED
    BY <2>1, <2>2, AppendProperties
<1>7. \A j \in 1..Len(w) : \E k \in 1..pos : LinkEntry(k) /\ entries[k].ino = ino /\ w[j] = Target(k)
  BY DEF Waiting, DiskInv, MapInv, From
<1>8. ino \in DOMAIN linkMap => w = linkMap[ino]
  BY DEF Waiting
<1>9. ino \in DOMAIN linkMap' /\ linkMap'[ino] = ps
  BY <1>1 DEF Also, One
<1>10. /\ \A i \in DOMAIN linkMap : i \in DOMAIN linkMap'
       /\ \A i \in DOMAIN linkMap' : i # ino => i \in DOMAIN linkMap
       /\ \A i \in DOMAIN linkMap : i # ino => linkMap'[i] = linkMap[i]
  BY <1>1 DEF Also, One
<1> HIDE DEF ino, w, ps
<1>11. ASSUME NEW i \in DOMAIN linkMap' PROVE From(i, linkMap[i], pos)'
  <2>1. CASE i = ino
    <3>1. ASSUME NEW j \in 1..Len(ps)
          PROVE  \E k \in 1..(pos + 1) : LinkEntry(k) /\ entries[k].ino = i /\ ps[j] = Target(k)
      <4>1. CASE j = Len(w) + 1
        <5>1. pos + 1 \in 1..(pos + 1)
          BY <1>3
        <5> QED
          BY <1>5, <1>6, <2>1, <4>1, <5>1
      <4>2. CASE j # Len(w) + 1
        <5>1. j \in 1..Len(w) /\ ps[j] = w[j]
          BY <1>6, <4>2
        <5> QED
          BY <1>3, <1>7, <2>1, <5>1
      <4> QED
        BY <4>1, <4>2
    <3> QED
      BY <1>2, <1>9, <2>1, <3>1 DEF From, LinkEntry, Target
  <2>2. CASE i # ino
    <3>1. From(i, linkMap[i], pos) /\ linkMap'[i] = linkMap[i]
      BY <1>10, <2>2 DEF DiskInv, MapInv
    <3> QED
      BY <1>2, <1>3, <3>1 DEF From, LinkEntry, Target
  <2> QED
    BY <2>1, <2>2
<1>12. ASSUME NEW k \in 1..pos', LinkEntry(k)' PROVE Saved(k)'
  <2>1. LinkEntry(k) /\ Target(k)' = Target(k)
    BY <1>2, <1>12 DEF LinkEntry, Target
  <2>2. CASE k = pos + 1
    <3>1. In(Target(k), ps)
      BY <1>5, <1>6, <2>2 DEF In
    <3>2. entries[k].ino = ino
      BY <1>5, <2>2
    <3> QED
      BY <1>2, <1>9, <2>1, <3>1, <3>2 DEF Saved, In
  <2>3. CASE k # pos + 1
    <3>1. k \in 1..pos
      BY <1>2, <1>3, <2>3
    <3>2. entries[k].ino \in DOMAIN linkMap /\ In(Target(k), linkMap[entries[k].ino])
      BY <1>4, <2>1, <3>1 DEF DiskInv, MapInv, Saved
    <3>3. In(Target(k), linkMap'[entries[k].ino])
      <4>1. CASE entries[k].ino = ino
        <5>1. PICK j \in 1..Len(w) : w[j] = Target(k)
          BY <1>8, <3>2, <4>1 DEF In
        <5>2. j \in 1..Len(ps) /\ ps[j] = Target(k)
          BY <1>6, <5>1
        <5> QED
          BY <1>9, <4>1, <5>2 DEF In
      <4>2. CASE entries[k].ino # ino
        BY <1>10, <3>2, <4>2
      <4> QED
        BY <4>1, <4>2
    <3> QED
      BY <1>2, <1>10, <2>1, <3>2, <3>3 DEF Saved, In
  <2> QED
    BY <2>2, <2>3
<1> QED
  BY <1>1, <1>2, <1>11, <1>12 DEF MapInv

(* Saving a link makes nothing but the directories above it.               *)
LEMMA SaveLinkDisk == IInv /\ DiskInv /\ SaveLink => DiskInv'
<1> SUFFICES ASSUME IInv, DiskInv, SaveLink PROVE DiskInv'
  OBVIOUS
<1>1. /\ NextEntry(TRUE, {"reg"}) /\ tree' = WithParents /\ isLink
      /\ UNCHANGED <<ret, file, written, links, inodes>>
  BY DEF SaveLink
<1>2. pos' = pos + 1 /\ entries' = entries /\ file = 0 /\ e.type \in {"reg"}
  BY <1>1, EntryFacts
<1>3. OnlyWrites(pos + 1) /\ \A p \in DOMAIN tree' : p \notin DOMAIN tree => tree'[p] = 0
  BY <1>1, ParentsOnly
<1>4. MapInv'
  BY MapSaved
<1>5. ContentsInv'
  BY <1>1, <1>2 DEF ContentsInv
<1>6. Good(pos)' /\ ~(HasLinks(pos) /\ entries[pos].type = "reg")'
  <2>1. e.size = 0 /\ e.nlink > 1 /\ e.type = "reg" /\ e = entries'[pos']
    BY <1>1, <1>2 DEF isLink, e
  <2>2. LinkEntry(pos)'
    BY <2>1 DEF LinkEntry
  <2>3. ~HasLinks(pos)'
    BY <2>1 DEF HasLinks
  <2> QED
    BY <2>1, <2>2, <2>3 DEF Good, OwnFile
<1> QED
  BY <1>1, <1>3, <1>4, <1>5, <1>6, EntryDisk

(* os.Create: a file that is there was made for this entry, in an earlier  *)
(* pass, so that no other loses its contents.                              *)
LEMMA CreateDisk == IInv /\ DiskInv /\ Create => DiskInv'
<1> SUFFICES ASSUME IInv, DiskInv, Create PROVE DiskInv'
  OBVIOUS
<1>1. NextEntry(TRUE, {"reg"}) /\ ~isLink
  BY DEF Create
<1>2. /\ pos' = pos + 1 /\ pos' \in 1..Len(entries) /\ UNCHANGED <<input, places>>
      /\ entries' = entries /\ target = Target(pos)' /\ e.type \in {"reg"}
      /\ Grown(tree, WithParents, Above(target)) /\ target \notin Above(target)
      /\ pos + 1 \in Nat
  BY <1>1, EntryFacts
<1>3. /\ target = Target(pos + 1) /\ pos + 1 \in 1..Len(entries) /\ entries[pos + 1].type = "reg"
      /\ ~LinkEntry(pos + 1) /\ OwnFile(pos + 1) /\ "reg" \in Types
  BY <1>1, <1>2 DEF target, e, LinkEntry, isLink, OwnFile, Types
<1>4. OwnFile(pos)' /\ entries'[pos'].type = "reg" /\ pos' # 0
  BY <1>2, <1>3 DEF OwnFile, LinkEntry
<1>5. CASE Exists /\ WithParents[target] = 0
  <2>1. Done("is a directory")
    BY <1>5 DEF Create
  <2> QED
    BY <1>1, <2>1, DoneDisk
<1>6. ASSUME UNCHANGED <<ret, linkMap, links>>, file' = tree'[target], written' = 0,
             OnlyWrites(pos + 1), Made(pos, 0)',
             \A p \in DOMAIN tree' : p \notin DOMAIN tree =>
               tree'[p] = 0 \/ \E k \in 1..Len(entries) : NameOf(p, k)'
      PROVE  DiskInv'
  <2>1. MapInv'
    BY <1>1, <1>3, <1>6, MapKept
  <2>2. ContentsInv'
    BY <1>2, <1>4, <1>6 DEF ContentsInv, Made
  <2>3. file' # 0
    BY <1>2, <1>6 DEF Made
  <2> QED
    BY <1>1, <1>6, <2>1, <2>2, <2>3, EntryDisk
<1>7. CASE Exists /\ WithParents[target] # 0
  <2> DEFINE n == tree[target]
  <2>1. /\ tree' = WithParents /\ UNCHANGED <<ret, linkMap, links>>
        /\ inodes' = [inodes EXCEPT ![n] = [@ EXCEPT !.of = pos + 1, !.len = 0]]
        /\ file' = tree'[target] /\ written' = 0
    BY <1>7 DEF Create
  <2>2. target \in DOMAIN tree /\ WithParents[target] = n /\ n # 0
    BY <1>2, <1>7 DEF Exists, Grown
  <2>3. n \in 1..Len(inodes) /\ inodes \in Seq(InodeType)
    BY <2>2, TreeFacts DEF IInv, TreeInv
  <2>4. inodes[n].of = pos + 1 /\ inodes[n].type = "reg"
    BY <1>3, <2>2, OwnName DEF DiskInv
  <2>5. inodes[n] \in InodeType
    BY <2>3
  <2> DEFINE new == [inodes[n] EXCEPT !.of = pos + 1, !.len = 0]
  <2>6. new = [type |-> "reg", of |-> pos + 1, len |-> 0]
    <3>1. new \in InodeType
      BY <1>2, <2>5 DEF InodeType
    <3>2. new.type = "reg" /\ new.of = pos + 1 /\ new.len = 0
      BY <2>4, <2>5 DEF InodeType
    <3> HIDE DEF new
    <3> QED
      BY <3>1, <3>2 DEF InodeType
  <2>7. new.of = pos + 1 /\ new.type = "reg"
    BY <2>6
  <2> HIDE DEF n
  <2>8. inodes' = [inodes EXCEPT ![n] = new]
    BY <2>1
  <2> HIDE DEF new
  <2>9. inodes'[n] = new /\ \A i \in 1..Len(inodes) : i # n => inodes'[i] = inodes[i]
    BY <2>3, <2>8
  <2>10. DOMAIN tree \subseteq DOMAIN tree' /\ \A p \in DOMAIN tree : tree'[p] = tree[p]
    BY <1>2, <2>1 DEF Grown
  <2>11. OnlyWrites(pos + 1)
    BY <1>2, <2>4, <2>7, <2>9, <2>10 DEF OnlyWrites
  <2>12. target \in DOMAIN tree' /\ tree'[target] = n
    BY <2>1, <2>2, <2>10
  <2>13. Made(pos, 0)'
    BY <1>2, <1>4, <2>2, <2>6, <2>9, <2>12 DEF Made
  <2>14. \A p \in DOMAIN tree' : p \notin DOMAIN tree => tree'[p] = 0
    BY <2>1 DEF WithParents, Also, WithDirs
  <2> QED
    BY <1>6, <2>1, <2>11, <2>13, <2>14
<1>8. CASE ~Exists
  <2>1. NewInode("reg") /\ file' = tree'[target] /\ written' = 0 /\ UNCHANGED <<ret, linkMap, links>>
    BY <1>8 DEF Create, NewInode
  <2>2. /\ OnlyWrites(pos + 1) /\ Made(pos, 0)'
        /\ \A p \in DOMAIN tree' : p \notin DOMAIN tree =>
             tree'[p] = 0 \/ \E k \in 1..Len(entries) : NameOf(p, k)'
    BY <1>1, <1>3, <1>8, <2>1, NewInodeDisk
  <2> QED
    BY <1>6, <2>1, <2>2
<1> QED
  BY <1>5, <1>7, <1>8

(* io.Copy writes to the file of the entry it reads.                       *)
LEMMA CopyDisk == IInv /\ DiskInv /\ Copy => DiskInv'
<1> SUFFICES ASSUME IInv, DiskInv, Copy PROVE DiskInv'
  OBVIOUS
<1>1. PICK n \in 1..(Available(pos) - written) :
        /\ written' = written + n
        /\ inodes' = [inodes EXCEPT ![file].len = @ + n]
  BY DEF Copy
<1>2. /\ file # 0 /\ UNCHANGED <<input, places, pos, linkMap, file, links, tree, ret>>
      /\ Going /\ entries' = entries
  BY DEF Copy, Going, entries
<1>3. /\ pos # 0 /\ OwnFile(pos) /\ entries[pos].type = "reg" /\ Made(pos, written)
      /\ tree[Target(pos)] = file
  BY <1>2 DEF DiskInv, ContentsInv
<1>4. file \in 1..Len(inodes) /\ inodes \in Seq(InodeType)
  BY <1>2 DEF IInv, TreeInv
<1>5. inodes[file] = [type |-> entries[pos].type, of |-> pos, len |-> written]
  BY <1>3 DEF Made
<1>6. inodes'[file] = [type |-> entries[pos].type, of |-> pos, len |-> written + n]
  <2>1. inodes'[file] = [inodes[file] EXCEPT !.len = inodes[file].len + n]
    BY <1>1, <1>4
  <2>2. ASSUME NEW t, NEW o, NEW l, NEW x, x = [type |-> t, of |-> o, len |-> l]
        PROVE  [x EXCEPT !.len = x.len + n] = [type |-> t, of |-> o, len |-> l + n]
    BY <2>2
  <2> QED
    BY <1>5, <2>1, <2>2
<1>7. \A i \in 1..Len(inodes) : i # file => inodes'[i] = inodes[i]
  BY <1>1, <1>4
<1>8. inodes[file].of = pos /\ inodes'[file].of = pos /\ inodes'[file].type = inodes[file].type
  BY <1>5, <1>6
<1>9. OnlyWrites(pos)
  BY <1>2, <1>7, <1>8 DEF OnlyWrites
<1>10. NamesInv'
  BY <1>2, <1>9, KeepNames DEF DiskInv
<1>11. MapInv'
  BY <1>2 DEF DiskInv, MapInv, From, LinkEntry, Target, Going, Saved, In
<1>12. ContentsInv'
  <2>1. Made(pos, written)'
    BY <1>1, <1>2, <1>3, <1>6 DEF Made, Target
  <2> QED
    BY <1>2, <1>3, <2>1 DEF ContentsInv, OwnFile, LinkEntry, Target
<1>13. DoneInv'
  <2> SUFFICES ASSUME NEW k \in 1..pos, k < pos PROVE Good(k)'
    BY <1>2 DEF DoneInv
  <2>1. Good(k)
    BY <1>2 DEF DiskInv, DoneInv
  <2> QED
    BY <1>9, <2>1, KeepGood
<1>14. LinkedInv'
  BY <1>2 DEF DiskInv, LinkedInv, Joins, HasLinks, LinkEntry, Shares, Target, In, Going
<1> QED
  BY <1>10, <1>11, <1>12, <1>13, <1>14 DEF DiskInv

(* io.Copy returns when all of the contents are there.                     *)
LEMMA CopyEndDisk == IInv /\ DiskInv /\ CopyEnd => DiskInv'
<1> SUFFICES ASSUME IInv, DiskInv, CopyEnd PROVE DiskInv'
  OBVIOUS
<1>1. file # 0 /\ ret = "running" /\ written = Available(pos) /\ UNCHANGED <<tree, inodes>>
  BY DEF CopyEnd, fsVars
<1>2. ASSUME NEW err \in {"read error", "short write", "hardlinks missing"}, Return(err)
      PROVE  DiskInv'
  <2>1. ret' \notin {"running", "nil"} /\ UNCHANGED <<input, places, pos, linkMap, file, links>>
    BY <1>2 DEF Return
  <2>2. OnlyWrites(pos)
    BY <1>1, <2>1, NothingWritten
  <2> QED
    BY <1>1, <2>1, <2>2, ErrorDisk
<1>3. ASSUME ~(written < entries[pos].size),
             ~(HasLinks(pos) /\ entries[pos].ino \notin DOMAIN linkMap), file' = 0,
             links' = IF HasLinks(pos) THEN linkMap[entries[pos].ino] ELSE <<>>,
             UNCHANGED <<input, places, pass, pos, linkMap, written, ret>>
      PROVE  DiskInv'
  <2>1. UNCHANGED <<input, places, pos, linkMap, ret, tree, inodes>> /\ entries' = entries /\ Going
    BY <1>1, <1>3 DEF entries, Going
  <2>2. /\ pos # 0 /\ OwnFile(pos) /\ entries[pos].type = "reg" /\ Made(pos, written)
    BY <1>1, <2>1 DEF DiskInv, ContentsInv
  <2>3. pos \in 1..Len(entries) /\ pos \in Nat
    BY <2>2, InputFacts DEF IInv
  <2>4. written = entries[pos].size
    <3>1. Available(pos) \in 0..entries[pos].size /\ entries[pos].size \in Nat
      BY <2>3, AvailableFacts, InputFacts DEF IInv
    <3> QED
      BY <1>1, <1>3, <3>1
  <2>5. Good(pos)
    BY <2>2, <2>4 DEF Good, FullLen
  <2>6. NamesInv'
    BY <2>1 DEF DiskInv, NamesInv, NameOf, OwnedBy, OwnFile, LinkEntry, Target
  <2>7. links' # <<>> => HasLinks(pos) /\ From(entries[pos].ino, links', pos)
    BY <1>3 DEF DiskInv, MapInv
  <2>8. MapInv'
    <3>1. \A i \in DOMAIN linkMap' : From(i, linkMap[i], pos)'
      BY <2>1 DEF DiskInv, MapInv, From, LinkEntry, Target
    <3>2. links' # <<>> => From(entries[pos].ino, links, pos)'
      BY <2>1, <2>7 DEF From, LinkEntry, Target
    <3>3. \A k \in 1..pos' : LinkEntry(k)' => Saved(k)'
      BY <2>1 DEF DiskInv, MapInv, LinkEntry, Saved, In, Target
    <3> QED
      BY <1>1, <1>3, <2>1, <3>1, <3>2, <3>3 DEF MapInv
  <2>9. ASSUME NEW k \in 1..pos PROVE Good(k)
    <3>1. CASE k = pos
      BY <2>5, <3>1
    <3>2. CASE k # pos
      <4>1. k < pos
        BY <2>3, <3>2
      <4> QED
        BY <2>1, <4>1 DEF DiskInv, DoneInv
    <3> QED
      BY <3>1, <3>2
  <2>10. DoneInv'
    BY <2>1, <2>9 DEF DoneInv, Good, OwnFile, LinkEntry, FullLen, Made, Target
  <2>11. ContentsInv'
    BY <1>3 DEF ContentsInv
  <2>12. ASSUME NEW m \in 1..pos, NEW k \in 1..(m - 1), Joins(k, m)
         PROVE  Shares(k, m) \/ (m = pos /\ In(Target(k), links'))
    <3>1. CASE m = pos
      <4>1. k \in 1..pos /\ LinkEntry(k) /\ entries[k].ino = entries[pos].ino /\ HasLinks(pos)
        BY <2>3, <2>12, <3>1 DEF Joins
      <4>2. Saved(k)
        BY <2>1, <4>1 DEF DiskInv, MapInv
      <4>3. In(Target(k), links')
        BY <1>3, <4>1, <4>2 DEF Saved
      <4> QED
        BY <3>1, <4>3
    <3>2. CASE m # pos
      <4>1. m < pos
        BY <2>3, <3>2
      <4> QED
        BY <2>1, <2>12, <3>2, <4>1 DEF DiskInv, LinkedInv
    <3> QED
      BY <3>1, <3>2
  <2>13. LinkedInv'
    BY <2>1, <2>12 DEF LinkedInv, Joins, HasLinks, LinkEntry, Shares, Target, In
  <2> QED
    BY <2>6, <2>8, <2>10, <2>11, <2>13 DEF DiskInv
<1>4. \/ \E err \in {"read error", "short write", "hardlinks missing"} : Return(err)
      \/ /\ ~(written < entries[pos].size)
         /\ ~(HasLinks(pos) /\ entries[pos].ino \notin DOMAIN linkMap) /\ file' = 0
         /\ links' = IF HasLinks(pos) THEN linkMap[entries[pos].ino] ELSE <<>>
         /\ UNCHANGED <<input, places, pass, pos, linkMap, written, ret>>
  <2>1. CASE written < entries[pos].size
    <3>1. Return(IF input.fault THEN "read error" ELSE "short write")
      BY <2>1 DEF CopyEnd
    <3>2. Return("read error") \/ Return("short write")
      BY <3>1, Zenon
    <3> QED
      BY <3>2, Zenon
  <2>2. CASE ~(written < entries[pos].size)
    BY <2>2, Zenon DEF CopyEnd
  <2> QED
    BY <2>1, <2>2
<1> QED
  BY <1>2, <1>3, <1>4

(* os.Link: the first of the waiting names gets the inode they wait for.   *)
LEMMA MakeLinkDisk == IInv /\ DiskInv /\ MakeLink => DiskInv'
<1> SUFFICES ASSUME IInv, DiskInv, MakeLink PROVE DiskInv'
  OBVIOUS
<1>1. ret = "running" /\ file = 0 /\ links # <<>> /\ UNCHANGED inodes
  BY DEF MakeLink
<1>2. CASE Head(links) \in DOMAIN tree
  <2>1. ret' = "exists" /\ UNCHANGED <<input, places, pos, linkMap, file, links, tree>>
    BY <1>2 DEF MakeLink, Return
  <2>2. OnlyWrites(pos) /\ ret' \notin {"running", "nil"}
    BY <1>1, <2>1, NothingWritten
  <2> QED
    BY <1>1, <2>1, <2>2, ErrorDisk
<1>3. CASE Head(links) \notin DOMAIN tree
  <2> DEFINE p == Head(links)
  <2>1. /\ tree' = Also(tree, One(p, tree[Target(pos)])) /\ links' = Tail(links)
        /\ UNCHANGED <<input, places, pos, linkMap, file, ret>> /\ entries' = entries /\ Going
    BY <1>1, <1>3 DEF MakeLink, entries, Going
  <2>2. /\ links \in Seq(Path) /\ Len(links) \in Nat /\ Len(links) # 0 /\ p = links[1]
        /\ Len(Tail(links)) = Len(links) - 1
        /\ \A j \in 1..(Len(links) - 1) : Tail(links)[j] = links[j + 1]
    <3>1. links \in Seq(Path)
      BY DEF IInv, WaitInv, Waits
    <3> QED
      BY <1>1, <3>1, HeadTailProperties
  <2>3. pos # 0 /\ Target(pos) \in DOMAIN tree
    BY <1>1 DEF IInv, CopyInv
  <2>4. pos \in 1..Len(entries) /\ pos \in Nat
    BY <2>3, InputFacts DEF IInv
  <2>5. /\ DOMAIN tree' = DOMAIN tree \cup {p} /\ tree'[p] = tree[Target(pos)]
        /\ \A q \in DOMAIN tree : tree'[q] = tree[q]
    BY <1>3, <2>1 DEF Also, One
  <2>6. OnlyWrites(0)
    BY <1>1, <2>1, <2>5 DEF OnlyWrites
  <2>7. From(entries[pos].ino, links, pos)
    BY <1>1 DEF DiskInv, MapInv
  <2>8. PICK c \in 1..pos : LinkEntry(c) /\ p = Target(c)
    BY <2>2, <2>7 DEF From
  <2> HIDE DEF p
  <2>9. NamesInv'
    <3>1. c \in 1..Len(entries)
      BY <2>4
    <3>2. ASSUME NEW q, q = p PROVE NameOf(q, c)'
      BY <2>1, <2>8, <3>2 DEF NameOf, LinkEntry, Target
    <3>3. \A q \in DOMAIN tree' : q \notin DOMAIN tree =>
            tree'[q] = 0 \/ \E k \in 1..Len(entries) : NameOf(q, k)'
      BY <2>5, <3>1, <3>2
    <3> QED
      BY <2>6, <3>3, KeepNames DEF DiskInv
  <2>10. \A j \in 1..Len(Tail(links)) : j + 1 \in 1..Len(links) /\ Tail(links)[j] = links[j + 1]
    BY <2>2
  <2>11. MapInv'
    <3>1. \A i \in DOMAIN linkMap' : From(i, linkMap[i], pos)'
      BY <2>1 DEF DiskInv, MapInv, From, LinkEntry, Target
    <3>2. From(entries[pos].ino, links, pos)'
      BY <2>1, <2>7, <2>10 DEF From, LinkEntry, Target
    <3>3. \A k \in 1..pos' : LinkEntry(k)' => Saved(k)'
      BY <2>1 DEF DiskInv, MapInv, LinkEntry, Saved, In, Target
    <3> QED
      BY <1>1, <2>1, <3>1, <3>2, <3>3 DEF MapInv
  <2>12. ContentsInv'
    BY <1>1, <2>1 DEF ContentsInv
  <2>13. ASSUME NEW k \in 1..pos PROVE Good(k) /\ Good(k)'
    <3>1. Good(k)
      BY <1>1, <2>1 DEF DiskInv, DoneInv
    <3>2. k # 0
      BY <2>4
    <3> QED
      BY <2>6, <3>1, <3>2, KeepGood
  <2>14. DoneInv'
    BY <2>1, <2>13 DEF DoneInv
  <2>15. LinkedInv'
    <3> SUFFICES ASSUME NEW m \in 1..pos, NEW k \in 1..(m - 1), Joins(k, m)
                 PROVE  Shares(k, m)' \/ (m = pos /\ In(Target(k), links'))
      BY <2>1 DEF LinkedInv, Joins, HasLinks, LinkEntry, Target, In
    <3>1. Shares(k, m) \/ (m = pos /\ In(Target(k), links))
      BY <1>1, <2>1 DEF DiskInv, LinkedInv
    <3>2. CASE Shares(k, m)
      <4>1. entries[m].size \in Nat
        BY <2>4, InputFacts DEF IInv
      <4>2. Target(m) \in DOMAIN tree
        BY <2>13, <4>1, JoinedIsGood
      <4> QED
        BY <2>6, <3>2, <4>2, KeepShares
    <3>3. CASE m = pos /\ In(Target(k), links)
      <4>1. PICK j \in 1..Len(links) : links[j] = Target(k)
        BY <3>3 DEF In
      <4>2. CASE j = 1
        <5>1. Target(k) = p
          BY <2>2, <4>1, <4>2
        <5> QED
          BY <2>1, <2>3, <2>5, <3>3, <5>1 DEF Shares, Target
      <4>3. CASE j # 1
        <5>1. j - 1 \in 1..Len(Tail(links)) /\ Tail(links)[j - 1] = links[j]
          BY <2>2, <4>3
        <5> QED
          BY <2>1, <3>3, <4>1, <5>1 DEF In
      <4> QED
        BY <4>2, <4>3
    <3> QED
      BY <3>1, <3>2, <3>3
  <2> QED
    BY <2>9, <2>11, <2>12, <2>14, <2>15 DEF DiskInv
<1> QED
  BY <1>2, <1>3

(* Steps that change nothing but ret, and the start of another pass.       *)
LEMMA TrailerDisk == IInv /\ DiskInv /\ Trailer => DiskInv'
<1> SUFFICES ASSUME IInv, DiskInv, Trailer PROVE DiskInv'
  OBVIOUS
<1>1. /\ UNCHANGED <<input, places, pos, linkMap, file, written, links, tree, inodes>>
      /\ Going /\ links = <<>> /\ entries' = entries
  BY DEF Trailer, Idle, Return, fsVars, Going, entries
<1>2. NamesInv' /\ DoneInv' /\ ContentsInv'
  BY <1>1 DEF DiskInv, NamesInv, NameOf, OwnedBy, DoneInv, ContentsInv, Good, FullLen, Made,
     OwnFile, LinkEntry, Target
<1>3. MapInv'
  BY <1>1, Zenon DEF DiskInv, MapInv, From, Saved, In, HasLinks, LinkEntry, Target
<1>4. LinkedInv'
  BY <1>1, Zenon DEF DiskInv, LinkedInv, Joins, Shares, HasLinks, LinkEntry, Target
<1> QED
  BY <1>2, <1>3, <1>4 DEF DiskInv

(* The archive is extracted once more.                                     *)
LEMMA AgainDisk == IInv /\ DiskInv /\ Again => DiskInv'
<1> SUFFICES ASSUME IInv, DiskInv, Again PROVE DiskInv'
  OBVIOUS
<1>1. /\ UNCHANGED <<input, places, tree, inodes>> /\ entries' = entries
      /\ pos' = 0 /\ linkMap' = <<>> /\ file' = 0 /\ links' = <<>>
  BY DEF Again, entries
<1>2. NamesInv'
  BY <1>1 DEF DiskInv, NamesInv, NameOf, OwnedBy, OwnFile, LinkEntry, Target
<1>3. MapInv' /\ DoneInv' /\ ContentsInv' /\ LinkedInv'
  BY <1>1 DEF MapInv, DoneInv, ContentsInv, LinkedInv
<1> QED
  BY <1>2, <1>3 DEF DiskInv

(* A step that only returns an error.                                      *)
LEMMA ReturnDisk ==
  ASSUME IInv, DiskInv, NEW err, Return(err), err \notin {"running", "nil"}, UNCHANGED fsVars
  PROVE  DiskInv'
<1>1. /\ ret' = err /\ UNCHANGED <<input, places, pos, linkMap, file, links, tree, inodes>>
  BY DEF Return, fsVars
<1>2. OnlyWrites(pos)
  BY <1>1, NothingWritten
<1> QED
  BY <1>1, <1>2, ErrorDisk

(* So does an entry that does not pass the check.                          *)
LEMMA InvalidPathDisk == IInv /\ DiskInv /\ InvalidPath => DiskInv'
<1> SUFFICES ASSUME IInv, DiskInv, InvalidPath PROVE DiskInv'
  OBVIOUS
<1>1. /\ ret' = "invalid path" /\ UNCHANGED <<input, places, linkMap, file, links, tree, inodes>>
      /\ pos' = pos + 1 /\ links = <<>>
  BY DEF InvalidPath, NextEntry, Idle, fsVars
<1>2. OnlyWrites(pos)
  BY <1>1, NothingWritten
<1> QED
  BY <1>1, <1>2, ErrorDisk

(* Stuttering.                                                             *)
LEMMA StutterDisk ==
  ASSUME DiskInv, UNCHANGED vars
  PROVE  DiskInv'
<1>1. UNCHANGED <<input, places, pos, linkMap, file, written, links, tree, inodes, ret>>
      /\ entries' = entries
  BY DEF vars, entries
<1>2. NamesInv' /\ DoneInv' /\ ContentsInv'
  BY <1>1 DEF DiskInv, NamesInv, NameOf, OwnedBy, DoneInv, ContentsInv, Good, FullLen, Made,
     OwnFile, LinkEntry, Target, Going
<1>3. MapInv' /\ LinkedInv'
  BY <1>1 DEF DiskInv, MapInv, From, Saved, In, LinkedInv, Joins, Shares, HasLinks, LinkEntry,
     Target, Going
<1> QED
  BY <1>2, <1>3 DEF DiskInv

(* Extract starts on an empty file system.                                 *)
LEMMA InitDisk == Init => DiskInv
<1> SUFFICES ASSUME Init PROVE DiskInv
  OBVIOUS
<1>1. tree = One(<<>>, 0) /\ pos = 0 /\ linkMap = <<>> /\ file = 0 /\ links = <<>>
  BY DEF Init, Start
<1>2. NamesInv
  BY <1>1 DEF NamesInv, One
<1>3. MapInv /\ DoneInv /\ ContentsInv /\ LinkedInv
  BY <1>1 DEF MapInv, DoneInv, ContentsInv, LinkedInv
<1> QED
  BY <1>2, <1>3 DEF DiskInv

(* Every step keeps the second invariant.                                  *)
LEMMA NextDisk == IInv /\ DiskInv /\ [Next]_vars => DiskInv'
<1> SUFFICES ASSUME IInv, DiskInv, [Next]_vars PROVE DiskInv'
  OBVIOUS
<1>1. CASE NextFails
  <2>1. Return("read error") /\ UNCHANGED fsVars
    BY <1>1 DEF NextFails
  <2> QED
    BY <2>1, ReturnDisk
<1>2. CASE Trailer
  BY <1>2, TrailerDisk
<1>3. CASE InvalidPath
  BY <1>3, InvalidPathDisk
<1>4. CASE SkipDevice
  BY <1>4, SkipDeviceDisk
<1>5. CASE UnknownMode
  <2>1. NextEntry(TRUE, {"sock"}) /\ Done("unknown mode")
    BY <1>5 DEF UnknownMode
  <2> QED
    BY <2>1, DoneDisk
<1>6. CASE MakeDir
  BY <1>6, MakeDirDisk
<1>7. CASE MakeFifo
  BY <1>7, MakeSpecialDisk DEF MakeFifo
<1>8. CASE MakeSymlink
  BY <1>8, MakeSymlinkDisk
<1>9. CASE SaveLink
  BY <1>9, SaveLinkDisk
<1>10. CASE Create
  BY <1>10, CreateDisk
<1>11. CASE Copy
  BY <1>11, CopyDisk
<1>12. CASE CopyEnd
  BY <1>12, CopyEndDisk
<1>13. CASE MakeLink
  BY <1>13, MakeLinkDisk
<1>14. CASE CallFails
  <2>1. Return("call failed") /\ UNCHANGED fsVars
    BY <1>14 DEF CallFails
  <2> QED
    BY <2>1, ReturnDisk
<1>15. CASE Again
  BY <1>15, AgainDisk
<1>16. CASE UNCHANGED vars
  BY <1>16, StutterDisk
<1> QED
  BY <1>1, <1>2, <1>3, <1>4, <1>5, <1>6, <1>7, <1>8, <1>9, <1>10, <1>11, <1>12, <1>13, <1>14,
     <1>15, <1>16 DEF Next, Step

(* nil is returned behind the last entry, with nothing left to link.       *)
EndInv == ret = "nil" => pos = Len(entries) /\ file = 0 /\ links = <<>>

(* Init and every step keep that.                                          *)
LEMMA EndKept == (Init => EndInv) /\ (EndInv /\ [Next]_vars => EndInv')
<1>1. Init => EndInv
  BY DEF Init, Start, EndInv
<1> SUFFICES ASSUME EndInv, [Next]_vars, ret' = "nil"
             PROVE  (pos = Len(entries) /\ file = 0 /\ links = <<>>)'
  BY <1>1 DEF EndInv
<1>2. CASE Trailer
  BY <1>2 DEF Trailer, Idle, Return, fsVars, entries
<1>3. CASE UNCHANGED vars
  BY <1>3 DEF EndInv, vars, entries
<1>4. Trailer \/ UNCHANGED vars
  BY DEF Next, Step, vars, NextFails, InvalidPath, SkipDevice, UnknownMode, MakeDir, MakeFifo,
     MakeSymlink, SaveLink, Create, Copy, CopyEnd, MakeLink, CallFails, Again, Return, Done,
     NewInode, MakeSpecial, NextEntry, Idle
<1> QED
  BY <1>2, <1>3, <1>4

-----------------------------------------------------------------------------
(* Which archives are extracted.  A third invariant: a directory on disk   *)
(* is an entry of its own or lies above one, so it is never in the way of  *)
(* a file; and in the first pass the only files there are those of entries *)
(* already read, and of links whose contents have been.                    *)

DirPlace(p) ==
  \/ p = <<>>
  \/ \E k \in 1..Len(entries) : p \in Above(Target(k)) \/ (p = Target(k) /\ entries[k].type = "dir")
ZeroInv == \A p \in DOMAIN tree : tree[p] = 0 => DirPlace(p)

(* A name waits once, and for a file that has links.                       *)
Distinct(ps) == \A i, j \in 1..Len(ps) : ps[i] = ps[j] => i = j
ShapeInv ==
  /\ \A i \in DOMAIN linkMap : Distinct(linkMap[i])
  /\ Distinct(links)
  /\ links # <<>> => HasLinks(pos) /\ entries[pos].type = "reg"

Early(k) ==
  /\ k \in 1..pos
  /\ LinkEntry(k) => /\ ~In(Target(k), links)
                     /\ \E m \in 1..pos : Joins(k, m) /\ (m < pos \/ file = 0)
FreshInv ==
  pass = 1 => \A k \in 1..Len(entries) :
    Target(k) \in DOMAIN tree /\ tree[Target(k)] # 0 => Early(k)

(* The consequent of ExtractableSucceeds.                                  *)
Fine ==
  \/ ret \in {"running", "nil", "call failed"}
  \/ ret = "NUL in target" /\ HasType({"lnk"})
  \/ /\ ret = "exists" /\ pass > 1
     /\ HasType({"fifo", "lnk"}) \/ \E k, m \in DOMAIN entries : LinkOf(m, k)

SuccessInv == ZeroInv /\ ShapeInv /\ (Extractable => FreshInv /\ Fine)

(* What a step makes: directories, the file of the entry it reads, or a    *)
(* link.                                                                   *)
NewName(p) ==
  \/ tree'[p] = 0 /\ DirPlace(p)
  \/ tree'[p] # 0 /\ pos' = pos + 1 /\ p = Target(pos + 1) /\ OwnFile(pos + 1)
  \/ tree'[p] # 0 /\ MakeLink /\ p = Head(links)
TreeKept ==
  /\ UNCHANGED <<input, places>>
  /\ DOMAIN tree \subseteq DOMAIN tree' /\ \A p \in DOMAIN tree : tree'[p] = tree[p]
  /\ \A p \in DOMAIN tree' : p \notin DOMAIN tree => NewName(p)

(* The directories above an entry are places of directories.               *)
LEMMA ParentsArePlaces ==
  ASSUME IInv, NEW types, NextEntry(TRUE, types)
  PROVE  /\ UNCHANGED <<input, places>> /\ pos' = pos + 1 /\ target = Target(pos + 1)
         /\ DOMAIN tree \subseteq DOMAIN WithParents /\ \A p \in DOMAIN tree : WithParents[p] = tree[p]
         /\ \A p \in DOMAIN WithParents : p \notin DOMAIN tree => WithParents[p] = 0 /\ DirPlace(p)
<1>1. /\ UNCHANGED <<input, places>> /\ pos' = pos + 1 /\ pos' \in 1..Len(entries)
      /\ Grown(tree, WithParents, Above(target))
  BY EntryFacts
<1>2. target = Target(pos + 1)
  BY DEF target
<1>3. ASSUME NEW p \in DOMAIN WithParents, p \notin DOMAIN tree
      PROVE  WithParents[p] = 0 /\ DirPlace(p)
  <2>1. p \in Above(target)
    BY <1>1, <1>3 DEF Grown
  <2>2. WithParents[p] = 0
    BY <1>3, <2>1 DEF WithParents, Also, WithDirs
  <2>3. DirPlace(p)
    BY <1>1, <1>2, <2>1 DEF DirPlace
  <2> QED
    BY <2>2, <2>3
<1> QED
  BY <1>1, <1>2, <1>3 DEF Grown

(* A step that makes the directories above an entry, and no more.          *)
LEMMA DoneTree ==
  ASSUME IInv, NEW types, NextEntry(TRUE, types), tree' = WithParents
  PROVE  TreeKept
BY ParentsArePlaces DEF TreeKept, NewName

(* A step that also makes the file of the entry.                           *)
LEMMA NewInodeTree ==
  ASSUME IInv, NEW types, NextEntry(TRUE, types), NEW ty, NewInode(ty), ~Exists, OwnFile(pos + 1)
  PROVE  TreeKept
<1>1. tree' = Also(WithParents, One(target, Len(inodes) + 1)) /\ target \notin DOMAIN WithParents
  BY DEF NewInode, Exists
<1>2. Len(inodes) + 1 # 0
  BY EntryFacts
<1>3. /\ DOMAIN tree' = DOMAIN WithParents \cup {target} /\ tree'[target] # 0
      /\ \A p \in DOMAIN WithParents : tree'[p] = WithParents[p]
  BY <1>1, <1>2 DEF Also, One
<1> QED
  BY <1>3, ParentsArePlaces DEF TreeKept, NewName

(* A file with links and contents makes an inode.                          *)
LEMMA LinkedIsOwn ==
  ASSUME IInv, NEW k \in 1..Len(entries), HasLinks(k), entries[k].type = "reg"
  PROVE  OwnFile(k)
<1>1. entries[k].size \in Nat
  BY InputFacts DEF IInv
<1> QED
  BY <1>1 DEF HasLinks, OwnFile, LinkEntry

(* os.Link makes a name of a file.                                         *)
LEMMA MakeLinkTree ==
  ASSUME IInv, DiskInv, ShapeInv, MakeLink
  PROVE  TreeKept
<1>1. ret = "running" /\ file = 0 /\ links # <<>> /\ Going
  BY DEF MakeLink, Going
<1>2. CASE Head(links) \in DOMAIN tree
  BY <1>2 DEF MakeLink, Return, TreeKept
<1>3. CASE Head(links) \notin DOMAIN tree
  <2>1. tree' = Also(tree, One(Head(links), tree[Target(pos)])) /\ UNCHANGED <<input, places>>
    BY <1>3 DEF MakeLink
  <2>2. pos # 0 /\ pos \in 1..Len(entries) /\ pos \in 1..pos
    <3>1. pos # 0
      BY <1>1 DEF IInv, CopyInv
    <3> QED
      BY <3>1, InputFacts DEF IInv
  <2>3. OwnFile(pos)
    BY <1>1, <2>2, LinkedIsOwn DEF ShapeInv
  <2>4. Good(pos)
    BY <1>1, <2>2 DEF DiskInv, DoneInv
  <2>5. tree[Target(pos)] # 0
    BY <2>3, <2>4 DEF Good, Made
  <2>6. /\ DOMAIN tree' = DOMAIN tree \cup {Head(links)} /\ tree'[Head(links)] # 0
        /\ \A p \in DOMAIN tree : tree'[p] = tree[p]
    BY <1>3, <2>1, <2>5 DEF Also, One
  <2> QED
    BY <2>1, <2>6 DEF TreeKept, NewName
<1> QED
  BY <1>2, <1>3

(* os.Mkdir makes a place of a directory.                                  *)
LEMMA MakeDirTree ==
  ASSUME IInv, MakeDir
  PROVE  TreeKept
<1>1. NextEntry(TRUE, {"dir"}) /\ tree' = Also(WithParents, WithDirs({target}))
  BY DEF MakeDir
<1>2. e.type \in {"dir"} /\ pos' \in 1..Len(entries) /\ pos' = pos + 1
  BY <1>1, EntryFacts
<1>3. DirPlace(target)
  BY <1>2 DEF DirPlace, target, e
<1>4. /\ DOMAIN tree' = DOMAIN WithParents \cup {target}
      /\ \A p \in DOMAIN WithParents : tree'[p] = WithParents[p]
      /\ target \notin DOMAIN WithParents => tree'[target] = 0
  BY <1>1 DEF Also, WithDirs
<1>5. /\ UNCHANGED <<input, places>>
      /\ DOMAIN tree \subseteq DOMAIN WithParents /\ \A p \in DOMAIN tree : WithParents[p] = tree[p]
      /\ \A p \in DOMAIN WithParents : p \notin DOMAIN tree => WithParents[p] = 0 /\ DirPlace(p)
  BY <1>1, ParentsArePlaces
<1>6. ASSUME NEW p \in DOMAIN tree', p \notin DOMAIN tree
      PROVE  tree'[p] = 0 /\ DirPlace(p)
  <2>1. CASE p \in DOMAIN WithParents
    BY <1>4, <1>5, <1>6, <2>1
  <2>2. CASE p \notin DOMAIN WithParents
    BY <1>3, <1>4, <2>2
  <2> QED
    BY <2>1, <2>2
<1> QED
  BY <1>4, <1>5, <1>6 DEF TreeKept, NewName

(* Mkfifo, os.Symlink.                                                     *)
LEMMA MakeSpecialTree ==
  ASSUME IInv, NEW ty \in {"fifo", "lnk"}, NextEntry(TRUE, {ty}), MakeSpecial(ty)
  PROVE  TreeKept
<1>1. e.type \in {ty}
  BY EntryFacts
<1>2. OwnFile(pos + 1)
  BY <1>1 DEF e, OwnFile, LinkEntry
<1>3. CASE Exists
  BY <1>3, DoneTree DEF MakeSpecial, Done
<1>4. CASE ~Exists
  BY <1>2, <1>4, NewInodeTree DEF MakeSpecial
<1> QED
  BY <1>3, <1>4

(* os.Create.                                                              *)
LEMMA CreateTree ==
  ASSUME IInv, Create
  PROVE  TreeKept
<1>1. NextEntry(TRUE, {"reg"}) /\ ~isLink
  BY DEF Create
<1>2. e.type \in {"reg"}
  BY <1>1, EntryFacts
<1>3. OwnFile(pos + 1)
  BY <1>1, <1>2 DEF e, OwnFile, LinkEntry, isLink
<1>4. CASE Exists
  <2>1. tree' = WithParents
    BY <1>4 DEF Create, Done
  <2> QED
    BY <1>1, <2>1, DoneTree
<1>5. CASE ~Exists
  <2>1. NewInode("reg")
    BY <1>5 DEF Create
  <2> QED
    BY <1>1, <1>3, <1>5, <2>1, NewInodeTree
<1> QED
  BY <1>4, <1>5

(* What any step makes.                                                    *)
LEMMA StepTree ==
  ASSUME IInv, DiskInv, ShapeInv, [Next]_vars
  PROVE  TreeKept
<1>1. ASSUME UNCHANGED <<input, places, tree>> PROVE TreeKept
  BY <1>1 DEF TreeKept
<1>2. CASE NextFails \/ Trailer \/ CallFails
  BY <1>1, <1>2 DEF NextFails, Trailer, CallFails, Return, fsVars
<1>3. CASE InvalidPath
  BY <1>1, <1>3 DEF InvalidPath, NextEntry, fsVars
<1>4. CASE SkipDevice
  BY <1>4, DoneTree DEF SkipDevice, Done
<1>5. CASE UnknownMode
  BY <1>5, DoneTree DEF UnknownMode, Done
<1>6. CASE MakeDir
  BY <1>6, MakeDirTree
<1>7. CASE MakeFifo
  BY <1>7, MakeSpecialTree DEF MakeFifo
<1>8. CASE MakeSymlink
  <2>1. NextEntry(TRUE, {"lnk"})
    BY <1>8 DEF MakeSymlink
  <2>2. (\E err : Done(err)) \/ MakeSpecial("lnk")
    BY <1>8, Zenon DEF MakeSymlink
  <2>3. ASSUME NEW err, Done(err) PROVE TreeKept
    BY <2>1, <2>3, DoneTree DEF Done
  <2> QED
    BY <2>1, <2>2, <2>3, MakeSpecialTree
<1>9. CASE SaveLink
  BY <1>9, DoneTree DEF SaveLink
<1>10. CASE Create
  BY <1>10, CreateTree
<1>11. CASE Copy
  BY <1>1, <1>11 DEF Copy
<1>12. CASE CopyEnd
  <2>1. UNCHANGED <<input, places, tree>>
    BY <1>12 DEF CopyEnd, Return, fsVars
  <2> QED
    BY <1>1, <2>1
<1>13. CASE MakeLink
  BY <1>13, MakeLinkTree
<1>14. CASE Again
  BY <1>1, <1>14 DEF Again
<1>15. CASE UNCHANGED vars
  BY <1>1, <1>15 DEF vars
<1> QED
  BY <1>2, <1>3, <1>4, <1>5, <1>6, <1>7, <1>8, <1>9, <1>10, <1>11, <1>12, <1>13, <1>14,
     <1>15 DEF Next, Step

(* Directories stay in their places.                                       *)
LEMMA ZeroKept ==
  ASSUME ZeroInv, TreeKept
  PROVE  ZeroInv'
<1> SUFFICES ASSUME NEW p \in DOMAIN tree', tree'[p] = 0 PROVE DirPlace(p)'
  BY DEF ZeroInv
<1>1. DirPlace(p)
  BY DEF ZeroInv, TreeKept, NewName
<1>2. UNCHANGED <<input, places>>
  BY DEF TreeKept
<1> QED
  BY <1>1, <1>2 DEF DirPlace, Target, entries

(* No directory is in the way of a file: InputOK.                          *)
LEMMA NotADirectory ==
  ASSUME IInv, ZeroInv, NEW k \in 1..Len(entries), entries[k].type \in {"reg", "fifo", "lnk"},
         Target(k) \in DOMAIN tree
  PROVE  tree[Target(k)] # 0
<1> SUFFICES ASSUME DirPlace(Target(k)) PROVE FALSE
  BY DEF ZeroInv
<1>1. InputOK(input) /\ InputInv
  BY InputsAssumption DEF IInv, InputInv
<1>2. /\ DOMAIN entries = 1..Len(entries) /\ input.dest.path \in Path
      /\ \A m \in 1..Len(entries) : Target(m) \in Path
  BY <1>1, InputFacts
<1>3. \A m \in 1..Len(entries) : Target(m) = sanitize(input.dest, entries[m]).path
  BY <1>1, <1>2 DEF InputInv, Target
<1>4. IsPrefix(Target(k), input.dest.path) => entries[k].type = "dir"
  <2>1. \A m \in DOMAIN entries :
          IsPrefix(sanitize(input.dest, entries[m]).path, input.dest.path) => entries[m].type = "dir"
    BY <1>1, Zenon DEF InputOK, entries
  <2> QED
    BY <1>2, <1>3, <2>1
<1>5. \A m \in 1..Len(entries) : k # m /\ IsPrefix(Target(k), Target(m)) =>
        entries[k].type \in {"dir", "chr", "blk"}
  <2>1. \A i, m \in DOMAIN entries : i # m =>
          (IsPrefix(sanitize(input.dest, entries[i]).path, sanitize(input.dest, entries[m]).path)
             => entries[i].type \in {"dir", "chr", "blk"})
    BY <1>1, Zenon DEF InputOK, entries
  <2> QED
    BY <1>2, <1>3, <2>1
<1>6. CASE Target(k) = <<>>
  <2>1. IsPrefix(<<>>, input.dest.path)
    <3>1. 0 <= Len(input.dest.path) /\ Len(<<>>) = 0
      BY <1>2 DEF Path
    <3>2. SubSeq(<<>>, 1, 0) = SubSeq(input.dest.path, 1, 0)
      OBVIOUS
    <3> QED
      BY <3>1, <3>2 DEF IsPrefix
  <2> QED
    BY <1>4, <1>6, <2>1
<1>7. ASSUME NEW m \in 1..Len(entries), Target(k) \in Above(Target(m)) PROVE FALSE
  <2>1. k # m
    BY <1>2, <1>7, AboveFacts
  <2>2. PICK n \in 0..(Len(Target(m)) - 1) : Target(k) = SubSeq(Target(m), 1, n)
    BY <1>7 DEF Above
  <2>3. n \in 0..Len(Target(m)) /\ Len(Target(m)) \in Nat /\ n <= Len(Target(m)) /\ n \in 0..n
    BY <1>2, <2>2 DEF Path
  <2>4. Len(Target(k)) = n
    BY <1>2, <2>2, <2>3, PrefixOf
  <2>5. SubSeq(Target(k), 1, n) = SubSeq(Target(m), 1, n)
    BY <1>2, <2>2, <2>3, PrefixOfPrefix
  <2>6. IsPrefix(Target(k), Target(m))
    BY <2>3, <2>4, <2>5 DEF IsPrefix
  <2> QED
    BY <1>5, <2>1, <2>6
<1>8. ASSUME NEW m \in 1..Len(entries), Target(k) = Target(m), entries[m].type = "dir" PROVE FALSE
  BY <1>1, <1>8, DistinctTargets
<1> QED
  BY <1>6, <1>7, <1>8 DEF DirPlace

(* A link is saved once: the names that wait are those of earlier entries. *)
LEMMA SaveLinkShape ==
  ASSUME IInv, DiskInv, ShapeInv, SaveLink
  PROVE  ShapeInv'
<1> DEFINE ino == e.ino
           w == Waiting(e.ino)
           ps == Append(Waiting(e.ino), target)
<1>1. /\ NextEntry(TRUE, {"reg"}) /\ linkMap' = Also(One(ino, ps), linkMap) /\ links' = links
  BY DEF SaveLink
<1>2. /\ links = <<>> /\ Rooted(input.dest.path, WithParents, target) /\ pos' = pos + 1
      /\ pos' \in 1..Len(entries)
  BY <1>1, EntryFacts
<1>3. pos \in Nat /\ target = Target(pos + 1) /\ InputInv
  BY InputFacts DEF IInv, target
<1>4. /\ Len(w) \in Nat /\ Len(ps) = Len(w) + 1 /\ ps[Len(w) + 1] = target
      /\ \A j \in 1..Len(w) : ps[j] = w[j]
  <2>1. w \in Seq(Path)
    BY DEF Waiting, IInv, WaitInv, Waits
  <2>2. target \in Path
    BY <1>2 DEF Rooted
  <2> QED
    BY <2>1, <2>2, AppendProperties
<1>5. \A j \in 1..Len(w) : \E k \in 1..pos : w[j] = Target(k)
  BY DEF Waiting, DiskInv, MapInv, From
<1>6. \A j \in 1..Len(w) : w[j] # target
  <2> SUFFICES ASSUME NEW j \in 1..Len(w), NEW k \in 1..pos, w[j] = Target(k), w[j] = target
               PROVE  FALSE
    BY <1>5
  <2>1. k \in 1..Len(entries) /\ pos + 1 \in 1..Len(entries) /\ k # pos + 1
    BY <1>2, <1>3
  <2> QED
    BY <1>3, <2>1, DistinctTargets
<1>7. Distinct(w)
  <2>1. CASE e.ino \in DOMAIN linkMap
    BY <2>1 DEF Waiting, ShapeInv
  <2>2. CASE e.ino \notin DOMAIN linkMap
    BY <2>2 DEF Waiting, Distinct
  <2> QED
    BY <2>1, <2>2
<1> HIDE DEF w, ps, ino
<1>8. Distinct(ps)
  <2> SUFFICES ASSUME NEW i \in 1..Len(ps), NEW j \in 1..Len(ps), ps[i] = ps[j] PROVE i = j
    BY DEF Distinct
  <2>1. i \in 1..Len(w) \/ i = Len(w) + 1
    BY <1>4
  <2>2. j \in 1..Len(w) \/ j = Len(w) + 1
    BY <1>4
  <2> QED
    BY <1>4, <1>6, <1>7, <2>1, <2>2 DEF Distinct
<1>9. ASSUME NEW i \in DOMAIN linkMap' PROVE Distinct(linkMap'[i])
  <2>1. CASE i = ino
    BY <1>1, <1>8, <2>1 DEF Also, One
  <2>2. CASE i # ino
    BY <1>1, <2>2 DEF Also, One, ShapeInv
  <2> QED
    BY <2>1, <2>2
<1>10. Distinct(links) /\ links' = <<>>
  BY <1>1, <1>2 DEF ShapeInv
<1> QED
  BY <1>1, <1>9, <1>10 DEF ShapeInv, Distinct

(* Every step keeps the lists of names in shape.                           *)
LEMMA ShapeKept ==
  ASSUME IInv, DiskInv, ShapeInv, [Next]_vars
  PROVE  ShapeInv'
<1>1. ASSUME UNCHANGED <<input, linkMap, links>>, UNCHANGED pos \/ links = <<>> PROVE ShapeInv'
  BY <1>1 DEF ShapeInv, Distinct, HasLinks, entries
<1>2. CASE NextFails \/ Trailer \/ CallFails
  BY <1>1, <1>2 DEF NextFails, Trailer, CallFails, Return
<1>3. CASE InvalidPath \/ SkipDevice \/ UnknownMode \/ MakeDir
  BY <1>1, <1>3 DEF InvalidPath, SkipDevice, UnknownMode, MakeDir, Done, NextEntry, Idle
<1>4. CASE MakeFifo \/ MakeSymlink
  BY <1>1, <1>4 DEF MakeFifo, MakeSymlink, MakeSpecial, Done, NewInode, NextEntry, Idle
<1>5. CASE SaveLink
  BY <1>5, SaveLinkShape
<1>6. CASE Create
  BY <1>1, <1>6 DEF Create, Done, NewInode, NextEntry, Idle
<1>7. CASE Copy
  BY <1>1, <1>7 DEF Copy
<1>8. CASE CopyEnd
  <2>1. CASE UNCHANGED <<input, pos, linkMap, links>>
    BY <1>1, <2>1
  <2>2. CASE /\ UNCHANGED <<input, pos, linkMap>>
             /\ HasLinks(pos) => entries[pos].ino \in DOMAIN linkMap
             /\ links' = IF HasLinks(pos) THEN linkMap[entries[pos].ino] ELSE <<>>
    <3>1. entries[pos].type = "reg" /\ entries' = entries
      BY <1>8, <2>2 DEF CopyEnd, DiskInv, ContentsInv, Going, entries
    <3>2. Distinct(links')
      <4>1. CASE HasLinks(pos)
        BY <2>2, <4>1 DEF ShapeInv
      <4>2. CASE ~HasLinks(pos)
        BY <2>2, <4>2 DEF Distinct
      <4> QED
        BY <4>1, <4>2
    <3>3. links' # <<>> => HasLinks(pos)
      BY <2>2
    <3> QED
      BY <2>2, <3>1, <3>2, <3>3 DEF ShapeInv, HasLinks, Distinct
  <2>3. \/ UNCHANGED <<input, pos, linkMap, links>>
        \/ /\ UNCHANGED <<input, pos, linkMap>>
           /\ HasLinks(pos) => entries[pos].ino \in DOMAIN linkMap
           /\ links' = IF HasLinks(pos) THEN linkMap[entries[pos].ino] ELSE <<>>
    BY <1>8, Zenon DEF CopyEnd, Return
  <2> QED
    BY <2>1, <2>2, <2>3
<1>9. CASE MakeLink
  <2>1. CASE UNCHANGED links
    BY <1>1, <1>9, <2>1 DEF MakeLink, Return
  <2>2. CASE links' = Tail(links)
    <3>1. UNCHANGED <<input, pos, linkMap>> /\ links # <<>> /\ entries' = entries
      BY <1>9 DEF MakeLink, Return, entries
    <3>2. links \in Seq(Path)
      BY DEF IInv, WaitInv, Waits
    <3>3. /\ Len(links) \in Nat /\ Len(Tail(links)) = Len(links) - 1
          /\ \A j \in 1..(Len(links) - 1) : Tail(links)[j] = links[j + 1]
      BY <3>1, <3>2, HeadTailProperties
    <3>4. Distinct(Tail(links))
      <4> SUFFICES ASSUME NEW i \in 1..Len(Tail(links)), NEW j \in 1..Len(Tail(links)),
                          Tail(links)[i] = Tail(links)[j]
                   PROVE  i = j
        BY DEF Distinct
      <4>1. /\ i + 1 \in 1..Len(links) /\ j + 1 \in 1..Len(links)
            /\ i \in 1..(Len(links) - 1) /\ j \in 1..(Len(links) - 1)
        BY <3>3
      <4>2. links[i + 1] = links[j + 1]
        BY <3>3, <4>1
      <4>3. i + 1 = j + 1
        BY <4>1, <4>2 DEF ShapeInv, Distinct
      <4> QED
        BY <4>1, <4>3
    <3> QED
      BY <2>2, <3>1, <3>4 DEF ShapeInv, HasLinks, Distinct
  <2> QED
    BY <1>9, <2>1, <2>2 DEF MakeLink, Return
<1>10. CASE Again
  BY <1>10 DEF Again, ShapeInv, Distinct
<1>11. CASE UNCHANGED vars
  BY <1>1, <1>11 DEF vars
<1> QED
  BY <1>2, <1>3, <1>4, <1>5, <1>6, <1>7, <1>8, <1>9, <1>10, <1>11 DEF Next, Step

(* How a step moves on: not at all, to the next entry, from the contents   *)
(* to the links, from one link to the next, or to another pass.            *)
LEMMA Moves ==
  ASSUME [Next]_vars
  PROVE  \/ UNCHANGED <<pass, pos, links, file>>
         \/ UNCHANGED pass /\ pos' = pos + 1 /\ links = <<>> /\ links' = <<>>
         \/ /\ UNCHANGED <<pass, pos>> /\ ret = "running" /\ file # 0 /\ file' = 0
            /\ HasLinks(pos) => entries[pos].ino \in DOMAIN linkMap
            /\ links' = IF HasLinks(pos) THEN linkMap[entries[pos].ino] ELSE <<>>
         \/ MakeLink /\ UNCHANGED <<pass, pos, file>> /\ links' = Tail(links)
         \/ Again
<1> DEFINE Same == UNCHANGED <<pass, pos, links, file>>
           Ahead == UNCHANGED pass /\ pos' = pos + 1 /\ links = <<>> /\ links' = <<>>
<1>1. CASE NextFails \/ Trailer \/ CallFails \/ Copy
  <2>1. Same
    BY <1>1 DEF NextFails, Trailer, CallFails, Copy, Return
  <2> QED
    BY <2>1
<1>2. CASE InvalidPath \/ SkipDevice \/ UnknownMode \/ MakeDir \/ SaveLink
  <2>1. Ahead
    BY <1>2 DEF InvalidPath, SkipDevice, UnknownMode, MakeDir, SaveLink, Done, NextEntry, Idle
  <2> QED
    BY <2>1
<1>3. CASE MakeFifo \/ MakeSymlink \/ Create
  <2>1. Ahead
    BY <1>3 DEF MakeFifo, MakeSymlink, Create, MakeSpecial, Done, NewInode, NextEntry, Idle
  <2> QED
    BY <2>1
<1>4. CASE CopyEnd
  BY <1>4, Zenon DEF CopyEnd, Return
<1>5. CASE MakeLink
  BY <1>5, Zenon DEF MakeLink, Return
<1>6. CASE UNCHANGED vars
  BY <1>6 DEF vars
<1> QED
  BY <1>1, <1>2, <1>3, <1>4, <1>5, <1>6 DEF Next, Step

(* In the first pass a link gets its name when it is its turn.             *)
LEMMA FreshKept ==
  ASSUME IInv, DiskInv, ShapeInv, Extractable, FreshInv, TreeKept, [Next]_vars
  PROVE  FreshInv'
<1>1. UNCHANGED <<input, places>> /\ entries' = entries
  BY DEF TreeKept, entries
<1> SUFFICES ASSUME pass' = 1, NEW k \in 1..Len(entries), Target(k) \in DOMAIN tree',
                    tree'[Target(k)] # 0
             PROVE  Early(k)'
  BY <1>1 DEF FreshInv, Target
<1>2. ~Again
  BY DEF Again, IInv
<1>3. pass = 1
  BY <1>2, Moves
<1>4. /\ pos \in 0..Len(entries) /\ pos \in Nat /\ InputInv /\ Len(entries) \in Nat
      /\ DOMAIN entries = 1..Len(entries)
  BY InputFacts DEF IInv
<1>5. (LinkEntry(k)' <=> LinkEntry(k)) /\ Target(k)' = Target(k)
      /\ \A m : Joins(k, m)' <=> Joins(k, m)
  BY <1>1 DEF LinkEntry, Target, Joins, HasLinks
<1>6. ASSUME Target(k) \in DOMAIN tree PROVE Early(k)'
  <2>1. Early(k)
    BY <1>3, <1>6 DEF FreshInv, TreeKept
  <2>2. CASE UNCHANGED <<pass, pos, links, file>>
    BY <1>5, <2>1, <2>2 DEF Early, In
  <2>3. CASE pos' = pos + 1 /\ links' = <<>>
    <3>1. k \in 1..pos' /\ ~In(Target(k), links')
      BY <1>4, <2>1, <2>3 DEF Early, In
    <3>2. ASSUME LinkEntry(k) PROVE \E m \in 1..pos' : Joins(k, m) /\ m < pos'
      <4>1. PICK m \in 1..pos : Joins(k, m)
        BY <2>1, <3>2 DEF Early
      <4>2. m \in 1..pos' /\ m < pos'
        BY <1>4, <2>3
      <4> QED
        BY <4>1, <4>2
    <3> QED
      BY <1>5, <3>1, <3>2 DEF Early, In
  <2>4. CASE /\ UNCHANGED pos /\ ret = "running" /\ file # 0 /\ file' = 0
             /\ HasLinks(pos) => entries[pos].ino \in DOMAIN linkMap
             /\ links' = IF HasLinks(pos) THEN linkMap[entries[pos].ino] ELSE <<>>
    <3>1. ASSUME LinkEntry(k) PROVE ~In(Target(k), links')
      <4> SUFFICES ASSUME In(Target(k), links') PROVE FALSE
        OBVIOUS
      <4>1. HasLinks(pos)
        BY <2>4 DEF In
      <4>2. PICK j \in 1..Len(links') : links'[j] = Target(k)
        BY DEF In
      <4>3. From(entries[pos].ino, links', pos)
        BY <2>4, <4>1 DEF DiskInv, MapInv
      <4>4. PICK c \in 1..pos : entries[c].ino = entries[pos].ino /\ links'[j] = Target(c)
        BY <4>2, <4>3 DEF From
      <4>5. c = k
        <5>1. c \in 1..Len(entries)
          BY <1>4
        <5> QED
          BY <1>4, <4>2, <4>4, <5>1, DistinctTargets
      <4>6. PICK m \in 1..pos : Joins(k, m) /\ m < pos
        BY <2>1, <2>4, <3>1 DEF Early
      <4>7. HasLinks(m) /\ entries[m].ino = entries[pos].ino
        BY <4>4, <4>5, <4>6 DEF Joins
      <4>8. m \in DOMAIN entries /\ pos \in DOMAIN entries
        BY <1>4
      <4>9. m = pos
        BY <4>1, <4>7, <4>8 DEF Extractable
      <4> QED
        BY <1>4, <4>6, <4>9
    <3> QED
      BY <1>5, <2>1, <2>4, <3>1 DEF Early, In
  <2>5. CASE MakeLink /\ UNCHANGED <<pos, file>> /\ links' = Tail(links)
    <3>1. ~In(Target(k), links) => ~In(Target(k), Tail(links))
      <4>1. links \in Seq(Path) /\ links # <<>>
        BY <2>5 DEF IInv, WaitInv, Waits, MakeLink
      <4>2. \A j \in 1..Len(Tail(links)) : j + 1 \in 1..Len(links) /\ Tail(links)[j] = links[j + 1]
        BY <4>1, HeadTailProperties
      <4> QED
        BY <4>2 DEF In
    <3> QED
      BY <1>5, <2>1, <2>5, <3>1 DEF Early, In
  <2> QED
    BY <1>2, <2>2, <2>3, <2>4, <2>5, Moves
<1>7. ASSUME Target(k) \notin DOMAIN tree PROVE Early(k)'
  <2>1. NewName(Target(k))
    BY <1>7 DEF TreeKept
  <2>2. CASE pos' = pos + 1 /\ Target(k) = Target(pos + 1) /\ OwnFile(pos + 1)
    <3>1. pos + 1 \in 1..Len(entries)
      <4>1. pos' \in 0..Len(entries)
        BY <1>1, NextIInv DEF IInv
      <4> QED
        BY <1>4, <2>2, <4>1
    <3>2. k = pos + 1
      BY <1>4, <2>2, <3>1, DistinctTargets
    <3>3. k \in 1..pos' /\ ~LinkEntry(k)
      BY <1>4, <2>2, <3>2 DEF OwnFile
    <3> QED
      BY <1>5, <3>3 DEF Early
  <2>3. CASE MakeLink /\ Target(k) = Head(links)
    <3>1. /\ links # <<>> /\ file' = 0 /\ UNCHANGED pos /\ links' = Tail(links)
      BY <1>7, <2>3 DEF MakeLink
    <3>2. links \in Seq(Path) /\ pos # 0
      BY <3>1 DEF IInv, WaitInv, Waits, CopyInv
    <3>3. /\ Len(links) \in Nat /\ Len(links) # 0 /\ Head(links) = links[1]
          /\ \A j \in 1..Len(Tail(links)) : j + 1 \in 1..Len(links) /\ Tail(links)[j] = links[j + 1]
      BY <3>1, <3>2, HeadTailProperties
    <3>4. From(entries[pos].ino, links, pos)
      BY <3>1 DEF DiskInv, MapInv
    <3>5. 1 \in 1..Len(links)
      BY <3>3
    <3>6. PICK c \in 1..pos : /\ LinkEntry(c) /\ entries[c].ino = entries[pos].ino
                              /\ links[1] = Target(c)
      BY <3>4, <3>5 DEF From
    <3>7. c = k
      <4>1. c \in 1..Len(entries)
        BY <1>4
      <4> QED
        BY <1>4, <2>3, <3>3, <3>6, <4>1, DistinctTargets
    <3>8. ~In(Target(k), links')
      <4> SUFFICES ASSUME NEW j \in 1..Len(Tail(links)), Tail(links)[j] = Target(k) PROVE FALSE
        BY <3>1 DEF In
      <4>1. links[j + 1] = links[1] /\ j + 1 \in 1..Len(links)
        BY <2>3, <3>3
      <4>2. j + 1 = 1
        BY <3>5, <4>1 DEF ShapeInv, Distinct
      <4>3. j \in Nat \ {0}
        BY <3>3
      <4> QED
        BY <4>2, <4>3
    <3>9. Joins(k, pos)
      BY <3>1, <3>6, <3>7 DEF Joins, ShapeInv
    <3>10. pos \in 1..pos /\ k \in 1..pos
      BY <1>4, <3>2, <3>6, <3>7
    <3> QED
      BY <1>5, <3>1, <3>8, <3>9, <3>10 DEF Early, In
  <2> QED
    BY <2>1, <2>2, <2>3 DEF NewName
<1> QED
  BY <1>6, <1>7

(* Whether an archive is extractable does not change.                      *)
LEMMA SameArchive ==
  ASSUME UNCHANGED <<input, places>>
  PROVE  /\ entries' = entries /\ (Extractable' <=> Extractable)
         /\ \A ts : HasType(ts)' <=> HasType(ts)
         /\ \A k, m : LinkOf(m, k)' <=> LinkOf(m, k)
<1>1. entries' = entries
  BY DEF entries
<1>2. /\ \A k : HasLinks(k)' <=> HasLinks(k)
      /\ \A ts : HasType(ts)' <=> HasType(ts)
  BY <1>1 DEF HasLinks, HasType
<1>3. \A k, m : LinkOf(m, k)' <=> LinkOf(m, k)
  BY <1>1, <1>2 DEF LinkOf, SameNumber
<1>4. Extractable' <=> Extractable
  BY <1>1, <1>2, <1>3 DEF Extractable
<1> QED
  BY <1>1, <1>2, <1>3, <1>4

(* The place of a file is free in the first pass.                          *)
LEMMA PlaceFree ==
  ASSUME IInv, ZeroInv, FreshInv, NEW types, types \subseteq {"fifo", "lnk"},
         NextEntry(TRUE, types), Exists
  PROVE  pass > 1 /\ HasType({"fifo", "lnk"})
<1>1. /\ pos' = pos + 1 /\ pos' \in 1..Len(entries) /\ e.type \in types
      /\ Grown(tree, WithParents, Above(target)) /\ target \notin Above(target)
  BY EntryFacts
<1>2. pos \in Nat /\ DOMAIN entries = 1..Len(entries) /\ pass \in Nat /\ pass # 0
  BY InputFacts DEF IInv
<1>3. entries[pos + 1].type \in {"fifo", "lnk"} /\ pos + 1 \in 1..Len(entries)
  BY <1>1 DEF e
<1>4. Target(pos + 1) \in DOMAIN tree
  BY <1>1 DEF Exists, Grown, target
<1>5. tree[Target(pos + 1)] # 0
  BY <1>3, <1>4, NotADirectory
<1>6. pass # 1
  BY <1>2, <1>3, <1>4, <1>5 DEF FreshInv, Early
<1>7. HasType({"fifo", "lnk"})
  BY <1>2, <1>3 DEF HasType
<1> QED
  BY <1>2, <1>6, <1>7

(* What is returned for a fifo or a symbolic link.                         *)
LEMMA MakeSpecialFine ==
  ASSUME IInv, ZeroInv, FreshInv, NEW types, types \subseteq {"fifo", "lnk"},
         NextEntry(TRUE, types), NEW ty, MakeSpecial(ty)
  PROVE  Fine'
<1>1. UNCHANGED <<input, places, pass>> /\ ret = "running"
  BY DEF NextEntry, Idle
<1>2. CASE Exists
  <2>1. ret' = "exists"
    BY <1>2 DEF MakeSpecial, Done
  <2>2. pass > 1 /\ HasType({"fifo", "lnk"})
    BY <1>2, PlaceFree
  <2>3. HasType({"fifo", "lnk"})' /\ pass' > 1
    BY <1>1, <2>2, SameArchive
  <2> QED
    BY <2>1, <2>3 DEF Fine
<1>3. CASE ~Exists
  BY <1>1, <1>3 DEF MakeSpecial, NewInode, Fine
<1> QED
  BY <1>2, <1>3

(* All of the contents of an extractable archive is there.                 *)
LEMMA AllAvailable ==
  ASSUME Extractable, NEW k \in 1..Len(entries), Len(entries) \in Nat
  PROVE  Available(k) = entries[k].size
BY DEF Extractable, Available

(* What is returned behind the contents of a file.                         *)
LEMMA CopyEndFine ==
  ASSUME IInv, DiskInv, Extractable, CopyEnd
  PROVE  Fine'
<1>1. ret = "running" /\ file # 0 /\ written = Available(pos) /\ Going
  BY DEF CopyEnd, Going
<1>2. pos # 0 /\ entries[pos].type = "reg"
  BY <1>1 DEF DiskInv, ContentsInv
<1>3. /\ pos \in 1..Len(entries) /\ Len(entries) \in Nat /\ DOMAIN entries = 1..Len(entries)
      /\ entries[pos].size \in Nat
  BY <1>2, InputFacts DEF IInv
<1>4. ~(written < entries[pos].size)
  BY <1>1, <1>3, AllAvailable
<1>5. HasLinks(pos) => entries[pos].ino \in DOMAIN linkMap
  <2> SUFFICES ASSUME HasLinks(pos) PROVE entries[pos].ino \in DOMAIN linkMap
    OBVIOUS
  <2>1. PICK m \in DOMAIN entries : LinkOf(m, pos)
    BY <1>2, <1>3 DEF Extractable
  <2>2. m \in 1..pos /\ LinkEntry(m) /\ entries[m].ino = entries[pos].ino
    BY <1>3, <2>1 DEF LinkOf, SameNumber, LinkEntry
  <2>3. Saved(m)
    BY <1>1, <2>2 DEF DiskInv, MapInv
  <2> QED
    BY <2>2, <2>3 DEF Saved
<1>6. ret' = ret
  BY <1>4, <1>5 DEF CopyEnd
<1> QED
  BY <1>1, <1>6 DEF Fine

(* The names of links are free in the first pass.                          *)
LEMMA MakeLinkFine ==
  ASSUME IInv, DiskInv, ZeroInv, ShapeInv, Extractable, FreshInv, MakeLink
  PROVE  Fine'
<1>1. ret = "running" /\ links # <<>>
  BY DEF MakeLink
<1>2. CASE Head(links) \notin DOMAIN tree
  BY <1>1, <1>2 DEF MakeLink, Fine
<1>3. CASE Head(links) \in DOMAIN tree
  <2>1. ret' = "exists" /\ UNCHANGED <<input, places, pass>>
    BY <1>3 DEF MakeLink, Return
  <2>2. links \in Seq(Path) /\ pos # 0
    BY <1>1 DEF IInv, WaitInv, Waits, CopyInv
  <2>3. Head(links) = links[1] /\ 1 \in 1..Len(links)
    BY <1>1, <2>2
  <2>4. From(entries[pos].ino, links, pos)
    BY <1>1 DEF DiskInv, MapInv
  <2>5. PICK c \in 1..pos : LinkEntry(c) /\ links[1] = Target(c)
    BY <2>3, <2>4 DEF From
  <2>6. /\ pos \in 1..Len(entries) /\ c \in 1..Len(entries) /\ DOMAIN entries = 1..Len(entries)
        /\ pass \in Nat /\ pass # 0
    BY <2>2, InputFacts DEF IInv
  <2>7. tree[Target(c)] # 0
    BY <1>3, <2>3, <2>5, <2>6, NotADirectory DEF LinkEntry
  <2>8. In(Target(c), links)
    BY <2>3, <2>5 DEF In
  <2>9. pass # 1
    BY <1>3, <2>3, <2>5, <2>6, <2>7, <2>8 DEF FreshInv, Early
  <2>10. PICK m \in DOMAIN entries : LinkOf(m, pos)
    BY <1>1, <2>6 DEF Extractable, ShapeInv
  <2>11. \E k, m1 \in DOMAIN entries : LinkOf(m1, k)
    BY <2>6, <2>10
  <2>12. (\E k, m1 \in DOMAIN entries : LinkOf(m1, k))' /\ pass' > 1
    BY <2>1, <2>6, <2>9, <2>11, SameArchive
  <2> QED
    BY <2>1, <2>12 DEF Fine
<1> QED
  BY <1>2, <1>3

(* A step returns nothing worse than the property allows.                  *)
LEMMA FineKept ==
  ASSUME IInv, DiskInv, ZeroInv, ShapeInv, Extractable, FreshInv, Fine, [Next]_vars
  PROVE  Fine'
<1>1. /\ Len(entries) \in Nat /\ DOMAIN entries = 1..Len(entries) /\ pos \in 0..Len(entries)
      /\ input.upto = Len(entries) + 1
  BY InputFacts DEF IInv, Extractable
<1>2. ASSUME NEW ok, NEW types, NextEntry(ok, types)
      PROVE  /\ pos + 1 \in 1..Len(entries) /\ entries[pos + 1].type \in types
             /\ ret = "running" /\ UNCHANGED <<input, places, pass>> /\ places[pos + 1].ok = ok
  BY <1>1, <1>2 DEF NextEntry, Idle, e
<1>3. CASE NextFails
  <2>1. ~(pos >= input.upto)
    BY <1>1
  <2>2. pos < Len(entries) /\ entries[pos + 1].stripped
    BY <1>3, <2>1, Zenon DEF NextFails
  <2>3. pos + 1 \in DOMAIN entries
    BY <1>1, <2>2
  <2> QED
    BY <2>2, <2>3, Zenon DEF Extractable
<1>4. CASE Trailer \/ CallFails
  BY <1>4 DEF Trailer, CallFails, Return, Fine
<1>5. CASE InvalidPath
  <2>1. NextEntry(FALSE, Types)
    BY <1>5 DEF InvalidPath
  <2>2. pos + 1 \in DOMAIN entries /\ places[pos + 1].ok = FALSE
    BY <1>1, <1>2, <2>1
  <2> QED
    BY <2>2 DEF Extractable
<1>6. CASE SkipDevice
  BY <1>6 DEF SkipDevice, Done, Fine
<1>7. CASE UnknownMode
  <2>1. pos + 1 \in DOMAIN entries /\ entries[pos + 1].type \in {"sock"}
    BY <1>1, <1>2, <1>7 DEF UnknownMode
  <2> QED
    BY <2>1 DEF Extractable
<1>8. CASE MakeDir \/ SaveLink
  BY <1>8 DEF MakeDir, SaveLink, NextEntry, Idle, Fine
<1>9. CASE MakeFifo
  <2>1. NextEntry(TRUE, {"fifo"}) /\ MakeSpecial("fifo")
    BY <1>9 DEF MakeFifo
  <2> QED
    BY <2>1, MakeSpecialFine
<1>10. CASE MakeSymlink
  <2>1. NextEntry(TRUE, {"lnk"})
    BY <1>10 DEF MakeSymlink
  <2>2. /\ pos + 1 \in 1..Len(entries) /\ entries[pos + 1].type \in {"lnk"}
        /\ UNCHANGED <<input, places, pass>>
    BY <1>2, <2>1
  <2>3. Available(pos + 1) = entries[pos + 1].size /\ entries[pos + 1].size > 0
        /\ entries[pos + 1].size \in Nat
    <3>1. Available(pos + 1) = entries[pos + 1].size
      BY <1>1, <2>2, AllAvailable
    <3>2. entries[pos + 1].size \in Nat
      BY <2>2, InputFacts DEF IInv
    <3>3. entries[pos + 1].size > 0
      BY <1>1, <2>2 DEF Extractable
    <3> QED
      BY <3>1, <3>2, <3>3
  <2>4. Done("NUL in target") \/ MakeSpecial("lnk")
    <3>1. Available(pos + 1) # 0 /\ pos + 1 # input.upto
      BY <1>1, <2>2, <2>3, InputFacts DEF IInv, Extractable
    <3> QED
      BY <1>10, <3>1, Zenon DEF MakeSymlink
  <2>5. CASE Done("NUL in target")
    <3>1. HasType({"lnk"})
      BY <1>1, <2>2 DEF HasType
    <3>2. HasType({"lnk"})'
      BY <2>2, <3>1, SameArchive
    <3> QED
      BY <2>5, <3>2 DEF Done, Fine
  <2>6. CASE MakeSpecial("lnk")
    BY <2>1, <2>6, MakeSpecialFine
  <2> QED
    BY <2>4, <2>5, <2>6
<1>11. CASE Create
  <2>1. NextEntry(TRUE, {"reg"})
    BY <1>11 DEF Create
  <2>2. pos + 1 \in 1..Len(entries) /\ entries[pos + 1].type \in {"reg"} /\ ret = "running"
    BY <1>2, <2>1
  <2>3. Grown(tree, WithParents, Above(target)) /\ target \notin Above(target)
    BY <2>1, EntryFacts
  <2>4. ~(Exists /\ WithParents[target] = 0)
    <3> SUFFICES ASSUME Exists PROVE WithParents[target] # 0
      OBVIOUS
    <3>1. target \in DOMAIN tree /\ WithParents[target] = tree[target]
      BY <2>3 DEF Exists, Grown
    <3>2. tree[target] # 0
      BY <2>2, <3>1, NotADirectory DEF target
    <3> QED
      BY <3>1, <3>2
  <2>5. ret' = ret
    BY <1>11, <2>4 DEF Create, NewInode
  <2> QED
    BY <2>2, <2>5 DEF Fine
<1>12. CASE Copy
  BY <1>12 DEF Copy, Fine
<1>13. CASE CopyEnd
  BY <1>13, CopyEndFine
<1>14. CASE MakeLink
  BY <1>14, MakeLinkFine
<1>15. CASE Again
  BY <1>15 DEF Again, Fine
<1>16. CASE UNCHANGED vars
  <2>1. UNCHANGED <<input, places, pass, ret>>
    BY <1>16 DEF vars
  <2>2. entries' = entries /\ (\A ts : HasType(ts)' <=> HasType(ts))
        /\ \A k, m : LinkOf(m, k)' <=> LinkOf(m, k)
    BY <2>1, SameArchive
  <2> QED
    BY <2>1, <2>2 DEF Fine
<1> QED
  BY <1>3, <1>4, <1>5, <1>6, <1>7, <1>8, <1>9, <1>10, <1>11, <1>12, <1>13, <1>14, <1>15,
     <1>16 DEF Next, Step

(* The third invariant holds at the start,                                 *)
LEMMA InitSuccess == Init => SuccessInv
<1> SUFFICES ASSUME Init PROVE SuccessInv
  OBVIOUS
<1>1. tree = One(<<>>, 0) /\ linkMap = <<>> /\ links = <<>> /\ ret = "running"
  BY DEF Init, Start
<1>2. DOMAIN tree = {<<>>} /\ tree[<<>>] = 0
  BY <1>1 DEF One
<1>3. ZeroInv
  BY <1>2 DEF ZeroInv, DirPlace
<1>4. ShapeInv
  BY <1>1 DEF ShapeInv, Distinct
<1>5. FreshInv /\ Fine
  BY <1>1, <1>2 DEF FreshInv, Fine
<1> QED
  BY <1>3, <1>4, <1>5 DEF SuccessInv

(* and every step keeps it.                                                *)
LEMMA NextSuccess == IInv /\ DiskInv /\ SuccessInv /\ [Next]_vars => SuccessInv'
<1> SUFFICES ASSUME IInv, DiskInv, SuccessInv, [Next]_vars PROVE SuccessInv'
  OBVIOUS
<1>1. ZeroInv /\ ShapeInv /\ (Extractable => FreshInv /\ Fine)
  BY DEF SuccessInv
<1>2. TreeKept
  BY <1>1, StepTree
<1>3. ZeroInv' /\ ShapeInv'
  BY <1>1, <1>2, ZeroKept, ShapeKept
<1>4. Extractable' <=> Extractable
  BY <1>2, SameArchive DEF TreeKept
<1>5. ASSUME Extractable PROVE FreshInv' /\ Fine'
  BY <1>1, <1>2, <1>5, FreshKept, FineKept
<1> QED
  BY <1>3, <1>4, <1>5 DEF SuccessInv

(* An extractable archive is extracted, unless a system call fails or the  *)
(* target of a symbolic link comes in two reads; and extracted again over  *)
(* itself, if it has no links and no special files (extract.go:50-140).    *)
THEOREM Succeeds == Spec => []ExtractableSucceeds
<1>1. Init => IInv /\ DiskInv /\ SuccessInv
  BY InitIInv, InitDisk, InitSuccess
<1>2. (IInv /\ DiskInv /\ SuccessInv) /\ [Next]_vars => (IInv /\ DiskInv /\ SuccessInv)'
  BY NextIInv, NextDisk, NextSuccess
<1>3. SuccessInv => ExtractableSucceeds
  BY DEF SuccessInv, Fine, ExtractableSucceeds
<1> QED
  BY <1>1, <1>2, <1>3, PTL DEF Spec

-----------------------------------------------------------------------------
(* What becomes of links.  A link on disk shares the inode of contents     *)
(* that came behind it, under its inode number.                            *)
Joined(k) ==
  \E m \in 1..Len(entries) :
    k < m /\ Joins(k, m) /\ Target(m) \in DOMAIN tree /\ Shares(k, m)
JoinedInv ==
  \A k \in 1..Len(entries) :
    LinkEntry(k) /\ Target(k) \in DOMAIN tree /\ tree[Target(k)] # 0 => Joined(k)

(* Only os.Link makes the name of a link, and the name stays.              *)
LEMMA JoinedKept ==
  ASSUME IInv, IInv', DiskInv, ShapeInv, JoinedInv, TreeKept
  PROVE  JoinedInv'
<1>1. UNCHANGED <<input, places>> /\ entries' = entries
  BY DEF TreeKept, entries
<1>2. \A k : Target(k)' = Target(k) /\ (LinkEntry(k)' <=> LinkEntry(k))
  BY <1>1 DEF Target, LinkEntry
<1>3. \A k, m : Joins(k, m)' <=> Joins(k, m)
  BY <1>1, <1>2 DEF Joins, HasLinks
<1> SUFFICES ASSUME NEW k \in 1..Len(entries), LinkEntry(k), Target(k) \in DOMAIN tree',
                    tree'[Target(k)] # 0
             PROVE  \E m \in 1..Len(entries) :
                      /\ k < m /\ Joins(k, m) /\ Target(m) \in DOMAIN tree'
                      /\ tree'[Target(k)] = tree'[Target(m)]
  BY <1>1, <1>2, <1>3 DEF JoinedInv, Joined, Shares
<1>4. CASE Target(k) \in DOMAIN tree
  <2>1. tree'[Target(k)] = tree[Target(k)]
    BY <1>4 DEF TreeKept
  <2>2. PICK m \in 1..Len(entries) :
          k < m /\ Joins(k, m) /\ Target(m) \in DOMAIN tree /\ Shares(k, m)
    BY <1>4, <2>1 DEF JoinedInv, Joined
  <2>3. Target(m) \in DOMAIN tree' /\ tree'[Target(m)] = tree[Target(m)]
    BY <2>2 DEF TreeKept
  <2> QED
    BY <2>1, <2>2, <2>3 DEF Shares
<1>5. CASE Target(k) \notin DOMAIN tree
  <2>1. \/ pos' = pos + 1 /\ Target(k) = Target(pos + 1) /\ OwnFile(pos + 1)
        \/ MakeLink /\ Target(k) = Head(links)
    BY <1>5 DEF TreeKept, NewName
  <2>2. CASE pos' = pos + 1 /\ Target(k) = Target(pos + 1) /\ OwnFile(pos + 1)
    <3>1. pos + 1 \in 1..Len(entries)
      <4>1. pos \in Nat /\ pos' \in 0..Len(entries)
        BY <1>1, InputFacts DEF IInv
      <4> QED
        BY <2>2, <4>1
    <3>2. k = pos + 1
      BY <2>2, <3>1, DistinctTargets DEF IInv
    <3> QED
      BY <2>2, <3>2 DEF OwnFile
  <2>3. CASE MakeLink /\ Target(k) = Head(links)
    <3>1. ret = "running" /\ file = 0 /\ links # <<>>
      BY <2>3 DEF MakeLink
    <3>2. pos # 0 /\ Target(pos) \in DOMAIN tree
      BY <3>1 DEF IInv, CopyInv
    <3>3. pos \in 1..Len(entries) /\ pos \in Nat
      BY <3>2, InputFacts DEF IInv
    <3>4. tree' = Also(tree, One(Target(k), tree[Target(pos)]))
      BY <1>5, <2>3 DEF MakeLink
    <3>5. tree'[Target(k)] = tree[Target(pos)] /\ tree'[Target(pos)] = tree[Target(pos)]
          /\ Target(pos) \in DOMAIN tree'
      BY <1>5, <3>2, <3>4 DEF Also, One
    <3>6. PICK c \in 1..pos : LinkEntry(c) /\ entries[c].ino = entries[pos].ino /\ Head(links) = Target(c)
      <4>1. links \in Seq(Path) /\ Len(links) \in Nat /\ Len(links) # 0 /\ Head(links) = links[1]
        <5>1. links \in Seq(Path)
          BY DEF IInv, WaitInv, Waits
        <5> QED
          BY <3>1, <5>1, HeadTailProperties
      <4>2. From(entries[pos].ino, links, pos)
        BY <3>1 DEF DiskInv, MapInv
      <4> QED
        BY <4>1, <4>2 DEF From
    <3>7. c = k
      BY <2>3, <3>3, <3>6, DistinctTargets DEF IInv
    <3>8. HasLinks(pos) /\ entries[pos].type = "reg"
      BY <3>1 DEF ShapeInv
    <3>9. Joins(k, pos)
      BY <3>6, <3>7, <3>8 DEF Joins
    <3>10. k # pos
      BY <3>8, <3>3, LinkedIsOwn DEF OwnFile
    <3>11. k < pos
      BY <3>3, <3>6, <3>7, <3>10
    <3> QED
      BY <3>3, <3>5, <3>9, <3>11
  <2> QED
    BY <2>1, <2>2, <2>3
<1> QED
  BY <1>4, <1>5

(* What is on disk when Extract has returned nil.                          *)
LEMMA AllOnDisk == IInv /\ DiskInv /\ EndInv /\ ZeroInv /\ JoinedInv => OkMeansExtracted
<1> SUFFICES ASSUME IInv, DiskInv, EndInv, ZeroInv, JoinedInv, ret = "nil",
                    NEW k \in DOMAIN entries
             PROVE  OnDisk(k)
  BY DEF OkMeansExtracted
<1>1. /\ k \in 1..Len(entries) /\ DOMAIN entries = 1..Len(entries) /\ Len(entries) \in Nat
      /\ pos = Len(entries) /\ file = 0 /\ links = <<>> /\ Going
      /\ entries[k].size \in Nat /\ entries[k].type \in Types
  BY InputFacts DEF IInv, EndInv, Going
<1>2. Good(k)
  BY <1>1 DEF DiskInv, DoneInv
<1>3. ASSUME NEW m \in DOMAIN entries, LinkOf(k, m)
      PROVE  Shares(k, m)
  <2>1. Joins(k, m) /\ m \in 1..pos /\ k \in 1..(m - 1)
    BY <1>1, <1>3 DEF LinkOf, SameNumber, Joins, LinkEntry
  <2>2. ~In(Target(k), links)
    BY <1>1 DEF In
  <2> QED
    BY <1>1, <2>1, <2>2 DEF DiskInv, LinkedInv
<1>4. CASE entries[k].type = "dir"
  BY <1>2, <1>4 DEF OnDisk, Good
<1>5. CASE entries[k].type \in {"chr", "blk", "sock"}
  BY <1>5 DEF OnDisk
<1>6. CASE \/ entries[k].type \in {"fifo", "lnk"}
           \/ entries[k].type = "reg" /\ ~(entries[k].nlink > 1 /\ entries[k].size = 0)
  <2>1. OwnFile(k)
    BY <1>1, <1>6 DEF OwnFile, LinkEntry
  <2>2. Made(k, FullLen(k))
    BY <1>2, <2>1 DEF Good
  <2> QED
    BY <1>6, <2>2 DEF OnDisk, Made, FullLen
<1>7. CASE /\ entries[k].type \notin {"dir", "chr", "blk", "sock", "fifo", "lnk"}
           /\ ~(entries[k].type = "reg" /\ ~(entries[k].nlink > 1 /\ entries[k].size = 0))
  <2>1. LinkEntry(k)
    BY <1>1, <1>7, InputFacts DEF IInv, Types, LinkEntry
  <2>2. ASSUME Target(k) \in DOMAIN tree
        PROVE  \E m \in DOMAIN entries : SameNumber(k, m) /\ Shares(k, m)
    <3>1. tree[Target(k)] # 0
      BY <1>1, <2>1, <2>2, NotADirectory DEF LinkEntry
    <3>2. PICK m \in 1..Len(entries) : k < m /\ Joins(k, m) /\ Shares(k, m)
      BY <1>1, <2>1, <2>2, <3>1 DEF JoinedInv, Joined
    <3>3. SameNumber(k, m)
      BY <3>2 DEF Joins, LinkEntry, SameNumber
    <3> QED
      BY <1>1, <3>2, <3>3
  <2> QED
    BY <1>3, <1>7, <2>2 DEF OnDisk
<1> QED
  BY <1>4, <1>5, <1>6, <1>7

(* If Extract returns nil, what is not a hard link without contents is on  *)
(* disk with its own type and contents, devices aside; a link whose own    *)
(* contents came behind it shares their inode; any other link is missing   *)
(* or shares that of contents behind it with its inode number, on whatever *)
(* device (extract.go:103-139).                                            *)
THEOREM Extracted == Spec => []OkMeansExtracted
<1> DEFINE Inv == IInv /\ DiskInv /\ EndInv /\ SuccessInv /\ JoinedInv
<1>1. Init => Inv
  <2> SUFFICES ASSUME Init PROVE JoinedInv
    BY InitIInv, InitDisk, EndKept, InitSuccess
  <2>1. \A p \in DOMAIN tree : tree[p] = 0
    BY DEF Init, One
  <2> QED
    BY <2>1 DEF JoinedInv
<1>2. Inv /\ [Next]_vars => Inv'
  <2> SUFFICES ASSUME Inv, [Next]_vars PROVE Inv'
    OBVIOUS
  <2>1. IInv' /\ DiskInv' /\ EndInv' /\ SuccessInv'
    BY NextIInv, NextDisk, EndKept, NextSuccess
  <2>2. TreeKept
    BY StepTree DEF SuccessInv
  <2>3. JoinedInv'
    BY <2>1, <2>2, JoinedKept DEF SuccessInv
  <2> QED
    BY <2>1, <2>3
<1>3. Inv => OkMeansExtracted
  BY AllOnDisk DEF SuccessInv
<1> QED
  BY <1>1, <1>2, <1>3, PTL DEF Spec
=============================================================================
