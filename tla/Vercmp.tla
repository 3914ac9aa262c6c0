------------------------------- MODULE Vercmp -------------------------------
(***************************************************************************)
(* Vercmp (vercmp.go) and NEVRAcmp (nevra.go): comparing two packages by   *)
(* epoch, version and release.  Vercmp takes its strings apart from the    *)
(* left, a segment of each per round of its loop; one action per way a     *)
(* round can go.  A string is a sequence of character codes; no string has *)
(* a newline, which "." in the regular expressions does not match.         *)
(***************************************************************************)
EXTENDS Integers, Sequences, SequencesExt

CONSTANT Inputs   \* pairs of packages: sequences of epoch, version, release

Tilde == 126
Digits == 48..57
Letters == (65..90) \cup (97..122)
Chars == Nat \ {10}
JunkChars == Chars \ (Digits \cup Letters \cup {Tilde})

(* Two packages have the same fields, and at least one.                    *)
ASSUME InputsAssumption ==
  \A in \in Inputs :
    /\ \A p \in 1..2 : in[p] \in Seq(Seq(Chars))
    /\ Len(in[1]) = Len(in[2]) /\ Len(in[1]) > 0

VARIABLES
    input,          \* the two packages
    field,          \* the field being compared by NEVRAcmp
    first, second,  \* what is left of it
    ret             \* empty while running, then <<-1>>, <<0>> or <<1>>

vars == <<input, field, first, second, ret>>

Running == <<>>

Init ==
  /\ input \in Inputs /\ field = 1
  /\ first = input[1][1] /\ second = input[2][1] /\ ret = Running

-----------------------------------------------------------------------------
(* The regular expressions: the longest prefix of characters of a set, and *)
(* what follows it.                                                        *)
PrefixLen(s, set) ==
  CHOOSE n \in 0..Len(s) : /\ \A i \in 1..n : s[i] \in set
                           /\ n < Len(s) => s[n + 1] \notin set
Run(s, set)  == SubSeq(s, 1, PrefixLen(s, set))
Rest(s, set) == SubSeq(s, PrefixLen(s, set) + 1, Len(s))
Starts(s, set) == s # <<>> /\ Head(s) \in set

-----------------------------------------------------------------------------
ReturnSameField(v) ==
  /\ UNCHANGED input
  /\ IF v = 0 /\ field < Len(input[1])
     THEN /\ field' = field + 1 /\ ret' = ret
          /\ first' = input[1][field + 1] /\ second' = input[1][field + 1]
     ELSE ret' = <<v>> /\ UNCHANGED <<field, first, second>>

(* Vercmp returns v; NEVRAcmp returns it too unless it is 0 and there are  *)
(* more fields.                                                            *)
Return(v) ==
  /\ UNCHANGED input
  /\ IF v = 0 /\ field < Len(input[1])
     THEN /\ field' = field + 1 /\ ret' = ret
          /\ first' = input[1][field + 1] /\ second' = input[2][field + 1]
     ELSE ret' = <<v>> /\ UNCHANGED <<field, first, second>>
Continue(f, s) == first' = f /\ second' = s /\ UNCHANGED <<input, field, ret>>

Round == ret = Running /\ (first # <<>> \/ second # <<>>)
NoJunk == Round /\ ~Starts(first, JunkChars) /\ ~Starts(second, JunkChars)
NoTilde == NoJunk /\ ~Starts(first, {Tilde}) /\ ~Starts(second, {Tilde})
BothLeft == NoTilde /\ first # <<>> /\ second # <<>>

(* Junk in front of either is dropped, and the round is over.              *)
SkipJunkOfBoth ==
  /\ Round /\ (Starts(first, JunkChars) \/ Starts(second, JunkChars))
  /\ IF Starts(first, JunkChars) /\ Starts(second, JunkChars)
     THEN Continue(Rest(first, JunkChars), Rest(second, JunkChars))
     ELSE UNCHANGED vars
SkipJunk ==
  /\ Round /\ (Starts(first, JunkChars) \/ Starts(second, JunkChars))
  /\ Continue(Rest(first, JunkChars), Rest(second, JunkChars))

CompareTilde ==
  /\ NoJunk
  /\ \/ /\ Starts(first, {Tilde}) /\ ~Starts(second, {Tilde}) /\ Return(-1)
     \/ /\ Starts(first, {Tilde}) /\ Starts(second, {Tilde})
        /\ Continue(Tail(first), Tail(second))
     \/ /\ ~Starts(first, {Tilde}) /\ Starts(second, {Tilde}) /\ Return(1)

(* The loop ends, or breaks at the end of one string.                      *)
AtEnd ==
  /\ ret = Running
  /\ \/ first = <<>> /\ second = <<>>
     \/ NoTilde /\ (first = <<>> \/ second = <<>>)
  /\ Return(IF first # <<>> THEN 1 ELSE IF second # <<>> THEN -1 ELSE 0)

(* Segments of different kinds.                                            *)
CompareKinds ==
  /\ BothLeft /\ Starts(first, Digits) # Starts(second, Digits)
  /\ Return(IF Starts(first, Digits) THEN 1 ELSE -1)

(* The order of strings in Go.                                             *)
StringCmp(s, t) ==
  IF s = t THEN 0
  ELSE IF \E n \in 0..Len(s) :
            /\ n <= Len(t) /\ \A i \in 1..n : s[i] = t[i]
            /\ n = Len(s) \/ (n < Len(t) /\ s[n + 1] < t[n + 1])
       THEN -1 ELSE 1

trimZeros(s) == Rest(s, {48})
numCmpUntrimmed(s, t) ==
  IF Len(s) < Len(t) THEN -1 ELSE IF Len(s) > Len(t) THEN 1 ELSE StringCmp(s, t)
numCmp(s, t) ==
  LET a == trimZeros(s)
      b == trimZeros(t)
  IN  IF Len(a) < Len(b) THEN -1 ELSE IF Len(a) > Len(b) THEN 1 ELSE StringCmp(a, b)

(* Segments of the same kind.                                              *)
CompareSegments ==
  LET set == IF Starts(first, Digits) THEN Digits ELSE Letters
      cmp == IF Starts(first, Digits) THEN numCmp(Run(first, set), Run(second, set))
             ELSE StringCmp(Run(first, set), Run(second, set))
  IN  /\ BothLeft /\ Starts(first, Digits) = Starts(second, Digits)
      /\ IF cmp # 0 THEN Return(cmp) ELSE Continue(Rest(first, set), Rest(second, set))

Next == SkipJunk \/ CompareTilde \/ AtEnd \/ CompareKinds \/ CompareSegments

Spec == Init /\ [][Next]_vars /\ WF_vars(Next)

-----------------------------------------------------------------------------
TypeOK ==
  /\ field \in 1..Len(input[1]) /\ ret \in {Running, <<-1>>, <<0>>, <<1>>}
  /\ IsSuffix(first, input[1][field]) /\ IsSuffix(second, input[2][field])

(* How versions are ordered, without taking them apart: a version is the   *)
(* sequence of its tokens, which are the tildes and the longest runs of    *)
(* digits and of letters, and of its end.  Versions compare like words:    *)
(* a tilde comes before the end, that before letters, these before numbers.*)
Kind(c) == IF c \in Digits THEN 3 ELSE IF c \in Letters THEN 2
           ELSE IF c = Tilde THEN 0 ELSE -1
Values(ds) ==
  LET v[n \in 0..Len(ds)] == IF n = 0 THEN 0 ELSE 10 * v[n - 1] + ds[n] - 48 IN v
Value(ds) == Values(ds)[Len(ds)]
RunEnd(s, i) ==
  CHOOSE m \in i..Len(s) : /\ \A j \in i..m : Kind(s[j]) = Kind(s[i])
                           /\ m < Len(s) => Kind(s[m + 1]) # Kind(s[i])
TokenAt(s, i) ==
  [kind |-> Kind(s[i]),
   key  |-> CASE Kind(s[i]) = 3 -> <<Value(SubSeq(s, i, RunEnd(s, i)))>>
              [] Kind(s[i]) = 2 -> SubSeq(s, i, RunEnd(s, i))
              [] OTHER -> <<>>]
TokenStarts(s, i) ==
  Kind(s[i]) >= 0 /\ (i = 1 \/ Kind(s[i]) = 0 \/ Kind(s[i - 1]) # Kind(s[i]))
End == [kind |-> 1, key |-> <<>>]
TokensFrom(s) ==
  LET from[i \in 1..(Len(s) + 1)] ==
        IF i > Len(s) THEN <<End>>
        ELSE IF TokenStarts(s, i) THEN <<TokenAt(s, i)>> \o from[i + 1] ELSE from[i + 1]
  IN  from

TokenLess(a, b) ==
  a.kind < b.kind \/ (a.kind = b.kind /\ StringCmp(a.key, b.key) = -1)
WordCmp(a, b) ==
  IF a = b THEN 0
  ELSE IF \E i \in DOMAIN a : /\ i \in DOMAIN b /\ \A j \in 1..(i - 1) : a[j] = b[j]
                              /\ TokenLess(a[i], b[i])
       THEN -1 ELSE 1
VersionCmp(s, t) == WordCmp(TokensFrom(s)[1], TokensFrom(t)[1])

(* NEVRAcmp finds the first field in which the packages differ, and how:   *)
(* its result is that of a lexicographic order, so that sorting by it is   *)
(* well defined (vercmp.go:51, nevra.go:39).                               *)
MatchesOrder ==
  ret # Running =>
    \/ /\ ret = <<0>>
       /\ \A k \in DOMAIN input[1] : VersionCmp(input[1][k], input[2][k]) = 0
    \/ /\ ret # <<0>> /\ ret = <<VersionCmp(input[1][field], input[2][field])>>
       /\ \A k \in 1..(field - 1) : VersionCmp(input[1][k], input[2][k]) = 0

(* The loop of Vercmp, which mostly continues, ends for all strings.       *)
Terminates == <>(ret # Running)
=============================================================================
