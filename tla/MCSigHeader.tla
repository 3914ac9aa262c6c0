---------------------------- MODULE MCSigHeader ----------------------------
(* Signature headers as rpmbuild writes them, with and without reserved    *)
(* space, for SigHeader.                                                   *)
EXTENDS SigHeader

Tag(t, type, count, contents) ==
  [tag |-> t, dataType |-> type, count |-> count, contents |-> contents]

SHA1(n)  == Tag(269, RPM_STRING_TYPE, 1, [i \in 1..n |-> 1] \o <<NUL>>)
SHA256(n) == Tag(273, RPM_STRING_TYPE, 1, [i \in 1..n |-> 1] \o <<NUL>>)
LONGSIZE == Tag(270, RPM_INT64_TYPE, 1, <<0, 0, 0, 1, 0, 1, 1, 1>>)
DSA      == Tag(267, RPM_BIN_TYPE, 3, <<1, 0, 1>>)
SIZE     == Tag(1000, RPM_INT32_TYPE, 1, <<0, 0, 1, 1>>)
GPG      == Tag(1005, RPM_BIN_TYPE, 5, <<1, 1, 0, 1, 1>>)
RESERVED(n) == Tag(1008, RPM_BIN_TYPE, n, Zeros(n))
(* tags behind RESERVEDSPACE, which the padding moves                      *)
Short    == Tag(1009, RPM_INT16_TYPE, 2, <<0, 1, 1, 0>>)
Names    == Tag(1010, RPM_STRING_ARRAY_TYPE, 2, <<1, NUL, 1, 1, NUL>>)
Long     == Tag(1011, RPM_INT64_TYPE, 1, <<1, 1, 1, 1, 0, 0, 0, 0>>)

(* A reference layout: values in order, each at the first aligned offset.  *)
AlignOf(type) == IF type \in DOMAIN typeAlign THEN typeAlign[type] ELSE 1
Layout(tags) ==
  LET after[i \in 0..Len(tags)] ==
        IF i = 0 THEN <<>>
        ELSE LET d == after[i - 1]
                 z == CHOOSE n \in 0..7 : (Len(d) + n) % AlignOf(tags[i].dataType) = 0
                                          /\ n < AlignOf(tags[i].dataType)
             IN  d \o Zeros(z) \o tags[i].contents
      n    == Len(tags)
      body == after[n] \o [i \in 1..16 |-> RegionByte]
      tail == CHOOSE m \in 0..7 : (Len(body) + m) % 8 = 0
  IN  [entries |-> n + 1, size |-> Len(body),
       index |-> <<[tag |-> 62, dataType |-> RPM_BIN_TYPE, offset |-> Len(after[n]),
                    count |-> 16]>>
                 \o [i \in 1..n |-> [tag |-> tags[i].tag, dataType |-> tags[i].dataType,
                                     offset |-> Len(after[i]) - Len(tags[i].contents),
                                     count |-> tags[i].count]],
       data |-> body \o Zeros(tail)]

MCBlocks ==
  {Layout(<<DSA, SHA1(4), LONGSIZE, SIZE, GPG>>),
   Layout(<<SHA1(3), SHA256(5), SIZE>>),
   Layout(<<Tag(269, RPM_STRING_TYPE, 1, [i \in 1..8 |-> 1])>>)}  \* no NUL
    \cup {Layout(<<SHA1(2), SIZE, RESERVED(n)>>) : n \in {0, 1, 4, 8, 40, 48, 60}}
    \cup {Layout(<<SHA1(2), SIZE, RESERVED(n), Short, Names, Long>>) : n \in {40, 47, 64}}
=============================================================================
