----------------------------- MODULE CpioLayout -----------------------------
(* Archives for the instances to be checked: how rpm and cpio lay entries  *)
(* out in a stream (testdata/foo.cpio, testdata/stripped.cpio).            *)
EXTENDS Integers, Sequences

NewcHeader     == 110   \* bytes of a newc header
StrippedHeader == 14    \* bytes of a stripped header

RoundUp4(n) == CHOOSE m \in n..(n + 3) : m % 4 = 0

Newc(namesize, len) ==
  [stripped |-> FALSE, namesize |-> namesize, len |-> len, index |-> 0, trailer |-> FALSE]
Stripped(index, len) ==
  [stripped |-> TRUE, namesize |-> 1, len |-> len, index |-> index, trailer |-> FALSE]
Trailer ==
  [stripped |-> FALSE, namesize |-> 11, len |-> 0, index |-> 0, trailer |-> TRUE]

(* Lay entries out one after the other.                                    *)
Layout(es) ==
  LET data(e, start) == IF e.stripped THEN start + StrippedHeader
                        ELSE RoundUp4(start + NewcHeader + e.namesize)
      place[i \in 1..Len(es)] ==
        LET start == IF i = 1 THEN 0
                     ELSE RoundUp4(place[i - 1].data + place[i - 1].len)
        IN  [start |-> start, data |-> data(es[i], start), len |-> es[i].len,
             stripped |-> es[i].stripped, namesize |-> es[i].namesize,
             index |-> es[i].index, trailer |-> es[i].trailer]
  IN  place

End(es) == es[Len(es)].data
=============================================================================
