------------------------------ MODULE MCExtract ------------------------------
(* Small archives for Extract.                                             *)
EXTENDS Extract

Name(path) == [absolute |-> FALSE, path |-> path]
Entry(type, size, nlink, ino, dev) ==
  [type |-> type, size |-> size, nlink |-> nlink, ino |-> ino, dev |-> dev,
   stripped |-> FALSE, absolute |-> FALSE, path |-> <<>>]
Plain(type, size) == Entry(type, size, 1, 0, 1)
Link(dev)     == Entry("reg", 0, 2, 7, dev)
Contents(dev) == Entry("reg", 1, 2, 7, dev)

Kinds == {Plain("dir", 0), Plain("chr", 0), Plain("fifo", 0), Plain("lnk", 2),
          Plain("lnk", 0), Plain("reg", 0), Plain("reg", 2), Plain("sock", 0),
          Link(1), Contents(1), [Plain("reg", 1) EXCEPT !.stripped = TRUE]}
LinkKinds == {Link(1), Contents(1), Link(2), Contents(2)}

(* The k-th entry is d if it is a directory at the front, else a file in d.*)
Named(kinds) ==
  [k \in 1..Len(kinds) |->
     [kinds[k] EXCEPT !.path = IF k = 1 /\ kinds[k].type = "dir" THEN <<"d">>
                               ELSE <<"d", <<"f", "g", "h", "i">>[k]>>]]

Dest == [absolute |-> TRUE, path |-> <<"tmp", "x">>]
Whole(es, dest) == [entries |-> es, dest |-> dest, upto |-> Len(es) + 1,
                    avail |-> 0, fault |-> FALSE]

SeqsUpTo(S, n) == UNION {[1..m -> S] : m \in 0..n}
WholeArchives ==
  {Whole(Named(ks), Dest) : ks \in SeqsUpTo(Kinds, 2) \cup [1..3 -> Kinds \ {Plain("sock", 0)}]
                                    \cup [1..4 -> LinkKinds]}

(* Every place to break off.                                               *)
CutArchives ==
  UNION {{[Whole(Named(ks), Dest) EXCEPT !.upto = u, !.avail = a, !.fault = f] :
            u \in 0..Len(ks), a \in 0..2, f \in BOOLEAN} : ks \in SeqsUpTo(Kinds, 2)}

(* Names with dots, and destinations.                                      *)
Paths == {<<"..", "a">>, <<"..", "..", "a">>, <<"b", "..", "..", "a">>,
          <<"a", "..", "..">>, <<"..">>, <<".">>, <<"a", ".", "b">>}
Dests == {Dest, [Dest EXCEPT !.path = <<>>], [absolute |-> FALSE, path |-> <<>>],
          [absolute |-> FALSE, path |-> <<"x">>]}
NamedArchives ==
  {Whole(<<[Plain(t, 0) EXCEPT !.path = p, !.absolute = a]>>, d) :
     t \in {"dir", "reg"}, p \in Paths, a \in BOOLEAN, d \in Dests}

MCInputs == {in \in WholeArchives \cup CutArchives \cup NamedArchives : InputOK(in)}
=============================================================================
