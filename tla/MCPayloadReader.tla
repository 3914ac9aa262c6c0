--------------------------- MODULE MCPayloadReader ---------------------------
(* Small packages for PayloadReader.                                       *)
EXTENDS PayloadReader, CpioLayout

File(path, type, size, link, device, inode) ==
  [name |-> [anchor |-> "/", path |-> path], type |-> type, size |-> size,
   link |-> link, device |-> device, inode |-> inode]
Unlinked(path, size) == File(path, "reg", size, 0, 0, 0)

(* Two links with a file of the same inode on another device between them, *)
(* a symbolic link, a directory.  Each has the size of the whole file.     *)
LinkTable ==
  <<File("a", "reg", 3, 0, 1, 7), File("b", "reg", 1, 0, 2, 7),
    File("c", "reg", 3, 0, 1, 7), File("d", "lnk", 9, 2, 1, 8),
    File("e", "dir", 9, 0, 1, 9)>>
(* Three links; the header has no inodes for the others.                   *)
TripleTable ==
  <<File("a", "reg", 2, 0, 1, 7), Unlinked("b", 3), File("c", "reg", 2, 0, 1, 7),
    Unlinked("d", 1), File("e", "reg", 2, 0, 1, 7)>>
(* Names as in a source package.                                           *)
SourceTable == <<[Unlinked("s", 2) EXCEPT !.name.anchor = ""],
                 [Unlinked("t", 5) EXCEPT !.name.anchor = ""]>>

(* A package that stores the files of order, which are 0-based indices;    *)
(* -1 is a file the table does not have.                                   *)
StoredName(table, i, anchor) ==
  IF i < 0 THEN [anchor |-> anchor, path |-> "unknown"]
  ELSE [table[i + 1].name EXCEPT !.anchor = IF @ = "/" THEN anchor ELSE @]

LinkLater(table, order, k) ==
  \E m \in (k + 1)..Len(order) :
    order[m] >= 0 /\ SameInode(table[order[k] + 1], table[order[m] + 1])

ContentLen(table, order, k) ==
  LET f == table[order[k] + 1] IN
  IF order[k] < 0 THEN 1
  ELSE IF f.type = "lnk" THEN f.link
  ELSE IF f.type = "dir" \/ LinkLater(table, order, k) THEN 0 ELSE f.size

Entries(table, order, stripped) ==
  [k \in 1..Len(order) |->
     IF stripped
     THEN Stripped(IF order[k] < 0 THEN Len(table) ELSE order[k],
                         ContentLen(table, order, k))
     ELSE Newc(k + 3, ContentLen(table, order, k))]
  \o <<Trailer>>

Package(table, order, stripped, anchor, compressor) ==
  LET es == Layout(Entries(table, order, stripped)) IN
  [files |-> table, owner |-> order,
   names |-> [k \in 1..Len(order) |-> StoredName(table, order[k], anchor)],
   archive |-> [entries |-> es, len |-> End(es), fault |-> FALSE],
   format |-> "cpio", compressor |-> compressor, gzipMagic |-> FALSE,
   opens |-> TRUE, hasFiles |-> TRUE]

(* rpm stores the links of a group one behind the other, so the order is   *)
(* not always that of the table; files that are ghosts are not stored.     *)
WholePackages ==
  {Package(LinkTable, o, s, a, "zstd") :
      o \in {<<0, 2, 1, 3, 4>>, <<0, 1, 2, 3, 4>>, <<3, 0, 2>>},
      s \in BOOLEAN, a \in {"/", "./"}}
    \cup {Package(TripleTable, <<0, 2, 4, 1, 3>>, s, "./", "gzip") : s \in BOOLEAN}
    \cup {Package(SourceTable, <<1, 0>>, FALSE, "", "xz")}
    \cup {Package(<<>>, <<>>, FALSE, "/", "zstd")}

UnknownFile(s) == Package(LinkTable, <<0, -1, 2>>, s, "./", "zstd")

BrokenPackages ==
  {UnknownFile(s) : s \in BOOLEAN}
    \cup UNION {{[p EXCEPT !.archive.len = n, !.archive.fault = f] :
                    n \in 0..p.archive.len, f \in BOOLEAN} :
                p \in {Package(LinkTable, <<0, 2, 3>>, TRUE, "/", "zstd"),
                       Package(LinkTable, <<1, -1>>, FALSE, "./", "gzip")}}

(* How a package can be opened, or not.                                    *)
Small == Package(SourceTable, <<0>>, FALSE, "", "absent")
OpenedPackages ==
  {[Small EXCEPT !.format = fmt, !.compressor = c, !.gzipMagic = g,
                 !.opens = o, !.hasFiles = h] :
     fmt \in {"absent", "cpio", "drpm"}, c \in {"absent", "lzma", "rot13"},
     g \in BOOLEAN, o \in BOOLEAN, h \in BOOLEAN}

MCPayloads == WholePackages \cup BrokenPackages \cup OpenedPackages
=============================================================================
