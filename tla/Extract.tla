------------------------------- MODULE Extract -------------------------------
(***************************************************************************)
(* cpio.Extract (cpio/extract.go): the entries of an archive become files  *)
(* below a destination directory.  The archive arrives as CpioReader shows *)
(* it: entry after entry, contents in reads of any length, breaking off    *)
(* between two entries or inside the contents of one.  The file system is  *)
(* a map from paths to inodes, so that hard links share contents.          *)
(*                                                                         *)
(* A path is the sequence of its components; that of the destination's     *)
(* root, "/" or the working directory, is empty.                           *)
(***************************************************************************)
EXTENDS Integers, Sequences, SequencesExt

CONSTANTS
    Inputs,    \* archives and the directories they are extracted to
    MaxPasses, \* bound on how often the same archive is extracted
    CallsFail  \* a system call may fail for reasons of its own

Types == {"dir", "reg", "lnk", "fifo", "chr", "blk", "sock"}

VARIABLES
    input,     \* the archive and dest
    places,    \* target of every entry, and whether it passes the check
    pass,      \* how often Extract was called
    pos,       \* entries read by ReadNextEntry
    linkMap,   \* linkMap: inode number in the archive -> targets waiting
    file,      \* f: inode number on disk of the file being copied, 0 if none
    written,   \* written: bytes io.Copy has copied to it
    links,     \* targets still to be linked to the file just written
    tree,      \* path -> inode number on disk, 0 for a directory
    inodes,    \* what each inode on disk holds
    ret        \* "running", or what Extract returned

fsVars == <<tree, inodes>>
vars == <<input, places, pass, pos, linkMap, file, written, links, tree, inodes, ret>>

-----------------------------------------------------------------------------
(* path.Clean and filepath.Clean on components.                            *)
cleanStep(absolute, path, c) ==
  IF c = "." THEN path
  ELSE IF c # ".." \/ (path = <<>> /\ ~absolute) \/ (path # <<>> /\ Last(path) = "..")
  THEN Append(path, c)
  ELSE IF path = <<>> THEN path ELSE Front(path)

Clean(absolute, path) ==
  LET upTo[n \in 0..Len(path)] ==
        IF n = 0 THEN <<>> ELSE cleanStep(absolute, upTo[n - 1], path[n])
  IN  upTo[Len(path)]

(* The loop that removes leading "../": a lone ".." has no slash.          *)
stripDotDot(path) ==
  LET up == CHOOSE n \in 0..Len(path) :
              /\ \A i \in 1..n : path[i] = ".."
              /\ n < Len(path) => path[n + 1] # ".."
  IN  SubSeq(path, IF up = Len(path) /\ up > 0 THEN up ELSE up + 1, Len(path))

(* Where an entry goes, and whether that is dest or begins with dest and a *)
(* slash.  "." and "/" are never followed by a slash in a cleaned path.    *)
unsanitized(dest, e) ==
  [path |-> Clean(dest.absolute, dest.path \o Clean(e.absolute, e.path)), ok |-> TRUE]

sanitize(dest, e) ==
  LET p == Clean(dest.absolute, dest.path \o stripDotDot(Clean(e.absolute, e.path)))
  IN  [path |-> p,
       ok   |-> p = dest.path \/ (dest.path # <<>> /\ IsStrictPrefix(dest.path, p))]

(* A map with one entry, and one that takes from g what f does not have.   *)
One(k, v)  == [x \in {k} |-> v]
Also(f, g) == [x \in DOMAIN f \cup DOMAIN g |-> IF x \in DOMAIN f THEN f[x] ELSE g[x]]

entries == input.entries
Target(k) == places[k].path

(* How many bytes of the contents of entry k the stream has.               *)
Available(k) == IF k = input.upto THEN input.avail ELSE entries[k].size

-----------------------------------------------------------------------------
(* An archive is cut off behind entry number upto, of whose contents avail *)
(* bytes are there; upto is Len(entries) + 1 if the trailer is.  Names are *)
(* distinct, and what lies below an entry lies below a directory.          *)
InputOK(in) ==
  LET es == in.entries
      At(k) == sanitize(in.dest, es[k]).path
  IN  /\ in.dest.path \in Seq(STRING)
      /\ in.dest.path = Clean(in.dest.absolute, in.dest.path)
      /\ \A i \in DOMAIN in.dest.path : in.dest.path[i] # ".."
      /\ DOMAIN es = 1..Len(es) /\ Len(es) \in Nat
      /\ \A k \in DOMAIN es :
           /\ es[k].path \in Seq(STRING)
           /\ es[k].type \in Types /\ es[k].size \in Nat
           /\ IsPrefix(At(k), in.dest.path) => es[k].type = "dir"
      /\ in.upto \in 0..(Len(es) + 1) /\ in.fault \in BOOLEAN
      /\ in.upto \in DOMAIN es => in.avail \in 0..es[in.upto].size
      /\ \A k, m \in DOMAIN es : k # m =>
           /\ At(k) # At(m)
           /\ IsPrefix(At(k), At(m)) => es[k].type \in {"dir", "chr", "blk"}

ASSUME InputsAssumption == \A in \in Inputs : InputOK(in)
ASSUME BoundsAssumption == MaxPasses \in Nat \ {0} /\ CallsFail \in BOOLEAN

Start ==
  /\ pos = 0 /\ linkMap = <<>> /\ file = 0 /\ written = 0 /\ links = <<>>
  /\ ret = "running"

Init ==
  /\ input \in Inputs /\ pass = 1
  /\ places = [k \in DOMAIN input.entries |-> sanitize(input.dest, input.entries[k])]
  /\ tree = One(<<>>, 0) /\ inodes = <<>>
  /\ Start

-----------------------------------------------------------------------------
Idle == ret = "running" /\ file = 0 /\ links = <<>>

Return(err) == ret' = err /\ UNCHANGED <<input, places, pass, pos, linkMap, file, written, links>>

(* ReadNextEntry fails: the stream is broken off here, or the entry is a   *)
(* stripped one, whose size Extract does not know.                         *)
NextFails ==
  /\ Idle
  /\ pos >= input.upto \/ (pos < Len(entries) /\ entries[pos + 1].stripped)
  /\ Return("read error") /\ UNCHANGED fsVars

Trailer ==
  /\ Idle /\ pos = Len(entries) /\ pos < input.upto
  /\ Return("nil") /\ UNCHANGED fsVars

(* The entry that is read next, and its place.                             *)
e == entries[pos + 1]
target == Target(pos + 1)

NextEntry(ok, types) ==
  /\ Idle /\ pos < input.upto /\ pos < Len(entries) /\ ~e.stripped
  /\ places[pos + 1].ok = ok /\ e.type \in types
  /\ pos' = pos + 1
  /\ UNCHANGED <<input, places, pass>>

InvalidPath ==
  /\ NextEntry(FALSE, Types)
  /\ ret' = "invalid path" /\ UNCHANGED <<linkMap, file, written, links, fsVars>>

(* os.MkdirAll of the directories above the target: its prefixes.          *)
Above(p) == {SubSeq(p, 1, n) : n \in 0..(Len(p) - 1)}
WithDirs(ps) == [p \in ps |-> 0]
WithParent == Also(tree, WithDirs({Front(target)}))
WithParents == Also(tree, WithDirs(Above(target)))
Exists == target \in DOMAIN WithParents

(* The entry is done with, or err is returned; the parents are there.      *)
Done(err) == ret' = err /\ tree' = WithParents /\ UNCHANGED <<linkMap, file, written, links, inodes>>
NewInode(type) ==
  /\ tree' = Also(WithParents, One(target, Len(inodes) + 1))
  /\ inodes' = Append(inodes, [type |-> type, of |-> pos + 1, len |-> 0])
  /\ UNCHANGED <<ret, linkMap, links>>

(* Devices are not made, but the directory above them is.                  *)
SkipDevice == NextEntry(TRUE, {"chr", "blk"}) /\ Done("running")

UnknownMode == NextEntry(TRUE, {"sock"}) /\ Done("unknown mode")

(* os.Mkdir; whatever is there already may stay.                           *)
MakeDirOnce ==
  /\ NextEntry(TRUE, {"dir"})
  /\ IF Exists THEN Done("exists")
     ELSE /\ tree' = Also(WithParents, WithDirs({target}))
          /\ UNCHANGED <<ret, linkMap, file, written, links, inodes>>
MakeDir ==
  /\ NextEntry(TRUE, {"dir"})
  /\ tree' = Also(WithParents, WithDirs({target}))
  /\ UNCHANGED <<ret, linkMap, file, written, links, inodes>>

(* Mkfifo and os.Symlink do not replace anything.                          *)
MakeSpecial(type) ==
  IF Exists THEN Done("exists") ELSE NewInode(type) /\ UNCHANGED <<file, written>>

MakeFifo == NextEntry(TRUE, {"fifo"}) /\ MakeSpecial("fifo")

(* The target of a symbolic link is read by one Read, which finds nothing, *)
(* or some bytes; the rest stays NUL, and os.Symlink refuses that.  If the *)
(* stream ends there the bytes may come together with its io.EOF.          *)
MakeSymlink ==
  /\ NextEntry(TRUE, {"lnk"})
  /\ \E n \in 0..Available(pos + 1) :
       \/ /\ n = Available(pos + 1) /\ (n = 0 \/ pos + 1 = input.upto)
          /\ Done("read error")
       \/ n \in 1..(e.size - 1) /\ Done("NUL in target")
       \/ n > 0 /\ n = e.size /\ MakeSpecial("lnk")

(* A regular file with several links and no contents waits in linkMap.     *)
isLink == e.nlink > 1 /\ e.size = 0
Waiting(ino) == IF ino \in DOMAIN linkMap THEN linkMap[ino] ELSE <<>>

SaveLastLink ==
  /\ NextEntry(TRUE, {"reg"}) /\ isLink
  /\ linkMap' = Also(One(e.ino, <<target>>), linkMap)
  /\ tree' = WithParents
  /\ UNCHANGED <<ret, file, written, links, inodes>>

SaveLink ==
  /\ NextEntry(TRUE, {"reg"}) /\ isLink
  /\ linkMap' = Also(One(e.ino, Append(Waiting(e.ino), target)), linkMap)
  /\ tree' = WithParents
  /\ UNCHANGED <<ret, file, written, links, inodes>>

(* os.Create: an error for a directory; a file that is there is truncated, *)
(* with all its names.                                                     *)
Create ==
  /\ NextEntry(TRUE, {"reg"}) /\ ~isLink
  /\ IF Exists /\ WithParents[target] = 0 THEN Done("is a directory")
     ELSE /\ IF Exists
             THEN /\ tree' = WithParents
                  /\ inodes' = [inodes EXCEPT ![tree[target]] = [@ EXCEPT !.of = pos + 1, !.len = 0]]
                  /\ UNCHANGED <<ret, linkMap, links>>
             ELSE NewInode("reg")
          /\ file' = tree'[target] /\ written' = 0

(* io.Copy: some of the bytes that are left.                               *)
Copy ==
  /\ ret = "running" /\ file # 0
  /\ \E n \in 1..(Available(pos) - written) :
       /\ written' = written + n
       /\ inodes' = [inodes EXCEPT ![file].len = @ + n]
  /\ UNCHANGED <<input, places, pass, pos, linkMap, file, links, tree, ret>>

(* io.Copy returns, for which io.EOF inside the contents is no error.  The *)
(* file is closed; if it has contents and links, the latter are next.      *)
HasLinks(k) == entries[k].nlink > 1 /\ entries[k].size > 0

CopyEndAtSize ==
  /\ ret = "running" /\ file # 0 /\ written = entries[pos].size
  /\ IF HasLinks(pos) /\ entries[pos].ino \notin DOMAIN linkMap
     THEN Return("hardlinks missing")
     ELSE /\ file' = 0
          /\ links' = IF HasLinks(pos) THEN linkMap[entries[pos].ino] ELSE <<>>
          /\ UNCHANGED <<input, places, pass, pos, linkMap, written, ret>>
  /\ UNCHANGED fsVars

CopyEnd ==
  /\ ret = "running" /\ file # 0 /\ written = Available(pos)
  /\ IF written < entries[pos].size
     THEN Return(IF input.fault THEN "read error" ELSE "short write")
     ELSE IF HasLinks(pos) /\ entries[pos].ino \notin DOMAIN linkMap
     THEN Return("hardlinks missing")
     ELSE /\ file' = 0
          /\ links' = IF HasLinks(pos) THEN linkMap[entries[pos].ino] ELSE <<>>
          /\ UNCHANGED <<input, places, pass, pos, linkMap, written, ret>>
  /\ UNCHANGED fsVars

(* os.Link for the first of the waiting names.                             *)
MakeLink ==
  /\ ret = "running" /\ file = 0 /\ links # <<>>
  /\ IF Head(links) \in DOMAIN tree
     THEN Return("exists") /\ UNCHANGED tree
     ELSE /\ tree' = Also(tree, One(Head(links), tree[Target(pos)]))
          /\ links' = Tail(links)
          /\ UNCHANGED <<input, places, pass, pos, linkMap, file, written, ret>>
  /\ UNCHANGED inodes

Step ==
  \/ NextFails \/ Trailer \/ InvalidPath
  \/ SkipDevice \/ UnknownMode \/ MakeDir \/ MakeFifo \/ MakeSymlink
  \/ SaveLink \/ Create \/ Copy \/ CopyEnd \/ MakeLink

(* A write, a close, a mkdir fails: no space, no permission.               *)
CallFails == CallsFail /\ ret = "running" /\ Return("call failed") /\ UNCHANGED fsVars

(* The caller extracts the same archive to the same place once more.       *)
Again ==
  /\ ret = "nil" /\ pass < MaxPasses
  /\ pass' = pass + 1
  /\ pos' = 0 /\ linkMap' = <<>> /\ file' = 0 /\ written' = 0 /\ links' = <<>>
  /\ ret' = "running"
  /\ UNCHANGED <<input, places, tree, inodes>>

Next == Step \/ CallFails \/ Again

Spec == Init /\ [][Next]_vars /\ WF_vars(Step)

-----------------------------------------------------------------------------
TypeOK ==
  /\ pass \in 1..MaxPasses
  /\ pos \in 0..Len(entries)
  /\ file \in 0..Len(inodes) /\ written \in Nat
  /\ \A p \in DOMAIN tree : tree[p] \in 0..Len(inodes)
  /\ \A p \in DOMAIN tree : Above(p) \subseteq DOMAIN tree
  /\ \A i \in DOMAIN linkMap : linkMap[i] # <<>>

(* Entry m waits and k has contents, under one inode number; they are      *)
(* names of one file if the device is the same too, which linkMap ignores. *)
SameNumber(m, k) ==
  /\ m < k /\ entries[m].type = "reg" /\ entries[k].type = "reg"
  /\ entries[m].nlink > 1 /\ entries[m].size = 0 /\ HasLinks(k)
  /\ entries[m].ino = entries[k].ino
LinkOf(m, k) == SameNumber(m, k) /\ entries[m].dev = entries[k].dev

Shares(k, m) == Target(k) \in DOMAIN tree /\ tree[Target(k)] = tree[Target(m)]

(* What becomes of entry k.  A link is a name of its own file if the       *)
(* contents of that follow.  If they do not it is missing, or, which is    *)
(* what linkMap makes of it, a name of a file on another device that has   *)
(* its inode number.                                                       *)
OnDisk(k) ==
  LET at == entries[k] IN
  CASE at.type = "dir" -> Target(k) \in DOMAIN tree /\ tree[Target(k)] = 0
    [] at.type \in {"chr", "blk", "sock"} -> TRUE
    [] at.type \in {"fifo", "lnk"} \/ (at.type = "reg" /\ ~(at.nlink > 1 /\ at.size = 0)) ->
         /\ Target(k) \in DOMAIN tree /\ tree[Target(k)] # 0
         /\ inodes[tree[Target(k)]] =
              [type |-> at.type, of |-> k, len |-> IF at.type = "reg" THEN at.size ELSE 0]
    [] OTHER ->
         /\ \A m \in DOMAIN entries : LinkOf(k, m) => Shares(k, m)
         /\ Target(k) \in DOMAIN tree =>
              \E m \in DOMAIN entries : SameNumber(k, m) /\ Shares(k, m)

(* If Extract returns nil, every directory, symbolic link, pipe and file   *)
(* with contents of its own is on disk with its type and all its contents, *)
(* and every link that has the contents of its own file behind it in the   *)
(* archive shares the inode of that file.  Devices are skipped.  Of other  *)
(* links it is only said that they are missing (extract_links shows that   *)
(* this happens) or lead to contents with their inode number, be it those  *)
(* of another device.  All this also if the stream broke off, and after a  *)
(* second extraction, which truncates what is there (extract.go:103-139).  *)
OkMeansExtracted == ret = "nil" => \A k \in DOMAIN entries : OnDisk(k)

(* Nothing is made outside dest, whatever ".." the names hold: all paths   *)
(* lie below dest or lead to it (extract.go:62-71).                        *)
InsideDest ==
  \A p \in DOMAIN tree : IsPrefix(p, input.dest.path) \/ IsPrefix(input.dest.path, p)

(* What an archive needs to be extracted: it is whole, its types are known *)
(* and its paths pass the check, symbolic links are not empty, the first   *)
(* link to a file comes before its contents, and no inode number is used   *)
(* on two devices.                                                         *)
Extractable ==
  /\ input.upto = Len(entries) + 1
  /\ \A k \in DOMAIN entries :
       LET at == entries[k] IN
       /\ ~at.stripped /\ places[k].ok /\ at.type # "sock"
       /\ at.type = "lnk" => at.size > 0
       /\ at.type = "reg" /\ HasLinks(k) => \E m \in DOMAIN entries : LinkOf(m, k)
       /\ \A m \in DOMAIN entries : at.ino = entries[m].ino => at.dev = entries[m].dev
  /\ \A k, m \in DOMAIN entries : HasLinks(k) /\ HasLinks(m) /\ entries[k].ino = entries[m].ino => k = m
HasType(ts) == \E k \in DOMAIN entries : entries[k].type \in ts

(* Such an archive is extracted, unless a system call fails or the target  *)
(* of a symbolic link comes in two reads; a second time, it is extracted   *)
(* over the first if it has directories and plain files only.              *)
ExtractableSucceeds ==
  Extractable => \/ ret \in {"running", "nil", "call failed"}
                 \/ ret = "NUL in target" /\ HasType({"lnk"})
                 \/ /\ ret = "exists" /\ pass > 1
                    /\ HasType({"fifo", "lnk"}) \/ \E k, m \in DOMAIN entries : LinkOf(m, k)

(* Extract returns, wherever the archive breaks off.                       *)
Terminates == []<>(ret # "running")

(* extract.go:103: hard links are made once their target is written, so    *)
(* after a successful extraction every file of the archive exists.         *)
EveryFileExists ==
  ret = "nil" => \A k \in DOMAIN entries :
    entries[k].type = "reg" => Target(k) \in DOMAIN tree
=============================================================================
