---------------------------- MODULE PayloadReader ----------------------------
(***************************************************************************)
(* Sequential access to the files of a package: PayloadReaderExtended      *)
(* (rpmutils.go), the choice of a decompressor (uncompress.go) and         *)
(* payloadReader (payload.go), composed with the cpio reader it drives     *)
(* (CpioReader).  The file table comes from the RPM header, the archive    *)
(* from the payload; the reader has to bring the two together.             *)
(***************************************************************************)
EXTENDS Integers, Sequences, FiniteSets, FiniteSetsExt

CONSTANTS
    Payloads,   \* the packages to read (see PayloadOK)
    MaxBuf      \* bound on len(d), the buffer a caller passes to Read

VARIABLES
    stream, curPos, nextPos, cur, result,   \* the cpio reader, pr.cr
    out, seen, trailer, failed,             \* its observations
    payload,   \* the package
    phase,     \* "start", then "reading" or "failed" (PayloadReaderExtended)
    dec,       \* the decompressor pr.stream: "none", "open" or "closed"
    index,     \* pr.index
    named      \* observation: Next returned the file that Read reads

cpioVars == <<stream, curPos, nextPos, cur, result, out, seen, trailer, failed>>
ownVars  == <<payload, phase, dec, index, named>>
vars     == <<cpioVars, ownVars>>

(***************************************************************************)
(* The package.  files is the table of the general header; a file's name   *)
(* is a path and how it is anchored, size the one FILESIZES gives, link    *)
(* the length of its FILELINKTOS.  archive describes the uncompressed      *)
(* payload as in CpioReader (entries, len, fault); names and owner say for *)
(* each of its entries under which name it is stored and which file of the *)
(* table it is (-1: none).                                                 *)
(***************************************************************************)
Name == [anchor : {"", "/", "./"}, path : STRING]
FileType ==
  [name : [anchor : {"", "/"}, path : STRING], type : {"reg", "lnk", "dir"},
   size : Nat, link : Nat, device : Nat, inode : Nat]

(* fileInfo.inode64: device in the upper, inode in the lower 32 bits.      *)
inode64(f) == <<f.device, f.inode>>
NoInode == <<0, 0>>

SameInode(f, g) ==
  f.type = "reg" /\ g.type = "reg" /\ inode64(f) = inode64(g) /\ inode64(f) # NoInode

-----------------------------------------------------------------------------
(* newPayloadReader.  The loop over the table flags the last file it met   *)
(* with an inode when it meets another one with it: in the end every       *)
(* regular file is flagged that is followed by one of its link group.      *)
linkFlagsAfterFirst(fs) ==
  [i \in 1..Len(fs) |-> \E j \in 1..(i - 1) : SameInode(fs[i], fs[j])]
linkFlags(fs) ==
  [i \in 1..Len(fs) |-> \E j \in (i + 1)..Len(fs) : SameInode(fs[i], fs[j])]

(* The sizes it hands to the cpio reader.                                  *)
fileSizesOfTable(fs) ==
  [i \in 1..Len(fs) |-> CASE fs[i].type = "reg" -> fs[i].size
                           [] fs[i].type = "lnk" -> fs[i].link
                           [] OTHER              -> 0]
fileSizes(fs) ==
  [i \in 1..Len(fs) |-> CASE fs[i].type = "reg" -> IF linkFlags(fs)[i] THEN 0 ELSE fs[i].size
                           [] fs[i].type = "lnk" -> fs[i].link
                           [] OTHER              -> 0]

(* NewReaderWithSizes(r, fileSizes): the input of the cpio reader.         *)
cpioInput(p) ==
  [entries |-> p.archive.entries, len |-> p.archive.len, fault |-> p.archive.fault,
   hasSizes |-> TRUE, sizes |-> fileSizes(p.files)]

Cpio == INSTANCE CpioReader WITH Streams <- {cpioInput(p) : p \in Payloads}

files   == payload.files
entries == stream.entries
Stored  == 1..(Len(entries) - 1)     \* the entries before the trailer

-----------------------------------------------------------------------------
(* Next drops the dot of a name that begins with "./".                     *)
TrimNone(name) == name
Trimmed(name) == IF name.anchor = "./" THEN [name EXCEPT !.anchor = "/"] ELSE name

(* pr.fileMap: the last file of that name.                                 *)
NotFound == -1
fileMapUnchecked(name) ==   \* ok ignored: the zero value of a missing key
  LET found == {i \in 1..Len(files) : files[i].name = name}
  IN  IF found = {} THEN 0 ELSE Max(found) - 1
fileMap(name) ==
  LET found == {i \in 1..Len(files) : files[i].name = name}
  IN  IF found = {} THEN NotFound ELSE Max(found) - 1

(* The index Next computes for entry k.                                    *)
Lookup(k) ==
  IF entries[k].stripped THEN entries[k].index
  ELSE fileMap(Trimmed(payload.names[k]))

InTable(i) == i \in 0..(Len(files) - 1)

(* The packages rpm writes: an entry is found under its index or its name, *)
(* starting at the root; the files with one inode have one size, all of    *)
(* them are stored or none, in the order of the table, and the last one    *)
(* has the contents.                                                       *)
StoredLink(p, k) ==
  \E m \in (k + 1)..(Len(p.archive.entries) - 1) :
    /\ p.owner[k] >= 0 /\ p.owner[m] >= 0
    /\ SameInode(p.files[p.owner[k] + 1], p.files[p.owner[m] + 1])

StoredSize(p, k) ==
  LET f == p.files[p.owner[k] + 1] IN
  CASE f.type = "reg" -> IF StoredLink(p, k) THEN 0 ELSE f.size
    [] f.type = "lnk" -> f.link
    [] OTHER          -> 0

IsStored(p, i) == \E k \in 1..(Len(p.archive.entries) - 1) : p.owner[k] = i - 1

EntryFound(p, k) ==
  LET e == p.archive.entries[k]
      f == p.files[p.owner[k] + 1]
  IN  IF p.owner[k] = -1
      THEN IF e.stripped THEN e.index >= Len(p.files)
           ELSE \A i \in 1..Len(p.files) : p.files[i].name.path # p.names[k].path
      ELSE /\ e.len = StoredSize(p, k)
           /\ IF e.stripped THEN e.index = p.owner[k]
              ELSE /\ p.names[k].path = f.name.path
                   /\ p.names[k].anchor \in IF f.name.anchor = "/" THEN {"/", "./"} ELSE {""}

PayloadOK(p) ==
  /\ p.files \in Seq(FileType)
  /\ \A i, j \in 1..Len(p.files) :
       /\ i # j => p.files[i].name # p.files[j].name
       /\ SameInode(p.files[i], p.files[j]) =>
            p.files[i].size = p.files[j].size /\ (IsStored(p, i) => IsStored(p, j))
  /\ \A k \in 1..(Len(p.archive.entries) - 1) :
       /\ p.owner[k] \in -1..(Len(p.files) - 1) /\ p.names[k] \in Name
       /\ EntryFound(p, k)
       /\ \A m \in 1..(k - 1) : p.owner[k] # -1 /\ p.owner[m] # -1 =>
            /\ p.owner[m] # p.owner[k]
            /\ SameInode(p.files[p.owner[m] + 1], p.files[p.owner[k] + 1])
                 => p.owner[m] < p.owner[k]
  /\ Cpio!StreamOK([cpioInput(p) EXCEPT !.sizes = <<>>])

ASSUME PayloadsAssumption == \A p \in Payloads : PayloadOK(p)
ASSUME MaxBufAssumption   == MaxBuf \in Nat \ {0}

-----------------------------------------------------------------------------
Init ==
  /\ payload \in Payloads
  /\ stream = cpioInput(payload) /\ Cpio!NewReaderWithSizes
  /\ phase = "start" /\ dec = "none" /\ index = 0 /\ named = FALSE

(* uncompressRpmPayloadReader: without a tag the first two bytes decide    *)
(* between gzip and no compression; they are put back in front.            *)
compression ==
  IF payload.compressor # "absent" THEN payload.compressor
  ELSE IF payload.gzipMagic THEN "gzip" ELSE "uncompressed"

Compressions == {"zstd", "gzip", "bzip2", "lzma", "xz", "uncompressed"}

(* Which of its results is an io.Closer; noCloseWrapper hides the Close of *)
(* the package's own file.                                                 *)
Closers == {"zstd", "gzip"}

(* It fails on another payload format, on an unknown compression, and if   *)
(* the peek or the decompressor meets bytes it cannot use (opens, FALSE).  *)
uncompresses ==
  /\ payload.format \in {"absent", "cpio"}
  /\ compression \in Compressions
  /\ payload.opens

(* Rpm.PayloadReaderExtended: a failing GetFiles leaves the decompressor   *)
(* to the garbage collector.                                               *)
PayloadReaderExtended ==
  /\ phase = "start"
  /\ \/ /\ ~uncompresses
        /\ phase' = "failed" /\ UNCHANGED dec
     \/ /\ uncompresses /\ ~payload.hasFiles
        /\ phase' = "failed" /\ dec' = "open"
     \/ /\ uncompresses /\ payload.hasFiles
        /\ phase' = "reading" /\ dec' = "open"
  /\ UNCHANGED <<cpioVars, payload, index, named>>

Closed == IF compression \in Closers THEN "closed" ELSE dec

(* payloadReader.Next when cr.Next fails: close the decompressor, whatever *)
(* the error.                                                              *)
NextErrorAtEOF ==
  /\ phase = "reading" /\ Cpio!ReaderNext /\ result'.err # "nil"
  /\ dec' = IF result'.err = "EOF" THEN Closed ELSE dec
  /\ UNCHANGED <<payload, phase, index, named>>

NextError ==
  /\ phase = "reading" /\ Cpio!ReaderNext /\ result'.err # "nil"
  /\ dec' = IF result'.err = "panic" THEN dec ELSE Closed
  /\ UNCHANGED <<payload, phase, index, named>>

(* payloadReader.Next returns the file of the entry.                       *)
NextFile ==
  /\ phase = "reading" /\ Cpio!ReaderNext /\ result'.err = "nil"
  /\ InTable(Lookup(cur'.ent))
  /\ index' = Lookup(cur'.ent) /\ named' = TRUE
  /\ UNCHANGED <<payload, phase, dec>>

(* payloadReader.Next finds no file for the entry: the cpio reader is      *)
(* already at it, index still at the file before.                          *)
NextUnknownCloses ==
  /\ phase = "reading" /\ Cpio!ReaderNext /\ result'.err = "nil"
  /\ ~InTable(Lookup(cur'.ent))
  /\ named' = FALSE /\ dec' = Closed
  /\ UNCHANGED <<payload, phase, index>>

NextUnknown ==
  /\ phase = "reading" /\ Cpio!ReaderNext /\ result'.err = "nil"
  /\ ~InTable(Lookup(cur'.ent))
  /\ named' = FALSE
  /\ UNCHANGED <<payload, phase, dec, index>>

NextCall == NextError \/ NextFile \/ NextUnknown

(* payloadReader.Read.                                                     *)
ReadCall == phase = "reading" /\ Cpio!ReaderRead /\ UNCHANGED ownVars

(* payloadReader.IsLink.                                                   *)
IsLink == linkFlags(files)[index + 1]

Next == PayloadReaderExtended \/ NextCall \/ ReadCall

Spec == Init /\ [][Next]_vars

(* A caller opens the package and goes on calling Next, as the loop of     *)
(* uncompress_test.go does.                                                *)
FairSpec == Spec /\ WF_vars(PayloadReaderExtended) /\ WF_vars(NextCall)

-----------------------------------------------------------------------------
(* index is always the place of a file in the table, so that IsLink finds  *)
(* a flag, also after an entry that has no file; and the file Next has     *)
(* returned is the one the current entry is (payload.go:93-111).           *)
TypeOK ==
  /\ stream = cpioInput(payload)
  /\ phase \in {"start", "reading", "failed"}
  /\ dec \in {"none", "open", "closed"}
  /\ index \in Nat /\ (files # <<>> => index < Len(files))
  /\ named \in BOOLEAN /\ (named => payload.owner[seen] = index)

(* The files stored in a package.                                          *)
StoredFiles(p) ==
  [k \in 1..(Len(p.archive.entries) - 1) |->
     LET e == p.archive.entries[k] IN
     [file |-> p.owner[k], link |-> StoredLink(p, k),
      bytes |-> [i \in 1..e.len |-> e.data + i - 1]]]

(* The reader shows the stored files in order, each with its own FileInfo, *)
(* link flag and bytes, and meets the trailer after the last one only; the *)
(* archive's description, not the reader's tables, says which file an      *)
(* entry is and which of several links has contents (payload.go:81-124).   *)
PF == INSTANCE PayloadFiles
        WITH archive  <- StoredFiles(payload),
             done     <- seen,
             file     <- IF named THEN index ELSE -1,
             link     <- named /\ IsLink,
             got      <- out,
             ended    <- trailer
ImplementsPayloadFiles == PF!Spec

(* The payload is not cut off and every stored file is in the table.       *)
Complete ==
  /\ stream.len >= entries[Len(entries)].data
  /\ \A k \in Stored : payload.owner[k] >= 0

(* A complete package is read to its end: Next fails for the first time at *)
(* the trailer, when it has returned every file.  For stripped entries     *)
(* this rests on the sizes newPayloadReader derives from the table.        *)
CompletePackageReadable ==
  Complete /\ (failed \/ trailer) => trailer /\ seen = Len(entries) - 1

(* payload.go:119: if IsLink is true of the file Next returned, a later    *)
(* file with its inode, of which IsLink is false, has the contents.        *)
LinkContentsFollow ==
  named /\ IsLink =>
    \E k \in Stored :
      LET i == payload.owner[k] + 1 IN
      /\ k > seen /\ i > 0
      /\ files[i].inode = files[index + 1].inode
      /\ ~linkFlags(files)[i]
      /\ entries[k].len = files[index + 1].size

(* Once Next has closed the decompressor, no call returns another file or  *)
(* another byte, however often Next and Read are tried again               *)
(* (payload.go:86-91).                                                     *)
NothingAfterClose == [][dec = "closed" => seen' = seen /\ out' = out]_vars

(* payload.go:87: a caller that goes on calling Next has the decompressor  *)
(* closed in the end, whatever the payload holds and wherever it breaks    *)
(* off (unless a call panicked: a Read before the first Next).             *)
DecompressorClosed ==
  phase = "reading" /\ compression \in Closers
    ~> dec = "closed" \/ result.err = "panic"
=============================================================================
