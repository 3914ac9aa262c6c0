------------------------ MODULE PayloadReader_proofs ------------------------
(***************************************************************************)
(* Proofs about PayloadReader for every set of packages rpm can write.     *)
(*                                                                         *)
(* The argument has two halves.  First, the sizes newPayloadReader takes   *)
(* from the file table are those of the stored entries, so the input of    *)
(* the cpio reader is a well-formed stream and everything proved about     *)
(* CpioReader holds here.  Second, the index Next computes for an entry is *)
(* the place of the file that entry is, and the link flag of that file     *)
(* says whether a later entry has its contents.                            *)
(***************************************************************************)
EXTENDS PayloadReader, WellFoundedInduction, SequenceTheorems, TLAPS

(* The proved cpio reader, on the same input.                              *)
CP == INSTANCE CpioReader_proofs WITH Streams <- {cpioInput(p) : p \in Payloads}

-----------------------------------------------------------------------------
(* The reader PayloadReader drives is the one the proofs are about.        *)
LEMMA SameConstants ==
  /\ Cpio!magicLength = CP!magicLength /\ Cpio!fieldLength = CP!fieldLength
  /\ Cpio!newcFields = CP!newcFields /\ Cpio!newcHeaderLength = CP!newcHeaderLength
  /\ Cpio!strippedLength = CP!strippedLength
  /\ Cpio!NoFile = CP!NoFile /\ Cpio!entries = CP!entries
BY DEF Cpio!magicLength, CP!magicLength, Cpio!fieldLength, CP!fieldLength,
       Cpio!newcFields, CP!newcFields, Cpio!newcHeaderLength, CP!newcHeaderLength,
       Cpio!strippedLength, CP!strippedLength, Cpio!NoFile, CP!NoFile,
       Cpio!entries, CP!entries

(* Its arithmetic ...                                                      *)
LEMMA SamePadding ==
  \A n : /\ Cpio!pad(n) = CP!pad(n) /\ Cpio!pad64(n) = CP!pad64(n)
         /\ Cpio!namePadding(n) = CP!namePadding(n)
BY SameConstants
   DEF Cpio!pad, CP!pad, Cpio!pad64, CP!pad64, Cpio!namePadding, CP!namePadding

(* ... its primitives ...                                                  *)
LEMMA SameReads ==
  /\ \A p, n : Cpio!ReadFull(p, n) = CP!ReadFull(p, n)
  /\ \A p, n : Cpio!Seek(p, n) = CP!Seek(p, n)
  /\ \A p, n : Cpio!Read16s(p, n) = CP!Read16s(p, n)
  /\ \A p : Cpio!EntryAt(p) = CP!EntryAt(p)
<1>1. \A p, n : Cpio!ReadFull(p, n) = CP!ReadFull(p, n)
  BY DEF Cpio!ReadFull, CP!ReadFull
<1>2. \A p, n : Cpio!Seek(p, n) = CP!Seek(p, n)
  BY <1>1, Zenon DEF Cpio!Seek, CP!Seek
<1>3. \A p, n : Cpio!Read16s(p, n) = CP!Read16s(p, n)
  BY SameConstants, Zenon DEF Cpio!Read16s, CP!Read16s
<1>4. \A p : Cpio!EntryAt(p) = CP!EntryAt(p)
  BY SameConstants, Zenon DEF Cpio!EntryAt, CP!EntryAt
<1> QED
  BY <1>1, <1>2, <1>3, <1>4

(* ... ReadNextEntry ...                                                   *)
LEMMA SameReadNextEntry == Cpio!ReadNextEntry = CP!ReadNextEntry
<1>1. \A p : Cpio!readHeader(p) = CP!readHeader(p)
  BY SameConstants, SameReads, Zenon DEF Cpio!readHeader, CP!readHeader
<1>2. /\ \A p, err : Cpio!Failed(p, err) = CP!Failed(p, err)
      /\ \A p, n, f : Cpio!Found(p, n, f) = CP!Found(p, n, f)
      /\ \A i, p, s, t : Cpio!newFileStream(i, p, s, t) = CP!newFileStream(i, p, s, t)
  BY SameConstants, Zenon
     DEF Cpio!Failed, CP!Failed, Cpio!Found, CP!Found,
         Cpio!newFileStream, CP!newFileStream
<1>3. \A h : Cpio!readStrippedEntry(h) = CP!readStrippedEntry(h)
  BY SameConstants, SamePadding, <1>2, Zenon
     DEF Cpio!readStrippedEntry, CP!readStrippedEntry
<1>4. \A h : Cpio!readNewcEntry(h) = CP!readNewcEntry(h)
  BY SameConstants, SamePadding, SameReads, <1>2, Zenon
     DEF Cpio!readNewcEntry, CP!readNewcEntry
<1> QED
  BY SameConstants, SameReads, <1>1, <1>2, <1>3, <1>4, Zenon
     DEF Cpio!ReadNextEntry, CP!ReadNextEntry

(* ... and its operations.                                                 *)
LEMMA SameReader ==
  /\ Cpio!NewReaderWithSizes <=> CP!NewReaderWithSizes
  /\ Cpio!ReaderNext <=> CP!ReaderNext
  /\ Cpio!ReaderRead <=> CP!ReaderRead
  /\ \A s : Cpio!StreamOK(s) <=> CP!StreamOK(s)
<1>1. Cpio!NewReaderWithSizes <=> CP!NewReaderWithSizes
  BY SameConstants, Zenon DEF Cpio!NewReaderWithSizes, CP!NewReaderWithSizes
<1>2. Cpio!ReaderNext <=> CP!ReaderNext
  BY SameConstants, SameReadNextEntry, Zenon
     DEF Cpio!ReaderNext, CP!ReaderNext, Cpio!Running, CP!Running
<1>3. Cpio!ReadNil <=> CP!ReadNil
  BY Zenon DEF Cpio!ReadNil, CP!ReadNil, Cpio!Running, CP!Running
<1>4. Cpio!ReadNothing <=> CP!ReadNothing
  BY Zenon DEF Cpio!ReadNothing, CP!ReadNothing, Cpio!Running, CP!Running,
               Cpio!AtEnd, CP!AtEnd, Cpio!InOrder, CP!InOrder
<1>5. \A n : Cpio!ReadBytes(n) <=> CP!ReadBytes(n)
  BY Zenon DEF Cpio!ReadBytes, CP!ReadBytes, Cpio!Running, CP!Running, Cpio!Trim, CP!Trim,
               Cpio!EndErr, CP!EndErr, Cpio!AtEnd, CP!AtEnd, Cpio!InOrder, CP!InOrder
<1>6. Cpio!ReaderRead <=> CP!ReaderRead
  BY <1>3, <1>4, <1>5, Zenon DEF Cpio!ReaderRead, CP!ReaderRead
<1>7. \A e : Cpio!EntryOK(e) <=> CP!EntryOK(e)
  BY SameConstants, Zenon DEF Cpio!EntryOK, CP!EntryOK, Cpio!PaddedTo4, CP!PaddedTo4
<1>8. \A s : Cpio!StreamOK(s) <=> CP!StreamOK(s)
  <2>1. Cpio!EntryType = CP!EntryType
    BY DEF Cpio!EntryType, CP!EntryType
  <2>2. \A a, b : Cpio!PaddedTo4(a, b) <=> CP!PaddedTo4(a, b)
    BY DEF Cpio!PaddedTo4, CP!PaddedTo4
  <2> QED
    BY <1>7, <2>1, <2>2, SMT DEF Cpio!StreamOK, CP!StreamOK
<1> QED
  BY <1>1, <1>2, <1>6, <1>8

-----------------------------------------------------------------------------
(* What PayloadOK says of an entry and the file it is.                     *)
LEMMA OwnerFacts ==
  ASSUME NEW p \in Payloads, NEW k \in 1..(Len(p.archive.entries) - 1)
  PROVE  /\ p.files \in Seq(FileType) /\ Len(p.files) \in Nat
         /\ p.owner[k] \in -1..(Len(p.files) - 1) /\ p.names[k] \in Name
         /\ p.owner[k] # -1 =>
              /\ p.owner[k] + 1 \in 1..Len(p.files)
              /\ p.files[p.owner[k] + 1] \in FileType
         /\ EntryFound(p, k)
<1>1. /\ p.files \in Seq(FileType)
      /\ p.owner[k] \in -1..(Len(p.files) - 1) /\ p.names[k] \in Name
      /\ EntryFound(p, k)
  BY PayloadsAssumption DEF PayloadOK
<1>2. Len(p.files) \in Nat
  BY <1>1
<1>3. p.owner[k] # -1 => p.owner[k] + 1 \in 1..Len(p.files)
  BY <1>1, <1>2
<1> QED
  BY <1>1, <1>2, <1>3

(* Having one inode is symmetric.                                          *)
LEMMA SameInodeSymmetric ==
  ASSUME NEW f, NEW g, SameInode(f, g)
  PROVE  SameInode(g, f)
BY DEF SameInode

(* The flags of the table say which entries wait for a later one.          *)
LEMMA LinkFlagIsStoredLink ==
  ASSUME NEW p \in Payloads, NEW k \in 1..(Len(p.archive.entries) - 1), p.owner[k] # -1
  PROVE  linkFlags(p.files)[p.owner[k] + 1] <=> StoredLink(p, k)
<1> DEFINE n == Len(p.archive.entries) - 1
           i == p.owner[k] + 1
           F(j) == p.files[p.owner[j] + 1]
<1>1. i \in 1..Len(p.files) /\ Len(p.files) \in Nat /\ p.owner[k] \in Int
  BY OwnerFacts
<1>2. linkFlags(p.files)[i] <=> \E j \in (i + 1)..Len(p.files) : SameInode(p.files[i], p.files[j])
  BY <1>1 DEF linkFlags
<1>3. ASSUME NEW a \in 1..n, NEW b \in 1..n, a < b, p.owner[a] # -1, p.owner[b] # -1,
             SameInode(F(a), F(b))
      PROVE  p.owner[a] < p.owner[b]
  <2>1. a \in 1..(b - 1)
    BY <1>3
  <2> QED
    BY <1>3, <2>1, PayloadsAssumption DEF PayloadOK
<1>4. ASSUME StoredLink(p, k)
      PROVE  linkFlags(p.files)[i]
  <2>1. PICK m \in (k + 1)..n : p.owner[m] >= 0 /\ SameInode(F(k), F(m))
    BY <1>4 DEF StoredLink
  <2>2. m \in 1..n /\ k < m
    BY <2>1
  <2>3. p.owner[m] \in -1..(Len(p.files) - 1) /\ p.owner[m] # -1
    BY <2>1, <2>2, OwnerFacts
  <2>4. p.owner[k] < p.owner[m]
    BY <1>3, <2>1, <2>2, <2>3
  <2>5. p.owner[m] + 1 \in (i + 1)..Len(p.files)
    BY <1>1, <2>3, <2>4
  <2> QED
    BY <1>2, <2>1, <2>5
<1>5. ASSUME linkFlags(p.files)[i]
      PROVE  StoredLink(p, k)
  <2>1. PICK j \in (i + 1)..Len(p.files) : SameInode(p.files[i], p.files[j])
    BY <1>2, <1>5
  <2>2. j \in 1..Len(p.files) /\ i < j
    BY <1>1, <2>1
  <2>3. IsStored(p, j)
    <3>1. IsStored(p, i)
      BY <1>1 DEF IsStored
    <3> QED
      BY <1>1, <2>1, <2>2, <3>1, PayloadsAssumption DEF PayloadOK
  <2>4. PICK m \in 1..n : p.owner[m] = j - 1
    BY <2>3 DEF IsStored
  <2>5. p.owner[m] + 1 = j /\ p.owner[m] >= 0 /\ p.owner[m] # -1 /\ p.owner[k] < p.owner[m]
    BY <1>1, <2>2, <2>4
  <2>6. SameInode(F(k), F(m)) /\ SameInode(F(m), F(k))
    BY <2>1, <2>5, SameInodeSymmetric
  <2>7. ~(m < k) /\ m # k
    <3>1. ASSUME m < k PROVE FALSE
      <4>1. p.owner[m] < p.owner[k]
        BY <1>3, <2>5, <2>6, <3>1
      <4> QED
        BY <1>1, <2>2, <2>4, <2>5, <4>1
    <3> QED
      BY <1>1, <2>2, <2>5, <3>1
  <2>8. m \in (k + 1)..n
    BY <2>7
  <2>9. p.owner[k] >= 0
    BY <1>1
  <2> QED
    BY <2>5, <2>6, <2>8, <2>9 DEF StoredLink
<1> QED
  BY <1>4, <1>5 DEF StoredLink

(* The sizes of the table are those of the stored entries.                 *)
LEMMA SizeIsStoredSize ==
  ASSUME NEW p \in Payloads, NEW k \in 1..(Len(p.archive.entries) - 1), p.owner[k] # -1
  PROVE  fileSizes(p.files)[p.owner[k] + 1] = StoredSize(p, k)
<1> DEFINE i == p.owner[k] + 1
           f == p.files[i]
<1>1. i \in 1..Len(p.files)
  BY OwnerFacts
<1>2. linkFlags(p.files)[i] <=> StoredLink(p, k)
  BY LinkFlagIsStoredLink
<1>3. fileSizes(p.files)[i] =
        CASE f.type = "reg" -> IF linkFlags(p.files)[i] THEN 0 ELSE f.size
          [] f.type = "lnk" -> f.link
          [] OTHER          -> 0
  BY <1>1 DEF fileSizes
<1>4. StoredSize(p, k) =
        CASE f.type = "reg" -> IF StoredLink(p, k) THEN 0 ELSE f.size
          [] f.type = "lnk" -> f.link
          [] OTHER          -> 0
  BY DEF StoredSize
<1>5. CASE f.type = "reg"
  BY <1>2, <1>3, <1>4, <1>5
<1>6. CASE f.type # "reg"
  BY <1>3, <1>4, <1>6
<1> QED
  BY <1>5, <1>6

(* The sizes handed to the cpio reader.                                    *)
LEMMA FileSizesType ==
  ASSUME NEW p \in Payloads, p.files \in Seq(FileType)
  PROVE  fileSizes(p.files) \in Seq(Nat) /\ Len(fileSizes(p.files)) = Len(p.files)
<1>1. ASSUME NEW i \in 1..Len(p.files)
      PROVE  fileSizes(p.files)[i] \in Nat
  <2>1. p.files[i].size \in Nat /\ p.files[i].link \in Nat
    <3>1. p.files[i] \in FileType
      OBVIOUS
    <3> QED
      BY <3>1 DEF FileType
  <2> QED
    BY <2>1 DEF fileSizes
<1>2. Len(p.files) \in Nat
  OBVIOUS
<1>3. fileSizes(p.files) = [i \in 1..Len(p.files) |-> fileSizes(p.files)[i]]
  BY DEF fileSizes
<1> DEFINE g == fileSizes(p.files)
<1> HIDE DEF g
<1>4. g = [i \in 1..Len(p.files) |-> g[i]] /\ \A i \in 1..Len(p.files) : g[i] \in Nat
  BY <1>1, <1>3 DEF g
<1>5. g \in Seq(Nat) /\ Len(g) = Len(p.files)
  BY <1>2, <1>4
<1> QED
  BY <1>5 DEF g

(* The input of the cpio reader is a stream as CpioReader wants it: what   *)
(* newPayloadReader derives from the table fits the archive.               *)
LEMMA StreamsOK == \A s \in {cpioInput(p) : p \in Payloads} : CP!StreamOK(s)
<1> SUFFICES ASSUME NEW p \in Payloads PROVE CP!StreamOK(cpioInput(p))
  OBVIOUS
<1> DEFINE s == cpioInput(p)
           t == [s EXCEPT !.sizes = <<>>]
<1>1. CP!StreamOK(t) /\ p.files \in Seq(FileType)
  BY PayloadsAssumption, SameReader DEF PayloadOK
<1>2. /\ s.entries = p.archive.entries /\ s.sizes = fileSizes(p.files) /\ s.hasSizes = TRUE
      /\ t.entries = s.entries /\ t.len = s.len /\ t.fault = s.fault
  BY DEF cpioInput
<1>3. s.sizes \in Seq(Nat) /\ Len(s.sizes) = Len(p.files)
  BY <1>1, <1>2, FileSizesType
<1>4. ASSUME NEW i \in 1..Len(s.entries), s.entries[i].stripped,
             s.entries[i].index < Len(s.sizes)
      PROVE  s.sizes[s.entries[i].index + 1] = s.entries[i].len
  <2>1. i # Len(s.entries) /\ Len(s.entries) \in Nat /\ s.entries[i].index \in Nat
    <3>1. /\ s.entries \in Seq(CP!EntryType)
          /\ s.entries[i].trailer <=> (i = Len(s.entries))
          /\ s.entries[i].trailer => ~s.entries[i].stripped
      BY <1>1, <1>2, <1>4 DEF CP!StreamOK
    <3>2. s.entries[i] \in CP!EntryType /\ Len(s.entries) \in Nat
      BY <3>1
    <3> QED
      BY <1>4, <3>1, <3>2 DEF CP!EntryType
  <2>2. i \in 1..(Len(p.archive.entries) - 1)
    BY <1>2, <2>1
  <2>3. EntryFound(p, i) /\ Len(p.files) \in Nat
    BY <2>2, OwnerFacts
  <2>4. p.owner[i] # -1
    BY <1>2, <1>3, <1>4, <2>1, <2>3 DEF EntryFound
  <2>5. s.entries[i].index = p.owner[i] /\ s.entries[i].len = StoredSize(p, i)
    BY <1>2, <1>4, <2>3, <2>4 DEF EntryFound
  <2> QED
    BY <1>2, <2>2, <2>4, <2>5, SizeIsStoredSize
<1>5. s.hasSizes \in BOOLEAN
  BY <1>2
<1> HIDE DEF s, t
<1>6. CP!StreamOK(s)
  BY <1>1, <1>2, <1>3, <1>4, <1>5 DEF CP!StreamOK
<1> QED
  BY <1>6 DEF s

-----------------------------------------------------------------------------
(* A name is its anchor and its path.                                      *)
LEMMA NameFields ==
  ASSUME NEW a \in Name, NEW b \in Name, a.anchor = b.anchor, a.path = b.path
  PROVE  a = b
<1>1. ASSUME NEW S, NEW T, NEW c \in [anchor : S, path : T]
      PROVE  c = [anchor |-> c.anchor, path |-> c.path]
  BY <1>1
<1>2. /\ a = [anchor |-> a.anchor, path |-> a.path]
      /\ b = [anchor |-> b.anchor, path |-> b.path]
  BY <1>1, Zenon DEF Name
<1> QED
  BY <1>2, Zenon

(* Next finds the file an entry is, or none.                               *)
LEMMA LookupFinds ==
  ASSUME payload \in Payloads, stream = cpioInput(payload), NEW k \in Stored
  PROVE  /\ InTable(Lookup(k)) <=> payload.owner[k] # -1
         /\ InTable(Lookup(k)) => Lookup(k) = payload.owner[k]
<1> DEFINE p == payload
           own == p.owner[k]
           name == p.names[k]
<1>1. entries = p.archive.entries /\ k \in 1..(Len(p.archive.entries) - 1)
  BY DEF cpioInput, entries, Stored
<1>2. /\ p.files \in Seq(FileType) /\ Len(p.files) \in Nat
      /\ own \in -1..(Len(p.files) - 1) /\ name \in Name
      /\ own # -1 => own + 1 \in 1..Len(p.files) /\ p.files[own + 1] \in FileType
      /\ EntryFound(p, k)
  BY <1>1, OwnerFacts
<1>3. CASE entries[k].stripped
  <2>1. Lookup(k) = entries[k].index
    BY <1>3 DEF Lookup
  <2>2. entries[k].index \in Nat
    <3>1. CP!StreamOK(stream)
      BY StreamsOK
    <3>2. entries \in Seq(CP!EntryType) /\ Len(entries) \in Nat
      BY <3>1 DEF CP!StreamOK, entries
    <3>3. entries[k] \in CP!EntryType
      BY <1>1, <3>2
    <3> QED
      BY <3>3 DEF CP!EntryType
  <2>3. IF own = -1 THEN entries[k].index >= Len(p.files) ELSE entries[k].index = own
    BY <1>1, <1>2, <1>3 DEF EntryFound
  <2> QED
    BY <1>2, <2>1, <2>2, <2>3 DEF InTable, files
<1>4. CASE ~entries[k].stripped
  <2> DEFINE n == Trimmed(name)
             found == {i \in 1..Len(files) : files[i].name = n}
  <2>1. Lookup(k) = IF found = {} THEN -1 ELSE Max(found) - 1
    BY <1>4 DEF Lookup, fileMap, NotFound
  <2>2. n.path = name.path
    BY <1>2 DEF Trimmed, Name
  <2>3. CASE own = -1
    <3>1. \A i \in 1..Len(files) : files[i].name.path # name.path
      BY <1>1, <1>2, <1>4, <2>3 DEF EntryFound, files
    <3>2. found = {}
      BY <2>2, <3>1
    <3> QED
      BY <1>2, <2>1, <2>3, <3>2 DEF InTable, files
  <2>4. CASE own # -1
    <3> DEFINE f == p.files[own + 1]
    <3>1. /\ name.path = f.name.path
          /\ name.anchor \in IF f.name.anchor = "/" THEN {"/", "./"} ELSE {""}
      BY <1>1, <1>2, <1>4, <2>4 DEF EntryFound
    <3>2. f.name \in [anchor : {"", "/"}, path : STRING] /\ own + 1 \in 1..Len(files)
      BY <1>2, <2>4 DEF FileType, files
    <3>3. n = f.name
      <4>1. n.anchor = f.name.anchor /\ n \in Name /\ n.path = f.name.path
        BY <1>2, <2>2, <3>1, <3>2 DEF Trimmed, Name
      <4> HIDE DEF n, f
      <4>2. f.name \in Name /\ f.name.anchor = n.anchor /\ f.name.path = n.path
        BY <3>2, <4>1 DEF Name
      <4> QED
        BY <4>1, <4>2, NameFields
    <3>4. found = {own + 1}
      <4>1. \A i \in 1..Len(files) : i # own + 1 => files[i].name # f.name
        <5>1. \A i, j \in 1..Len(p.files) : i # j => p.files[i].name # p.files[j].name
          BY PayloadsAssumption, Zenon DEF PayloadOK
        <5> QED
          BY <3>2, <5>1 DEF files
      <4> QED
        BY <3>2, <3>3, <4>1 DEF files
    <3>5. Max({own + 1}) = own + 1
      BY <1>2 DEF Max
    <3>6. Lookup(k) = own
      <4> HIDE DEF found, own
      <4> QED
        BY <1>2, <2>1, <3>4, <3>5
    <3> QED
      BY <1>2, <2>4, <3>6 DEF InTable, files
  <2> QED
    BY <2>3, <2>4
<1> QED
  BY <1>3, <1>4

-----------------------------------------------------------------------------
(* A step of the payload reader is a step of the cpio reader, or leaves it *)
(* alone.                                                                  *)
LEMMA StepOfReader == [Next]_vars => [CP!Next]_(CP!vars)
<1> SUFFICES ASSUME [Next]_vars PROVE [CP!Next]_(CP!vars)
  OBVIOUS
<1>1. CASE Cpio!ReaderNext \/ Cpio!ReaderRead
  BY <1>1, SameReader DEF CP!Next
<1>2. CASE UNCHANGED cpioVars
  BY <1>2 DEF cpioVars, CP!vars
<1>3. \/ Cpio!ReaderNext \/ Cpio!ReaderRead \/ UNCHANGED cpioVars
  BY DEF Next, PayloadReaderExtended, NextCall, NextError, NextFile, NextUnknown,
         ReadCall, vars
<1> QED
  BY <1>1, <1>2, <1>3

(* So what is proved of the cpio reader holds of the one in use.           *)
LEMMA UsesReader == Spec => CP!Spec
<1>1. Init => CP!Init
  BY SameReader DEF Init, CP!Init
<1> QED
  BY <1>1, StepOfReader, PTL DEF Spec, CP!Spec

(* The invariants of the cpio reader.                                      *)
CpioInv == CP!IInv /\ CP!SyncInv /\ CP!ReadableInv /\ CP!EndInv

(* The cpio reader inside satisfies its own invariants, since every step   *)
(* of the payload reader is one of its steps or leaves it alone.           *)
LEMMA CpioInvariance == Spec => []CpioInv
<1>1. /\ CP!Spec => []CP!IInv
      /\ CP!Spec => []CP!SyncInv
      /\ CP!Spec => []CP!ReadableInv
      /\ CP!Spec => []CP!EndInv
  BY StreamsOK, MaxBufAssumption, CP!Invariance, CP!Synchronised, CP!Readable, CP!NothingAfterEnd
<1> QED
  BY <1>1, UsesReader, PTL DEF CpioInv

-----------------------------------------------------------------------------
(* The file Next has returned is the one the current entry is, and the     *)
(* decompressor is open until the cpio reader has nothing more to give.    *)
OwnInv ==
  /\ payload \in Payloads /\ TypeOK
  /\ seen \in 0..(Len(entries) - 1)
  /\ trailer => seen = Len(entries) - 1
  /\ named <=> seen > 0 /\ payload.owner[seen] # -1
  /\ dec = "closed" => failed \/ trailer

(* What a call of the cpio reader's Next does.                             *)
LEMMA NextOutcome ==
  ASSUME CpioInv, OwnInv, Cpio!ReaderNext
  PROVE  /\ stream' = stream /\ entries' = entries
         /\ \/ /\ result'.err # "nil" /\ failed' = TRUE
               /\ UNCHANGED <<cur, out, seen, trailer>>
            \/ /\ result'.err # "nil" /\ trailer' = TRUE /\ seen = Len(entries) - 1
               /\ UNCHANGED <<cur, out, seen, failed>>
            \/ /\ result'.err = "nil" /\ ~trailer /\ ~failed
               /\ seen + 1 \in 1..(Len(entries) - 1)
               /\ cur'.ent = seen + 1 /\ seen' = seen + 1 /\ out' = <<>>
               /\ UNCHANGED <<trailer, failed>>
<1> DEFINE r == CP!ReadNextEntry
<1>1. r = CP!ReadNextEntry
  OBVIOUS
<1> HIDE DEF r
<1>2. CP!IInv /\ CP!SyncInv /\ CP!EndInv /\ CP!ReaderNext
  BY SameReader DEF CpioInv
<1>3. /\ CP!ReadOutcome(r) /\ stream' = stream
      /\ \/ /\ r.err # "nil"
            /\ result' = [op |-> "Next", err |-> r.err] /\ failed' = TRUE
            /\ UNCHANGED <<cur, out, seen, trailer>>
         \/ /\ r.err = "nil" /\ CP!entries[r.file.ent].trailer
            /\ result' = [op |-> "Next", err |-> "EOF"] /\ trailer' = TRUE
            /\ UNCHANGED <<cur, out, seen, failed>>
         \/ /\ r.err = "nil" /\ ~CP!entries[r.file.ent].trailer
            /\ cur' = r.file /\ result' = [op |-> "Next", err |-> "nil"]
            /\ out' = <<>> /\ seen' = seen + 1 /\ UNCHANGED <<trailer, failed>>
  BY <1>1, <1>2, StreamsOK, MaxBufAssumption, CP!ReaderNextCases
<1>4. failed \/ trailer => seen' = seen
  BY <1>2, StreamsOK, MaxBufAssumption, CP!EndNext
<1>5. entries' = entries /\ CP!entries = entries
  BY <1>3 DEF entries, CP!entries
<1>6. CASE r.err # "nil" /\ result' = [op |-> "Next", err |-> r.err]
           /\ failed' = TRUE /\ UNCHANGED <<cur, out, seen, trailer>>
  BY <1>3, <1>5, <1>6
<1>7. CASE r.err = "nil"
  <2>1. /\ ~trailer /\ seen + 1 \in 1..Len(entries) /\ r.file.ent = seen + 1
    BY <1>3, <1>5, <1>7 DEF CP!ReadOutcome, CP!IsNextFile
  <2>2. entries[seen + 1].trailer <=> (seen + 1 = Len(entries))
    <3>1. CP!StreamOK(stream)
      BY StreamsOK DEF OwnInv, TypeOK
    <3> QED
      BY <2>1, <3>1 DEF CP!StreamOK, entries
  <2>3. seen \in Nat /\ Len(entries) \in Nat
    <3>1. stream \in {cpioInput(p) : p \in Payloads}
      BY DEF OwnInv, TypeOK
    <3>2. CP!StreamOK(stream)
      BY <3>1, StreamsOK
    <3> QED
      BY <3>2 DEF CpioInv, CP!IInv, CP!TypeOK, CP!StreamOK, entries
  <2>4. CASE entries[seen + 1].trailer
    <3>1. /\ result' = [op |-> "Next", err |-> "EOF"] /\ trailer' = TRUE
          /\ UNCHANGED <<cur, out, seen, failed>>
      BY <1>3, <1>5, <1>7, <2>1, <2>4
    <3>2. result'.err # "nil"
      BY <3>1
    <3>3. seen = Len(entries) - 1
      BY <2>2, <2>3, <2>4
    <3> QED
      BY <1>3, <1>5, <3>1, <3>2, <3>3, Zenon
  <2>5. CASE ~entries[seen + 1].trailer
    <3>1. /\ cur' = r.file /\ result' = [op |-> "Next", err |-> "nil"]
          /\ out' = <<>> /\ seen' = seen + 1 /\ UNCHANGED <<trailer, failed>>
      BY <1>3, <1>5, <1>7, <2>1, <2>5
    <3>2. ~failed
      BY <1>4, <2>3, <3>1
    <3>3. seen + 1 \in 1..(Len(entries) - 1)
      BY <2>1, <2>2, <2>3, <2>5
    <3> QED
      BY <1>3, <1>5, <2>1, <3>1, <3>2, <3>3
  <2> QED
    BY <2>4, <2>5
<1> QED
  BY <1>3, <1>6, <1>7

(* The types of an index into the table.                                   *)
LEMMA IndexType ==
  ASSUME payload \in Payloads, stream = cpioInput(payload), NEW k \in Stored,
         InTable(Lookup(k))
  PROVE  Lookup(k) = payload.owner[k] /\ Lookup(k) \in Nat /\ Lookup(k) < Len(files)
<1>1. files \in Seq(FileType)
  BY PayloadsAssumption DEF PayloadOK, files
<1> QED
  BY <1>1, LookupFinds DEF InTable

(* The initial states.                                                     *)
LEMMA InitOwn == Init => OwnInv
<1> SUFFICES ASSUME Init PROVE OwnInv
  OBVIOUS
<1>1. /\ payload \in Payloads /\ stream = cpioInput(payload) /\ index = 0
      /\ phase = "start" /\ dec = "none" /\ named = FALSE
      /\ seen = 0 /\ trailer = FALSE
  BY DEF Init, Cpio!NewReaderWithSizes
<1>2. files \in Seq(FileType) /\ Len(entries) \in Nat \ {0}
  <2>1. CP!StreamOK(stream)
    BY <1>1, StreamsOK
  <2>2. files \in Seq(FileType)
    BY <1>1, PayloadsAssumption DEF PayloadOK, files
  <2> QED
    BY <2>1, <2>2 DEF CP!StreamOK, entries
<1>3. TypeOK
  <2>1. files # <<>> => Len(files) > 0
    BY <1>2
  <2> QED
    BY <1>1, <2>1 DEF TypeOK
<1> QED
  BY <1>1, <1>2, <1>3 DEF OwnInv

(* Every operation.                                                        *)
LEMMA StepOwn ==
  ASSUME CpioInv, OwnInv, [Next]_vars
  PROVE  OwnInv'
<1>1. /\ payload \in Payloads /\ stream = cpioInput(payload)
      /\ seen \in 0..(Len(entries) - 1) /\ TypeOK
  BY DEF OwnInv, TypeOK
<1>2. Len(entries) \in Nat \ {0} /\ seen \in Nat
  <2>1. CP!StreamOK(stream)
    BY <1>1, StreamsOK
  <2>2. Len(entries) \in Nat \ {0}
    BY <2>1 DEF CP!StreamOK, entries
  <2> QED
    BY <1>1, <2>2
<1>3. CASE PayloadReaderExtended
  <2>1. /\ UNCHANGED <<stream, seen, trailer, failed, payload, index, named>>
        /\ phase' \in {"reading", "failed"} /\ (dec' = dec \/ dec' = "open")
    BY <1>3 DEF PayloadReaderExtended, cpioVars
  <2> QED
    BY <2>1 DEF OwnInv, TypeOK, files, entries
<1>4. CASE NextError
  <2>1. /\ Cpio!ReaderNext /\ result'.err # "nil" /\ UNCHANGED <<payload, phase, index, named>>
        /\ dec' = dec \/ dec' = Closed
    BY <1>4 DEF NextError
  <2>2. /\ stream' = stream /\ entries' = entries /\ seen' = seen
        /\ \/ failed' = TRUE /\ trailer' = trailer
           \/ failed' = failed /\ trailer' = TRUE /\ seen = Len(entries) - 1
    BY <2>1, NextOutcome
  <2>3. dec' \in {"none", "open", "closed"} /\ (dec' = dec \/ dec' = "closed")
    BY <1>1, <2>1 DEF Closed, TypeOK
  <2>4. TypeOK'
    BY <2>1, <2>2, <2>3, <1>1 DEF TypeOK, files
  <2>5. named' <=> seen' > 0 /\ payload'.owner[seen'] # -1
    BY <2>1, <2>2 DEF OwnInv
  <2>6. failed' \/ trailer'
    BY <2>2
  <2> QED
    BY <2>1, <2>2, <2>4, <2>5, <2>6 DEF OwnInv
<1>5. CASE NextFile \/ NextUnknown
  <2>1. Cpio!ReaderNext /\ result'.err = "nil" /\ UNCHANGED <<payload, phase, dec>>
    BY <1>5 DEF NextFile, NextUnknown
  <2>2. /\ stream' = stream /\ entries' = entries /\ ~trailer /\ ~failed
        /\ seen + 1 \in 1..(Len(entries) - 1)
        /\ cur'.ent = seen + 1 /\ seen' = seen + 1
        /\ trailer' = trailer /\ failed' = failed
    BY <2>1, NextOutcome
  <2>3. seen + 1 \in Stored
    BY <2>2 DEF Stored
  <2>4. InTable(Lookup(seen + 1)) <=> payload.owner[seen + 1] # -1
    BY <1>1, <2>3, LookupFinds
  <2>5. CASE NextFile
    <3>1. /\ InTable(Lookup(seen + 1)) /\ index' = Lookup(seen + 1) /\ named' = TRUE
      BY <2>2, <2>5 DEF NextFile
    <3>2. index' = payload.owner[seen + 1] /\ index' \in Nat /\ index' < Len(files)
      BY <1>1, <2>3, <3>1, IndexType
    <3>3. TypeOK'
      BY <1>1, <2>1, <2>2, <3>1, <3>2 DEF TypeOK, files
    <3>4. seen' \in 0..(Len(entries) - 1) /\ seen' > 0
      BY <1>2, <2>2
    <3>5. dec' # "closed"
      BY <2>1, <2>2 DEF OwnInv
    <3> QED
      BY <1>1, <2>1, <2>2, <2>4, <3>1, <3>2, <3>3, <3>4, <3>5 DEF OwnInv
  <2>6. CASE NextUnknown
    <3>1. ~InTable(Lookup(seen + 1)) /\ index' = index /\ named' = FALSE
      BY <2>2, <2>6 DEF NextUnknown
    <3>2. TypeOK'
      BY <1>1, <2>1, <2>2, <3>1 DEF TypeOK, files
    <3>3. seen' \in 0..(Len(entries) - 1) /\ seen' > 0
      BY <1>2, <2>2
    <3>4. dec' # "closed"
      BY <2>1, <2>2 DEF OwnInv
    <3> QED
      BY <1>1, <2>1, <2>2, <2>4, <3>1, <3>2, <3>3, <3>4 DEF OwnInv
  <2> QED
    BY <1>5, <2>5, <2>6
<1>6. CASE ReadCall
  <2>1. UNCHANGED <<stream, seen, trailer, failed>>
    BY <1>6 DEF ReadCall, Cpio!ReaderRead, Cpio!ReadNil, Cpio!ReadNothing, Cpio!ReadBytes
  <2>2. UNCHANGED ownVars
    BY <1>6 DEF ReadCall
  <2> QED
    BY <2>1, <2>2 DEF OwnInv, TypeOK, files, entries, ownVars
<1>7. CASE UNCHANGED vars
  BY <1>7 DEF OwnInv, TypeOK, files, entries, vars, ownVars, cpioVars
<1> QED
  BY <1>3, <1>4, <1>5, <1>6, <1>7 DEF Next, NextCall

(* The inductive invariant.                                                *)
THEOREM Invariance == Spec => [](CpioInv /\ OwnInv)
<1>1. CpioInv /\ OwnInv /\ [Next]_vars => OwnInv'
  BY StepOwn
<1> QED
  BY <1>1, InitOwn, CpioInvariance, PTL DEF Spec

(* index is always the place of a file in the table, so that IsLink finds  *)
(* a flag also after an entry that has no file, and the file Next has      *)
(* returned is the one the current entry is (payload.go:93-111).           *)
THEOREM TypeCorrect == Spec => []TypeOK
<1>1. OwnInv => TypeOK
  BY DEF OwnInv
<1> QED
  BY <1>1, Invariance, PTL

(* A complete package is read to its end: Next fails for the first time at *)
(* the trailer, when it has returned every file (payload.go:81-112).       *)
THEOREM PackageRead == Spec => []CompletePackageReadable
<1>1. ASSUME CpioInv, OwnInv, Complete, failed \/ trailer
      PROVE  trailer /\ seen = Len(entries) - 1
  <2>1. payload \in Payloads /\ stream = cpioInput(payload)
    BY <1>1 DEF OwnInv, TypeOK
  <2>2. CP!StreamOK(stream)
    BY <2>1, StreamsOK
  <2>3. /\ Len(entries) \in Nat \ {0} /\ entries = payload.archive.entries
        /\ stream.hasSizes /\ stream.sizes = fileSizes(files)
        /\ files \in Seq(FileType)
    <3>1. files \in Seq(FileType)
      BY <2>1, PayloadsAssumption DEF PayloadOK, files
    <3>2. Len(entries) \in Nat \ {0}
      BY <2>2 DEF CP!StreamOK, entries
    <3> QED
      BY <2>1, <3>1, <3>2 DEF cpioInput, entries, files
  <2>4. Len(stream.sizes) = Len(files) /\ Len(files) \in Nat
    BY <2>1, <2>3, FileSizesType DEF files
  <2>5. ASSUME NEW i \in 1..Len(entries), entries[i].stripped
        PROVE  stream.hasSizes /\ entries[i].index < Len(stream.sizes)
    <3>1. i # Len(entries)
      BY <2>2, <2>5 DEF CP!StreamOK, entries
    <3>2. i \in Stored
      BY <2>3, <3>1 DEF Stored
    <3>3. payload.owner[i] >= 0 /\ EntryFound(payload, i)
          /\ payload.owner[i] \in -1..(Len(files) - 1)
      BY <1>1, <2>1, <2>3, <3>2, OwnerFacts DEF Complete, Stored, files
    <3>4. entries[i].index = payload.owner[i]
      BY <2>3, <2>5, <3>3 DEF EntryFound
    <3> QED
      BY <2>3, <2>4, <3>3, <3>4
  <2>6. CP!WholeArchive
    BY <1>1, <2>5 DEF CP!WholeArchive, CP!entries, entries, Complete
  <2> QED
    BY <1>1, <2>6 DEF CpioInv, CP!ReadableInv, CP!entries, entries
<1>2. CpioInv /\ OwnInv => CompletePackageReadable
  BY <1>1 DEF CompletePackageReadable
<1> QED
  BY <1>2, Invariance, PTL

(* Once Next has closed the decompressor, no call returns another file or  *)
(* another byte (payload.go:86-91): it closes it only when the cpio reader *)
(* is at its trailer or has failed, and neither is ever left.              *)
THEOREM ClosedIsOver == Spec => NothingAfterClose
<1> DEFINE Step == dec = "closed" => seen' = seen /\ out' = out
<1>1. CpioInv /\ OwnInv /\ [Next]_vars => [Step]_vars
  <2> SUFFICES ASSUME CpioInv, OwnInv, Next, dec = "closed"
               PROVE  seen' = seen /\ out' = out
    OBVIOUS
  <2>1. /\ CP!IInv /\ CP!SyncInv /\ CP!EndInv /\ (failed \/ trailer)
    BY DEF CpioInv, OwnInv
  <2>2. CASE Cpio!ReaderNext
    BY <2>1, <2>2, SameReader, StreamsOK, MaxBufAssumption, CP!EndNext
  <2>3. CASE Cpio!ReaderRead
    BY <2>1, <2>3, SameReader, StreamsOK, MaxBufAssumption, CP!EndRead
  <2>4. CASE UNCHANGED cpioVars
    BY <2>4 DEF cpioVars
  <2> QED
    BY <2>2, <2>3, <2>4
       DEF Next, PayloadReaderExtended, NextCall, NextError, NextFile, NextUnknown, ReadCall
<1> QED
  BY <1>1, Invariance, PTL DEF Spec, NothingAfterClose

-----------------------------------------------------------------------------
(* What has been read of the current file is a part of its contents.       *)
LEMMA ReadIsPrefix ==
  ASSUME CpioInv, OwnInv, seen > 0
  PROVE  /\ out \in Seq(Nat) /\ Len(out) \in Nat
         /\ entries[seen].len \in Nat /\ entries[seen].data \in Nat
         /\ Len(out) <= entries[seen].len
         /\ \A i \in 1..Len(out) : out[i] = entries[seen].data + i - 1
<1>1. CP!IInv /\ CP!StreamOK(stream) /\ seen \in 0..(Len(entries) - 1)
  BY StreamsOK DEF CpioInv, OwnInv, TypeOK
<1>2. out \in Seq(Nat) /\ Len(out) \in Nat
  BY <1>1 DEF CP!IInv, CP!TypeOK
<1>3. Len(entries) \in Nat /\ entries \in Seq(CP!EntryType)
  BY <1>1 DEF CP!StreamOK, entries
<1>4. seen \in 1..Len(entries) /\ seen \in 1..(Len(entries) - 1)
  BY <1>1, <1>3
<1>5. entries[seen] \in CP!EntryType
  BY <1>3, <1>4
<1>6. entries[seen].len \in Nat /\ entries[seen].data \in Nat
  BY <1>5 DEF CP!EntryType
<1>7. out # <<>> => /\ Len(out) <= entries[seen].len
                    /\ \A i \in 1..Len(out) : out[i] = entries[seen].data + i - 1
  BY <1>1, StreamsOK, MaxBufAssumption, CP!PrefixDelivered
     DEF CP!DeliversFilePrefix, CP!entries, entries
<1>8. CASE out = <<>>
  BY <1>2, <1>6, <1>8
<1> QED
  BY <1>2, <1>6, <1>7, <1>8

-----------------------------------------------------------------------------
(* A set of places in the archive has a last one.                          *)
LEMMA LastPlace ==
  ASSUME NEW n \in Nat, NEW S, S \subseteq 1..n, S # {}
  PROVE  \E k \in S : \A m \in S : m <= k
<1> DEFINE T == {n - m : m \in S}
<1>1. T \subseteq Nat /\ T # {}
  <2>1. ASSUME NEW m \in S PROVE n - m \in Nat
    <3>1. m \in 1..n
      OBVIOUS
    <3> QED
      BY <3>1
  <2>2. T \subseteq Nat
    BY <2>1
  <2>3. PICK m : m \in S
    OBVIOUS
  <2>4. n - m \in T
    BY <2>3
  <2> QED
    BY <2>2, <2>4
<1>2. PICK x \in T : \A y \in T : ~(<<y, x>> \in OpToRel(<, Nat))
  <2> HIDE DEF T
  <2> QED
    BY <1>1, NatLessThanWellFounded, WFMin
<1>3. ASSUME NEW y \in T PROVE x <= y
  <2> HIDE DEF T
  <2>1. x \in Nat /\ y \in Nat
    BY <1>1, <1>2
  <2>2. <<y, x>> \notin OpToRel(<, Nat)
    BY <1>2
  <2> QED
    BY <2>1, <2>2 DEF OpToRel
<1>4. PICK k \in S : x = n - k
  OBVIOUS
<1>5. ASSUME NEW m \in S PROVE m <= k
  <2>1. x <= n - m /\ m \in 1..n /\ k \in 1..n
    BY <1>3
  <2> QED
    BY <1>4, <2>1
<1> QED
  BY <1>5

(* payload.go:119: if IsLink is true of the file Next returned, a later    *)
(* file with its inode, of which IsLink is false, has the contents.        *)
THEOREM LinkedContents == Spec => []LinkContentsFollow
<1>1. ASSUME CpioInv, OwnInv, named, IsLink
      PROVE  \E k \in Stored :
               LET i == payload.owner[k] + 1 IN
               /\ k > seen /\ i > 0
               /\ files[i].inode = files[index + 1].inode
               /\ ~linkFlags(files)[i]
               /\ entries[k].len = files[index + 1].size
  <2> DEFINE p == payload
             n == Len(p.archive.entries) - 1
             F(m) == p.files[p.owner[m] + 1]
             G == {m \in (seen + 1)..n : p.owner[m] >= 0 /\ SameInode(F(seen), F(m))}
  <2>1. /\ p \in Payloads /\ stream = cpioInput(p) /\ CP!StreamOK(stream)
        /\ entries = p.archive.entries /\ files = p.files
    BY <1>1, StreamsOK DEF OwnInv, TypeOK, cpioInput, entries, files
  <2>2. /\ Len(entries) \in Nat \ {0} /\ n \in Nat /\ Stored = 1..n
        /\ n = Len(entries) - 1
    BY <2>1 DEF CP!StreamOK, entries, Stored
  <2>3. seen \in 1..n /\ p.owner[seen] # -1 /\ index = p.owner[seen]
    BY <1>1, <2>2 DEF OwnInv, TypeOK
  <2>4. StoredLink(p, seen)
    BY <1>1, <2>1, <2>3, LinkFlagIsStoredLink DEF IsLink
  <2>5. G # {} /\ G \subseteq 1..n
    BY <2>3, <2>4 DEF StoredLink
  <2>6. PICK k \in G : \A m \in G : m <= k
    <3> HIDE DEF G, n
    <3> QED
      BY <2>2, <2>5, LastPlace
  <2>7. k \in 1..n /\ k > seen /\ p.owner[k] >= 0 /\ SameInode(F(seen), F(k))
    BY <2>3, <2>6
  <2>8. /\ p.owner[k] \in Int /\ p.owner[k] # -1 /\ EntryFound(p, k)
        /\ p.owner[k] + 1 \in 1..Len(p.files) /\ p.owner[seen] + 1 \in 1..Len(p.files)
    BY <2>1, <2>3, <2>7, OwnerFacts
  <2>9. ~StoredLink(p, k)
    <3> SUFFICES ASSUME NEW m \in (k + 1)..n, p.owner[m] >= 0, SameInode(F(k), F(m))
                 PROVE  FALSE
      BY DEF StoredLink
    <3>1. SameInode(F(seen), F(m))
      BY <2>7 DEF SameInode
    <3>2. m \in (seen + 1)..n /\ m > k
      BY <2>3, <2>7
    <3> QED
      BY <2>6, <2>7, <3>1, <3>2
  <2>10. ~linkFlags(files)[p.owner[k] + 1]
    BY <2>1, <2>7, <2>8, <2>9, LinkFlagIsStoredLink
  <2>11. entries[k].len = F(k).size
    <3>1. entries[k].len = StoredSize(p, k)
      BY <2>1, <2>8 DEF EntryFound
    <3>2. F(k).type = "reg"
      BY <2>7 DEF SameInode
    <3> QED
      BY <2>9, <3>1, <3>2 DEF StoredSize
  <2>12. F(k).size = F(seen).size /\ F(k).inode = F(seen).inode
    <3>1. F(k).size = F(seen).size
      <4>1. \A i, j \in 1..Len(p.files) :
              SameInode(p.files[i], p.files[j]) => p.files[i].size = p.files[j].size
        <5>1. PayloadOK(p)
          BY <2>1, PayloadsAssumption
        <5> QED
          BY <5>1, Zenon DEF PayloadOK
      <4> QED
        BY <2>1, <2>7, <2>8, <4>1
    <3> QED
      BY <2>7, <3>1 DEF SameInode, inode64
  <2>13. p.owner[k] + 1 > 0 /\ k \in Stored
    BY <2>2, <2>7, <2>8
  <2> QED
    BY <2>1, <2>3, <2>7, <2>10, <2>11, <2>12, <2>13
<1>2. CpioInv /\ OwnInv => LinkContentsFollow
  BY <1>1 DEF LinkContentsFollow
<1> QED
  BY <1>2, Invariance, PTL

-----------------------------------------------------------------------------
(* The refinement.  What a caller sees at any moment is the file of the    *)
(* package that Next has come to, and a part of its bytes.                 *)
Shown ==
  LET s == StoredFiles(payload)[seen] IN
  /\ Len(StoredFiles(payload)) = Len(entries) - 1
  /\ seen = 0 => out = <<>>
  /\ seen > 0 =>
       /\ s.file = IF named THEN index ELSE -1
       /\ s.link = (named /\ IsLink)
       /\ Len(out) <= Len(s.bytes)
       /\ out = SubSeq(s.bytes, 1, Len(out))

(* What the caller is shown follows from the invariants.                   *)
LEMMA ShownHolds == CpioInv /\ OwnInv => Shown
<1> SUFFICES ASSUME CpioInv, OwnInv PROVE Shown
  OBVIOUS
<1> DEFINE p == payload
           n == Len(p.archive.entries) - 1
           s == StoredFiles(p)[seen]
<1>1. /\ p \in Payloads /\ stream = cpioInput(p) /\ CP!StreamOK(stream)
      /\ entries = p.archive.entries /\ files = p.files /\ named \in BOOLEAN
  BY StreamsOK DEF OwnInv, TypeOK, cpioInput, entries, files
<1>2. Len(entries) \in Nat \ {0} /\ n \in Nat /\ n = Len(entries) - 1
  BY <1>1 DEF CP!StreamOK, entries
<1>3. Len(StoredFiles(p)) = Len(entries) - 1
  <2>1. StoredFiles(p) = [k \in 1..n |-> StoredFiles(p)[k]]
    BY DEF StoredFiles
  <2> HIDE DEF n
  <2>2. ASSUME NEW g, g = [k \in 1..n |-> g[k]] PROVE Len(g) = n
    BY <1>2, <2>2
  <2> QED
    BY <1>2, <2>1, <2>2
<1>4. seen = 0 => out = <<>>
  BY StreamsOK, MaxBufAssumption, CP!PrefixDelivered
     DEF CpioInv, CP!DeliversFilePrefix
<1>5. ASSUME seen > 0
      PROVE  /\ s.file = IF named THEN index ELSE -1
             /\ s.link = (named /\ IsLink)
             /\ Len(out) <= Len(s.bytes)
             /\ out = SubSeq(s.bytes, 1, Len(out))
  <2> DEFINE e == p.archive.entries[seen]
  <2>1. seen \in 1..n
    BY <1>2, <1>5 DEF OwnInv
  <2>2. s = [file |-> p.owner[seen], link |-> StoredLink(p, seen),
             bytes |-> [i \in 1..e.len |-> e.data + i - 1]]
    BY <2>1 DEF StoredFiles
  <2>3. p.owner[seen] \in Int
    BY <1>1, <2>1, OwnerFacts
  <2>4. s.file = IF named THEN index ELSE -1
    BY <1>5, <2>2, <2>3 DEF OwnInv, TypeOK
  <2>5. s.link = (named /\ IsLink)
    <3>1. CASE named
      <4>1. p.owner[seen] # -1 /\ index = p.owner[seen]
        BY <3>1 DEF OwnInv, TypeOK
      <4>2. linkFlags(p.files)[p.owner[seen] + 1] <=> StoredLink(p, seen)
        BY <1>1, <2>1, <4>1, LinkFlagIsStoredLink
      <4>3. StoredLink(p, seen) \in BOOLEAN
        BY DEF StoredLink
      <4>4. IsLink <=> StoredLink(p, seen)
        BY <1>1, <4>1, <4>2 DEF IsLink
      <4>5. s.link = StoredLink(p, seen)
        BY <2>2
      <4> QED
        BY <3>1, <4>3, <4>4, <4>5, Zenon
    <3>2. CASE ~named
      <4>1. p.owner[seen] = -1
        BY <1>5, <3>2 DEF OwnInv
      <4>2. ~StoredLink(p, seen) /\ StoredLink(p, seen) \in BOOLEAN
        BY <4>1 DEF StoredLink
      <4>3. s.link = StoredLink(p, seen)
        BY <2>2
      <4> QED
        BY <3>2, <4>2, <4>3, Zenon
    <3> QED
      BY <3>1, <3>2
  <2>6. /\ out \in Seq(Nat) /\ Len(out) \in Nat /\ e.len \in Nat /\ e.data \in Nat
        /\ Len(out) <= e.len /\ \A i \in 1..Len(out) : out[i] = e.data + i - 1
    BY <1>1, <1>5, ReadIsPrefix
  <2>7. s.bytes = [i \in 1..e.len |-> e.data + i - 1]
    BY <2>2
  <2> DEFINE b == s.bytes
  <2> HIDE DEF s, e, b
  <2>8. b = [i \in 1..e.len |-> e.data + i - 1]
    BY <2>7 DEF b
  <2>9. b \in Seq(Nat) /\ Len(b) = e.len /\ \A i \in 1..e.len : b[i] = e.data + i - 1
    BY <2>6, <2>8
  <2>10. SubSeq(b, 1, Len(out)) \in Seq(Nat) /\ Len(SubSeq(b, 1, Len(out))) = Len(out)
    BY <2>6, <2>9
  <2>11. \A i \in 1..Len(out) : SubSeq(b, 1, Len(out))[i] = out[i]
    BY <2>6, <2>9
  <2>12. out = SubSeq(b, 1, Len(out))
    BY <2>6, <2>10, <2>11, SeqEqual
  <2> QED
    BY <2>4, <2>5, <2>6, <2>9, <2>12 DEF b
<1> QED
  BY <1>3, <1>4, <1>5 DEF Shown

(* Read only ever adds to what it has delivered.                           *)
LEMMA ReadExtends ==
  ASSUME CpioInv, OwnInv, Cpio!ReaderRead
  PROVE  UNCHANGED <<stream, seen, trailer, failed>> /\ Len(out) <= Len(out')
<1>1. UNCHANGED <<stream, seen, trailer, failed>>
  BY DEF Cpio!ReaderRead, Cpio!ReadNil, Cpio!ReadNothing, Cpio!ReadBytes
<1>2. /\ out \in Seq(Nat) /\ Len(out) \in Nat /\ curPos \in Nat
      /\ cur.curr_pos \in Nat /\ cur.size \in Nat
  <2>1. CP!TypeOK /\ CP!StreamOK(stream)
    BY StreamsOK DEF CpioInv, CP!IInv, OwnInv, TypeOK
  <2>2. stream.len \in Nat
    BY <2>1 DEF CP!StreamOK
  <2> QED
    BY <2>1, <2>2 DEF CP!TypeOK
<1>3. CASE Cpio!ReadNil \/ Cpio!ReadNothing
  <2>1. out' = out
    BY <1>3 DEF Cpio!ReadNil, Cpio!ReadNothing
  <2> QED
    BY <1>1, <1>2, <2>1
<1>4. ASSUME NEW n \in 1..MaxBuf, Cpio!ReadBytes(n)
      PROVE  Len(out) <= Len(out')
  <2>1. n \in Nat
    BY MaxBufAssumption
  <2>2. PICK k \in 0..Cpio!Trim(n, cur) : out' = out \o [i \in 1..k |-> curPos + i - 1]
    BY <1>4 DEF Cpio!ReadBytes
  <2>3. k \in Nat
    BY <1>2, <2>1, <2>2 DEF Cpio!Trim
  <2> DEFINE g == [i \in 1..k |-> curPos + i - 1]
  <2>4. g \in Seq(Int) /\ Len(g) = k
    BY <1>2, <2>3
  <2>5. out \in Seq(Int)
    BY <1>2
  <2> HIDE DEF g
  <2>6. Len(out \o g) = Len(out) + k
    BY <2>4, <2>5, ConcatProperties
  <2> QED
    BY <1>2, <2>2, <2>3, <2>6 DEF g
<1> QED
  BY <1>1, <1>3, <1>4 DEF Cpio!ReaderRead

(* Every step of the reader is a step of PayloadFiles or changes nothing   *)
(* of it.                                                                  *)
LEMMA StepShown ==
  ASSUME CpioInv, OwnInv, Shown, Shown', OwnInv', [Next]_vars
  PROVE  [PF!Next]_(PF!vars)
<1> DEFINE A == StoredFiles(payload)
<1>1. /\ Len(A) = Len(entries) - 1 /\ seen \in 0..(Len(entries) - 1)
      /\ Len(entries) \in Nat \ {0}
  <2>1. CP!StreamOK(stream)
    BY StreamsOK DEF OwnInv, TypeOK
  <2> QED
    BY <2>1 DEF Shown, OwnInv, CP!StreamOK, entries
<1>2. CASE PayloadReaderExtended \/ UNCHANGED vars
  <2>1. UNCHANGED <<payload, seen, index, named, out, trailer>>
    BY <1>2 DEF PayloadReaderExtended, vars, cpioVars, ownVars
  <2> QED
    BY <2>1 DEF PF!vars, StoredFiles, IsLink, files
<1>3. CASE NextError
  <2>1. Cpio!ReaderNext /\ result'.err # "nil" /\ UNCHANGED <<payload, index, named>>
    BY <1>3 DEF NextError
  <2>2. /\ seen' = seen /\ out' = out
        /\ trailer' = trailer \/ (trailer' = TRUE /\ seen = Len(entries) - 1)
    BY <2>1, NextOutcome
  <2>3. CASE trailer' = trailer
    BY <2>1, <2>2, <2>3 DEF PF!vars, StoredFiles, IsLink, files
  <2>4. CASE trailer' = TRUE /\ seen = Len(entries) - 1
    <3>1. PF!End
      BY <1>1, <2>1, <2>2, <2>4 DEF PF!End, IsLink, files
    <3> QED
      BY <3>1 DEF PF!Next
  <2> QED
    BY <2>2, <2>3, <2>4
<1>4. CASE NextFile \/ NextUnknown
  <2>1. Cpio!ReaderNext /\ result'.err = "nil" /\ payload' = payload
    BY <1>4 DEF NextFile, NextUnknown
  <2>2. /\ entries' = entries /\ seen + 1 \in 1..(Len(entries) - 1)
        /\ seen' = seen + 1 /\ out' = <<>> /\ trailer' = trailer
    BY <2>1, NextOutcome
  <2>3. seen' > 0 /\ seen < Len(A)
    BY <1>1, <2>2
  <2>4. /\ A[seen + 1].file = (IF named THEN index ELSE -1)'
        /\ A[seen + 1].link = (named /\ IsLink)'
    BY <2>1, <2>2, <2>3, Zenon DEF Shown
  <2>5. PF!NextFile
    BY <2>1, <2>2, <2>3, <2>4, Zenon DEF PF!NextFile
  <2> QED
    BY <2>5 DEF PF!Next
<1>5. CASE ReadCall
  <2>1. UNCHANGED <<payload, phase, dec, index, named>> /\ Cpio!ReaderRead
    BY <1>5 DEF ReadCall, ownVars
  <2>2. UNCHANGED <<stream, seen, trailer, failed>> /\ Len(out) <= Len(out')
    BY <2>1, ReadExtends
  <2>3. CASE seen = 0
    <3>1. out = <<>> /\ out' = <<>>
      BY <2>2, <2>3 DEF Shown
    <3> QED
      BY <2>1, <2>2, <3>1 DEF PF!vars, StoredFiles, IsLink, files
  <2>4. CASE seen # 0
    <3>1. seen > 0
      BY <1>1, <2>4
    <3>2. out' = SubSeq(A[seen].bytes, 1, Len(out')) /\ Len(out') <= Len(A[seen].bytes)
      BY <2>1, <2>2, <3>1 DEF Shown
    <3>3. Len(out') \in Len(out)..Len(A[seen].bytes)
      BY <2>2, <3>2
    <3>4. PF!ReadBytes
      BY <2>1, <2>2, <3>1, <3>2, <3>3 DEF PF!ReadBytes, IsLink, files
    <3> QED
      BY <3>4 DEF PF!Next
  <2> QED
    BY <2>3, <2>4
<1> QED
  BY <1>2, <1>3, <1>4, <1>5 DEF Next, NextCall

(* The reader shows the stored files in order, each under its own          *)
(* FileInfo, link flag and bytes, and reports the end after the last one   *)
(* only: it implements PayloadFiles (payload.go:81-124).                   *)
THEOREM ShowsTheFiles == Spec => ImplementsPayloadFiles
<1>1. Init => PF!Init
  <2> SUFFICES ASSUME Init PROVE PF!Init
    OBVIOUS
  <2> QED
    BY DEF Init, Cpio!NewReaderWithSizes, PF!Init
<1>2. /\ CpioInv /\ OwnInv /\ Shown /\ CpioInv' /\ OwnInv' /\ Shown' /\ [Next]_vars
      => [PF!Next]_(PF!vars)
  BY StepShown
<1> QED
  BY <1>1, <1>2, Invariance, ShownHolds, PTL DEF Spec, ImplementsPayloadFiles, PF!Spec
=============================================================================
