-------------------------- MODULE SigHeader_proofs --------------------------
(***************************************************************************)
(* Proofs about SigHeader for every set of signature blocks, every length  *)
(* of the signatures and every number of signings.                         *)
(***************************************************************************)
EXTENDS SigHeader, FiniteSetTheorems, SequenceTheorems, TLAPS

(* The block in the file is what its intro says; that is also where the    *)
(* reader stops.                                                           *)
FileInv ==
  /\ BlockOK(file) /\ orig % 8 = 0
  /\ pc = "dumped" => BlockOK(out)
  /\ pc \in {"parsing", "open"} => consumed = BlockLength(file)

(* Where the i-th value ends.                                              *)
EndOf(h, idx, i) == IF i = 0 THEN 0 ELSE idx[i].offset + Len(h[idx[i].tag].contents)

(* Records in the order of their tags, each value at the first place after *)
(* the one before that its type allows.                                    *)
Laid(h, idx) ==
  \A i \in 1..Len(idx) :
    /\ idx[i].tag \in DOMAIN h
    /\ idx[i].dataType = h[idx[i].tag].dataType /\ idx[i].count = h[idx[i].tag].count
    /\ idx[i].offset = EndOf(h, idx, i - 1) + alignment(EndOf(h, idx, i - 1), idx[i].dataType)
    /\ \A j \in 1..Len(idx) : i < j => idx[i].tag < idx[j].tag

TagsOf(idx) == {idx[i].tag : i \in 1..Len(idx)}

(* A pass of WriteTo has written the smallest tags and has the rest to do. *)
PassInv ==
  /\ pc \notin {"size", "write"} => todo = {}
  /\ pc \in {"size", "write", "dumped"} =>
       /\ Laid(hdr, index) /\ Len(blobs) = EndOf(hdr, index, Len(index))
       /\ keys(hdr) = todo \cup TagsOf(index)
       /\ \A i \in 1..Len(index), t \in todo : index[i].tag < t

(* The length of a block with n records besides the region tag, for values *)
(* that take e bytes.                                                      *)
LengthOf(n, e) ==
  introLength + entryLength * (n + 1) + e + entryLength
    + finalPadding(96 + e + entryLength + entryLength * n)

(* The second pass of DumpSignatureHeader(true) against the first, which   *)
(* produced the records s: values behind the padding tag have moved by its *)
(* length, a multiple of 8, and so need the alignment they needed before.  *)
Reserved(s) ==
  LET n == Len(index)
      p == reservedPadding(needed, orig)
  IN  /\ Laid(hdr, s) /\ SIG_RESERVEDSPACE \notin TagsOf(s)
      /\ needed = LengthOf(Len(s), EndOf(hdr, s, Len(s)))
      /\ SIG_RESERVEDSPACE \in DOMAIN hdr
      /\ hdr[SIG_RESERVEDSPACE] = BinEntry(Zeros(p))
      /\ \/ /\ n \in 0..Len(s) /\ Len(blobs) = EndOf(hdr, s, n)
            /\ todo = {SIG_RESERVEDSPACE} \cup {s[j].tag : j \in (n + 1)..Len(s)}
         \/ /\ n \in 1..(Len(s) + 1) /\ Len(blobs) = EndOf(hdr, s, n - 1) + p
            /\ todo = {s[j].tag : j \in n..Len(s)}

SizeInv ==
  /\ pc = "size" => sameSize /\ SIG_RESERVEDSPACE \notin DOMAIN hdr
  /\ pc = "write" /\ sameSize /\ needed + entryLength <= orig
       => \E s \in Seq(IndexType) : Reserved(s)
  /\ SameSizeWhenItFits

IInv == TypeOK /\ FileInv /\ PassInv /\ SizeInv

(* The contents of an entry are as long as its type and count say.         *)
ContentsOK(x) ==
  Len(x.contents) = IF x.dataType \in DOMAIN typeSizes THEN typeSizes[x.dataType] * x.count
                    ELSE stringEnd(x.contents, 0, x.count)

(* Record r points to entry x in data.                                     *)
PointsTo(r, x, data) ==
  /\ r.dataType = x.dataType /\ r.count = x.count
  /\ r.offset + Len(x.contents) <= Len(data)
  /\ \A q \in 1..Len(x.contents) : data[r.offset + q] = x.contents[q]

(* Block b is header h, with the region tag in front.                      *)
Image(h, b) ==
  /\ Len(b.index) >= 1
  /\ b.index[1].tag = RPMTAG_HEADERSIGNATURES /\ b.index[1].dataType = RPM_BIN_TYPE
  /\ b.index[1].offset + b.index[1].count <= Len(b.data)
  /\ \A i \in 2..Len(b.index) :
       b.index[i].tag \in DOMAIN h /\ PointsTo(b.index[i], h[b.index[i].tag], b.data)
  /\ keys(h) = {b.index[i].tag : i \in 2..Len(b.index)}
  /\ \A t \in keys(h) : h[t] \in EntryType /\ ContentsOK(h[t])

(* What is written points to what the header holds, and reading it back    *)
(* finds the entries one after the other.                                  *)
TripInv ==
  /\ \A t \in DOMAIN hdr : ContentsOK(hdr[t])
  /\ pc \in {"size", "write", "dumped"} =>
       \A i \in 1..Len(index) : PointsTo(index[i], hdr[index[i].tag], blobs)
  /\ pc = "dumped" => meant = hdr /\ Image(meant, out)
  /\ signs > 0 /\ pc \in {"closed", "parsing", "open"} => Image(meant, file)
  /\ signs > 0 /\ pc \in {"parsing", "open"} =>
       /\ keys(hdr) = {file.index[i].tag : i \in 2..next}
       /\ \A t \in keys(hdr) : hdr[t] = meant[t]
  /\ pc = "open" => next = file.entries
  /\ signs > 0 => pc \notin {"panic", "truncated tag"}

-----------------------------------------------------------------------------
(* The elements of a concatenation.                                        *)
LEMMA ConcatFacts ==
  ASSUME NEW S, NEW s \in Seq(S), NEW t \in Seq(S)
  PROVE  /\ s \o t \in Seq(S) /\ Len(s \o t) = Len(s) + Len(t)
         /\ \A q \in 1..Len(s) : (s \o t)[q] = s[q]
         /\ \A q \in 1..Len(t) : (s \o t)[Len(s) + q] = t[q]
<1>1. s \o t \in Seq(S) /\ Len(s \o t) = Len(s) + Len(t)
  BY ConcatProperties
<1>2. Len(s) \in Nat /\ Len(t) \in Nat
  OBVIOUS
<1>3. ASSUME NEW q \in 1..Len(s) PROVE (s \o t)[q] = s[q]
  BY <1>2, <1>3
<1>4. ASSUME NEW q \in 1..Len(t) PROVE (s \o t)[Len(s) + q] = t[q]
  BY <1>2, <1>4
<1> QED
  BY <1>1, <1>3, <1>4

(* Lengths and types of what the operations put together.                  *)
LEMMA ZerosType ==
  ASSUME NEW n \in Nat
  PROVE  Zeros(n) \in Seq(Bytes) /\ Len(Zeros(n)) = n
BY DEF Zeros, Bytes, NUL

(* A signature is bytes.                                                   *)
LEMMA SignatureType ==
  ASSUME NEW n \in Nat, NEW m \in Nat
  PROVE  Signature(n, m) \in Seq(Bytes) /\ Len(Signature(n, m)) = m
<1>1. \A i \in 1..m : (n + i) % 2 \in Bytes
  BY DEF Bytes
<1> QED
  BY <1>1 DEF Signature

(* A binary entry holds what it was made of.                               *)
LEMMA BinEntryType ==
  ASSUME NEW c \in Seq(Bytes)
  PROVE  /\ BinEntry(c) \in EntryType
         /\ BinEntry(c).dataType = RPM_BIN_TYPE /\ BinEntry(c).count = Len(c)
         /\ BinEntry(c).contents = c
BY DEF BinEntry, EntryType, RPM_BIN_TYPE

(* The types that are aligned, and to what.                                *)
LEMMA Alignments ==
  /\ DOMAIN typeAlign = {3, 4, 5}
  /\ typeAlign[3] = 2 /\ typeAlign[4] = 4 /\ typeAlign[5] = 8
BY DEF typeAlign, RPM_INT16_TYPE, RPM_INT32_TYPE, RPM_INT64_TYPE

(* alignment fills up to the next multiple, and what it fills depends only *)
(* on the offset modulo 8.                                                 *)
LEMMA AlignmentFacts ==
  ASSUME NEW n \in Nat, NEW t
  PROVE  /\ alignment(n, t) \in Nat
         /\ t \in DOMAIN typeAlign => (n + alignment(n, t)) % typeAlign[t] = 0
         /\ t = RPM_BIN_TYPE => alignment(n, t) = 0
         /\ \A p \in Nat : p % 8 = 0 => alignment(n + p, t) = alignment(n, t)
<1>1. CASE t = 3
  BY <1>1, Alignments DEF alignment, RPM_BIN_TYPE
<1>2. CASE t = 4
  BY <1>2, Alignments DEF alignment, RPM_BIN_TYPE
<1>3. CASE t = 5
  BY <1>3, Alignments DEF alignment, RPM_BIN_TYPE
<1>4. CASE t \notin {3, 4, 5}
  BY <1>4, Alignments DEF alignment
<1> QED
  BY <1>1, <1>2, <1>3, <1>4

(* The padding of a block.                                                 *)
LEMMA FinalPaddingFacts ==
  ASSUME NEW n \in Nat
  PROVE  /\ finalPadding(n) \in 0..7 /\ (n + finalPadding(n)) % 8 = 0
         /\ \A p \in Nat : p % 8 = 0 => finalPadding(n + p) = finalPadding(n)
BY DEF finalPadding

(* Rounding up finds the multiple of 8 that is near enough.                *)
LEMMA RoundUpFacts ==
  ASSUME NEW n \in Nat, NEW m \in Nat, m - n \in 0..7, m % 8 = 0
  PROVE  roundUp8(n) = m
BY DEF roundUp8

(* Put and Delete.                                                         *)
LEMMA PutFacts ==
  ASSUME NEW h, NEW k, NEW x
  PROVE  /\ DOMAIN Put(h, k, x) = DOMAIN h \cup {k}
         /\ Put(h, k, x)[k] = x
         /\ \A t \in DOMAIN h : t # k => Put(h, k, x)[t] = h[t]
BY DEF Put

(* Delete takes tags out and leaves the rest.                              *)
LEMMA DeleteFacts ==
  ASSUME NEW h, NEW ks
  PROVE  /\ DOMAIN Delete(h, ks) = DOMAIN h \ ks
         /\ \A t \in DOMAIN h \ ks : Delete(h, ks)[t] = h[t]
BY DEF Delete

(* Headers of typed entries.                                               *)
HeaderOK(h) == DOMAIN h \subseteq Int /\ \A t \in DOMAIN h : h[t] \in EntryType

(* Put keeps a header typed.                                               *)
LEMMA PutType ==
  ASSUME NEW h, HeaderOK(h), NEW k \in Int, NEW x \in EntryType
  PROVE  HeaderOK(Put(h, k, x))
<1>1. /\ DOMAIN Put(h, k, x) = DOMAIN h \cup {k} /\ Put(h, k, x)[k] = x
      /\ \A t \in DOMAIN h : t # k => Put(h, k, x)[t] = h[t]
  BY DEF Put
<1>2. DOMAIN h \subseteq Int /\ \A t \in DOMAIN h : h[t] \in EntryType
  BY DEF HeaderOK
<1> DEFINE g == Put(h, k, x)
<1> HIDE DEF g
<1>3. ASSUME NEW t \in DOMAIN g PROVE g[t] \in EntryType
  BY <1>1, <1>2, Zenon DEF g
<1>4. DOMAIN g \subseteq Int
  BY <1>1, <1>2 DEF g
<1> QED
  BY <1>3, <1>4 DEF HeaderOK, g

(* Delete keeps a header typed.                                            *)
LEMMA DeleteType ==
  ASSUME NEW h, HeaderOK(h), NEW ks
  PROVE  HeaderOK(Delete(h, ks))
<1>1. /\ DOMAIN Delete(h, ks) = DOMAIN h \ ks
      /\ \A t \in DOMAIN h \ ks : Delete(h, ks)[t] = h[t]
  BY DeleteFacts
<1>2. DOMAIN h \subseteq Int /\ \A t \in DOMAIN h : h[t] \in EntryType
  BY DEF HeaderOK
<1> DEFINE g == Delete(h, ks)
<1> HIDE DEF g
<1>3. ASSUME NEW t \in DOMAIN g PROVE g[t] \in EntryType
  BY <1>1, <1>2, Zenon DEF g
<1>4. DOMAIN g \subseteq Int
  BY <1>1, <1>2 DEF g
<1> QED
  BY <1>3, <1>4 DEF HeaderOK, g

(* insertSignatures leaves a header of typed entries.                      *)
LEMMA InsertType ==
  ASSUME NEW h, HeaderOK(h), NEW c \in Seq(Bytes), NEW d \in Seq(Bytes)
  PROVE  HeaderOK(insertSignatures(h, c, d))
<1>1. HeaderOK(Put(h, SIG_PGP, BinEntry(c)))
  BY PutType, BinEntryType DEF SIG_PGP
<1>2. HeaderOK(Put(Put(h, SIG_PGP, BinEntry(c)), SIG_RSA, BinEntry(d)))
  BY <1>1, PutType, BinEntryType DEF SIG_RSA
<1> QED
  BY <1>2, DeleteType DEF insertSignatures

(* The fields of an entry.                                                 *)
LEMMA EntryFields ==
  ASSUME NEW x \in EntryType
  PROVE  /\ x.dataType \in 0..9 /\ x.count \in Nat
         /\ x.contents \in Seq(Bytes) /\ Len(x.contents) \in Nat
BY DEF EntryType

(* The fields of an index record.                                          *)
LEMMA IndexFields ==
  ASSUME NEW r \in IndexType
  PROVE  r.tag \in Int /\ r.dataType \in 0..9 /\ r.offset \in Nat /\ r.count \in Nat
BY DEF IndexType

(* The fields of a block, and its length.                                  *)
LEMMA BlockFields ==
  ASSUME NEW b \in BlockType
  PROVE  /\ b.entries \in Nat /\ b.size \in Nat
         /\ b.index \in Seq(IndexType) /\ Len(b.index) \in Nat
         /\ b.data \in Seq(Bytes) /\ Len(b.data) \in Nat
         /\ BlockLength(b) = 16 + 16 * Len(b.index) + Len(b.data)
<1>1. /\ b.entries \in Nat /\ b.size \in Nat
      /\ b.index \in Seq(IndexType) /\ b.data \in Seq(Bytes)
  BY DEF BlockType
<1>2. Len(b.index) \in Nat /\ Len(b.data) \in Nat
  BY <1>1
<1> QED
  BY <1>1, <1>2 DEF BlockLength, introLength, entryLength

(* The reader announces the length of a well-formed block.                 *)
LEMMA BlockRead ==
  ASSUME NEW b, BlockOK(b)
  PROVE  /\ introLength + entryLength * b.entries + roundUp8(b.size) = BlockLength(b)
         /\ roundUp8(b.size) = Len(b.data)
         /\ BlockLength(b) \in Nat /\ BlockLength(b) % 8 = 0
<1>1. /\ b \in BlockType /\ b.entries = Len(b.index)
      /\ Len(b.data) - b.size \in 0..7 /\ BlockLength(b) % 8 = 0
  BY DEF BlockOK
<1>2. /\ b.size \in Nat /\ Len(b.index) \in Nat /\ Len(b.data) \in Nat
      /\ BlockLength(b) = 16 + 16 * Len(b.index) + Len(b.data)
  BY <1>1, BlockFields
<1>3. Len(b.data) % 8 = 0
  <2>1. \A n, m \in Nat : (16 + 16 * n + m) % 8 = 0 => m % 8 = 0
    OBVIOUS
  <2>2. (16 + 16 * Len(b.index) + Len(b.data)) % 8 = 0
    BY <1>1, <1>2
  <2> QED
    BY <1>2, <2>1, <2>2
<1>4. roundUp8(b.size) = Len(b.data)
  BY <1>1, <1>2, <1>3, RoundUpFacts
<1>5. 16 + 16 * b.entries + roundUp8(b.size) = BlockLength(b)
  BY <1>1, <1>2, <1>4
<1>6. BlockLength(b) \in Nat
  <2>1. \A n, m \in Nat : 16 + 16 * n + m \in Nat
    OBVIOUS
  <2> QED
    BY <1>2, <2>1
<1> QED
  BY <1>1, <1>4, <1>5, <1>6 DEF introLength, entryLength

(* What WriteTo returns is well-formed, and how long it is.                *)
LEMMA WrittenOK ==
  ASSUME TypeOK
  PROVE  /\ BlockOK(Written)
         /\ BlockLength(Written) = LengthOf(Len(index), Len(blobs))
         /\ Len(Written.index) = Len(index) + 1
         /\ Written.index[1] = [tag |-> RPMTAG_HEADERSIGNATURES, dataType |-> RPM_BIN_TYPE,
                                offset |-> Len(blobs), count |-> entryLength]
         /\ \A i \in 1..Len(index) : Written.index[i + 1] = index[i]
         /\ Len(blobs) + entryLength <= Len(Written.data)
         /\ \A q \in 1..Len(blobs) : Written.data[q] = blobs[q]
<1> DEFINE region == [tag |-> RPMTAG_HEADERSIGNATURES, dataType |-> RPM_BIN_TYPE,
                      offset |-> Len(blobs), count |-> entryLength]
           tail == [i \in 1..entryLength |-> RegionByte]
           data == blobs \o tail
           fill == finalPadding(96 + Len(data) + entryLength * Len(index))
           zeros == Zeros(fill)
<1>1. /\ index \in Seq(IndexType) /\ blobs \in Seq(Bytes)
      /\ Len(index) \in Nat /\ Len(blobs) \in Nat
  <2>1. index \in Seq(IndexType) /\ blobs \in Seq(Bytes)
    BY DEF TypeOK
  <2> QED
    BY <2>1
<1>2. region \in IndexType
  BY <1>1 DEF IndexType, RPMTAG_HEADERSIGNATURES, RPM_BIN_TYPE, entryLength
<1>3. tail \in Seq(Bytes) /\ Len(tail) = 16
  BY DEF entryLength, RegionByte, Bytes
<1>4. /\ data \in Seq(Bytes) /\ Len(data) = Len(blobs) + 16
      /\ \A q \in 1..Len(blobs) : data[q] = blobs[q]
  <2>1. ASSUME NEW t \in Seq(Bytes)
        PROVE  /\ blobs \o t \in Seq(Bytes) /\ Len(blobs \o t) = Len(blobs) + Len(t)
               /\ \A q \in 1..Len(blobs) : (blobs \o t)[q] = blobs[q]
    BY <1>1, ConcatFacts
  <2> HIDE DEF tail
  <2> QED
    BY <1>3, <2>1
<1>5. fill \in 0..7 /\ (96 + Len(data) + 16 * Len(index) + fill) % 8 = 0
  <2>1. 96 + Len(data) + entryLength * Len(index) \in Nat
    BY <1>1, <1>4 DEF entryLength
  <2> QED
    BY <2>1, FinalPaddingFacts DEF entryLength
<1>6. zeros \in Seq(Bytes) /\ Len(zeros) = fill
  <2> HIDE DEF fill
  <2>1. fill \in Nat
    BY <1>5
  <2> QED
    BY <2>1, ZerosType
<1> HIDE DEF tail, data, fill, zeros, region
<1>7. /\ data \o zeros \in Seq(Bytes) /\ Len(data \o zeros) = Len(blobs) + 16 + fill
      /\ \A q \in 1..Len(blobs) : (data \o zeros)[q] = blobs[q]
  <2>1. \A q \in 1..Len(data) : (data \o zeros)[q] = data[q]
    BY <1>4, <1>6, ConcatFacts
  <2>2. data \o zeros \in Seq(Bytes) /\ Len(data \o zeros) = Len(data) + Len(zeros)
    BY <1>4, <1>6, ConcatFacts
  <2>3. ASSUME NEW q \in 1..Len(blobs) PROVE (data \o zeros)[q] = blobs[q]
    <3>1. q \in 1..Len(data)
      BY <1>1, <1>4
    <3> QED
      BY <1>4, <2>1, <3>1
  <2> QED
    BY <1>4, <1>6, <2>2, <2>3
<1>8. /\ <<region>> \o index \in Seq(IndexType) /\ Len(<<region>> \o index) = Len(index) + 1
      /\ (<<region>> \o index)[1] = region
      /\ \A i \in 1..Len(index) : (<<region>> \o index)[i + 1] = index[i]
  BY <1>1, <1>2
<1>9. Written = [entries |-> Len(index) + 1, size |-> Len(blobs) + 16,
                 index |-> <<region>> \o index, data |-> data \o zeros]
  BY DEF Written, region, data, tail, zeros, fill, entryLength
<1>10. Written \in BlockType
  BY <1>1, <1>7, <1>8, <1>9 DEF BlockType
<1>11. /\ Written.entries = Len(index) + 1 /\ Written.size = Len(blobs) + 16
       /\ Written.index = <<region>> \o index /\ Written.data = data \o zeros
  BY <1>9
<1>12. BlockLength(Written) = 16 + 16 * (Len(index) + 1) + (Len(blobs) + 16 + fill)
  BY <1>7, <1>8, <1>10, <1>11, BlockFields
<1>13. BlockLength(Written) % 8 = 0
  BY <1>1, <1>4, <1>5, <1>12
<1>14. BlockOK(Written)
  <2>1. Len(Written.data) - Written.size = fill
    BY <1>1, <1>5, <1>7, <1>11
  <2>2. Written.entries = Len(Written.index)
    BY <1>8, <1>11
  <2> QED
    BY <1>5, <1>10, <1>13, <2>1, <2>2 DEF BlockOK
<1>15. BlockLength(Written) = LengthOf(Len(index), Len(blobs))
  <2>1. fill = finalPadding(96 + Len(blobs) + entryLength + entryLength * Len(index))
    <3>1. 96 + Len(data) + entryLength * Len(index)
            = 96 + Len(blobs) + entryLength + entryLength * Len(index)
      BY <1>1, <1>4 DEF entryLength
    <3> QED
      BY <3>1 DEF fill
  <2>2. fill \in Nat
    BY <1>5
  <2> QED
    BY <1>1, <1>12, <2>1, <2>2 DEF LengthOf, introLength, entryLength
<1>16. Len(blobs) + entryLength <= Len(Written.data)
  BY <1>1, <1>5, <1>7, <1>11 DEF entryLength
<1> QED
  BY <1>7, <1>8, <1>11, <1>14, <1>15, <1>16 DEF region

-----------------------------------------------------------------------------
(* The state as the operations find it.                                    *)
LEMMA StateFacts ==
  ASSUME TypeOK
  PROVE  /\ file \in BlockType /\ HeaderOK(hdr) /\ orig \in Nat /\ needed \in Nat
         /\ index \in Seq(IndexType) /\ Len(index) \in Nat
         /\ blobs \in Seq(Bytes) /\ Len(blobs) \in Nat /\ todo \subseteq DOMAIN hdr
<1>1. /\ file \in BlockType /\ HeaderOK(hdr) /\ orig \in Nat /\ needed \in Nat
      /\ index \in Seq(IndexType) /\ blobs \in Seq(Bytes) /\ todo \subseteq DOMAIN hdr
  BY DEF TypeOK, HeaderOK
<1> QED
  BY <1>1

(* Outside WriteTo nothing is promised of its variables.                   *)
LEMMA OutsideWriter ==
  ASSUME TypeOK', FileInv', pc' \notin {"size", "write", "dumped"}, todo' = {}
  PROVE  IInv'
BY DEF IInv, PassInv, SizeInv, SameSizeWhenItFits

(* The initial state satisfies the invariant.                              *)
LEMMA InitIInv == Init => IInv
<1> SUFFICES ASSUME Init PROVE IInv
  OBVIOUS
<1>1. BlockOK(file)
  BY BlocksAssumption DEF Init
<1>2. file \in BlockType /\ file.entries \in Nat
  BY <1>1, BlockFields DEF BlockOK
<1>3. NoBlock \in BlockType
  BY DEF NoBlock, BlockType
<1>4. DOMAIN NoTags = {}
  BY DEF NoTags
<1>5. <<>> \in Seq(IndexType) /\ <<>> \in Seq(Bytes)
  OBVIOUS
<1>6. TypeOK
  <2>1. /\ pc = "closed" /\ whole \in BOOLEAN /\ hdr = NoTags /\ orig = 0 /\ consumed = 0
        /\ next = 0 /\ sameSize = FALSE /\ todo = {} /\ index = <<>> /\ blobs = <<>>
        /\ needed = 0 /\ out = NoBlock /\ signs = 0
    BY DEF Init
  <2>2. DOMAIN hdr = {}
    BY <1>4, <2>1
  <2>3. /\ file \in BlockType /\ next \in 0..file.entries /\ signs \in 0..MaxSigns
        /\ orig \in Nat /\ consumed \in Nat /\ needed \in Nat
    BY <1>2, <2>1, MaxSignsAssumption
  <2>4. DOMAIN hdr \subseteq Int /\ \A t \in DOMAIN hdr : hdr[t] \in EntryType
    BY <2>2
  <2>5. index \in Seq(IndexType) /\ blobs \in Seq(Bytes) /\ out \in BlockType
    BY <1>3, <1>5, <2>1
  <2> QED
    BY <2>1, <2>3, <2>4, <2>5, Zenon DEF TypeOK
<1>7. FileInv
  BY <1>1 DEF Init, FileInv
<1> QED
  BY <1>6, <1>7 DEF Init, IInv, PassInv, SizeInv, SameSizeWhenItFits

(* Reading the intro keeps the invariant.                                  *)
LEMMA ReadHeaderIInv == IInv /\ ReadHeader => IInv'
<1> SUFFICES ASSUME IInv, ReadHeader PROVE IInv'
  OBVIOUS
<1>1. /\ TypeOK /\ BlockOK(file) /\ todo = {} /\ pc = "closed" /\ orig % 8 = 0
  BY DEF IInv, FileInv, PassInv, ReadHeader
<1>2. UNCHANGED <<file, whole, signs, sameSize, todo, index, blobs, needed, out, meant>>
  BY DEF ReadHeader, writerVars
<1>3. /\ introLength + entryLength * file.entries + roundUp8(file.size) = BlockLength(file)
      /\ BlockLength(file) \in Nat /\ BlockLength(file) % 8 = 0
  BY <1>1, BlockRead
<1>4. CASE whole
  <2>1. /\ orig' = BlockLength(file) /\ consumed' = BlockLength(file)
        /\ hdr' = NoTags /\ next' = 0 /\ pc' = "parsing"
    BY <1>3, <1>4 DEF ReadHeader
  <2>2. DOMAIN NoTags = {}
    BY DEF NoTags
  <2>3. file.entries \in Nat
    BY <1>1, BlockFields DEF BlockOK
  <2>4. TypeOK'
    BY <1>1, <1>2, <1>3, <2>1, <2>2, <2>3 DEF TypeOK
  <2>5. FileInv'
    BY <1>1, <1>2, <1>3, <2>1 DEF FileInv
  <2> QED
    BY <1>1, <1>2, <2>1, <2>4, <2>5, OutsideWriter
<1>5. CASE ~whole
  <2>1. pc' = "read error" /\ UNCHANGED <<hdr, orig, consumed, next>>
    BY <1>5 DEF ReadHeader
  <2>2. TypeOK'
    BY <1>1, <1>2, <2>1 DEF TypeOK
  <2>3. FileInv'
    BY <1>1, <1>2, <2>1 DEF FileInv
  <2> QED
    BY <1>1, <1>2, <2>1, <2>2, <2>3, OutsideWriter
<1> QED
  BY <1>4, <1>5

(* The data the reader has is that of the block.                           *)
LEMMA DataRead ==
  ASSUME BlockOK(file)
  PROVE  dataRead = file.data
<1>1. roundUp8(file.size) = Len(file.data) /\ file.data \in Seq(Bytes)
      /\ Len(file.data) \in Nat
  BY BlockRead, BlockFields DEF BlockOK
<1>2. dataRead = SubSeq(file.data, 1, Len(file.data))
  BY <1>1 DEF dataRead
<1> QED
  BY <1>1, <1>2

(* The entry a record stands for.                                          *)
LEMMA ParsedType ==
  ASSUME NEW r \in IndexType, NEW data \in Seq(Bytes), NEW end \in 0..Len(data)
  PROVE  /\ SubSeq(data, r.offset + 1, end) \in Seq(Bytes)
         /\ [dataType |-> r.dataType, count |-> r.count,
             contents |-> SubSeq(data, r.offset + 1, end)] \in EntryType
<1>1. r.offset \in Nat /\ r.dataType \in 0..9 /\ r.count \in Nat /\ Len(data) \in Nat
  BY IndexFields
<1>2. SubSeq(data, r.offset + 1, end) \in Seq(Bytes)
  BY <1>1
<1> QED
  BY <1>1, <1>2 DEF EntryType

(* One round of readHeader's loop keeps the invariant.                     *)
LEMMA ParseTagIInv == IInv /\ ParseTag => IInv'
<1> SUFFICES ASSUME IInv, ParseTag PROVE IInv'
  OBVIOUS
<1> DEFINE r == file.index[next + 1]
           data == dataRead
           end == IF r.dataType \in DOMAIN typeSizes
                  THEN r.offset + typeSizes[r.dataType] * r.count
                  ELSE stringEnd(data, r.offset, r.count)
<1>1. /\ TypeOK /\ BlockOK(file) /\ todo = {} /\ pc = "parsing" /\ orig % 8 = 0
      /\ consumed = BlockLength(file) /\ next < file.entries /\ next \in 0..file.entries
  BY DEF IInv, FileInv, PassInv, ParseTag, TypeOK
<1>2. UNCHANGED <<file, whole, orig, consumed, signs, sameSize, todo, index, blobs,
                  needed, out, meant>>
  BY DEF ParseTag, writerVars
<1>3. /\ file.entries \in Nat /\ file.entries = Len(file.index)
      /\ file.index \in Seq(IndexType) /\ file.data \in Seq(Bytes) /\ data = file.data
  BY <1>1, BlockFields, DataRead DEF BlockOK
<1>4. r \in IndexType
  <2>1. next + 1 \in 1..Len(file.index)
    BY <1>1, <1>3
  <2> QED
    BY <1>3, <2>1
<1>5. \/ /\ pc' \in {"truncated tag", "panic"} /\ UNCHANGED <<hdr, next>>
      \/ /\ end \in 0..Len(data)
         /\ hdr' = Put(hdr, r.tag, [dataType |-> r.dataType, count |-> r.count,
                                    contents |-> SubSeq(data, r.offset + 1, end)])
         /\ next' = next + 1 /\ pc' = pc
  BY DEF ParseTag
<1> HIDE DEF r, data, end
<1>6. CASE pc' \in {"truncated tag", "panic"} /\ UNCHANGED <<hdr, next>>
  <2>1. TypeOK'
    BY <1>1, <1>2, <1>6 DEF TypeOK
  <2>2. FileInv'
    BY <1>1, <1>2, <1>6 DEF FileInv
  <2> QED
    BY <1>1, <1>2, <1>6, <2>1, <2>2, OutsideWriter
<1>7. CASE /\ end \in 0..Len(data)
           /\ hdr' = Put(hdr, r.tag, [dataType |-> r.dataType, count |-> r.count,
                                      contents |-> SubSeq(data, r.offset + 1, end)])
           /\ next' = next + 1 /\ pc' = pc
  <2>1. HeaderOK(hdr)
    BY <1>1, StateFacts
  <2>2. HeaderOK(hdr')
    BY <1>3, <1>4, <1>7, <2>1, PutType, ParsedType, IndexFields
  <2>3. next' \in 0..file.entries
    BY <1>1, <1>3, <1>7
  <2>4. TypeOK'
    BY <1>1, <1>2, <1>7, <2>2, <2>3 DEF TypeOK, HeaderOK
  <2>5. FileInv'
    BY <1>1, <1>2, <1>7 DEF FileInv
  <2> QED
    BY <1>1, <1>2, <1>7, <2>4, <2>5, OutsideWriter
<1> QED
  BY <1>5, <1>6, <1>7

(* The end of readHeader's loop keeps the invariant.                       *)
LEMMA ParseEndIInv == IInv /\ ParseEnd => IInv'
<1> SUFFICES ASSUME IInv, ParseEnd PROVE IInv'
  OBVIOUS
<1>1. /\ TypeOK /\ FileInv /\ todo = {} /\ pc = "parsing" /\ pc' = "open"
  BY DEF IInv, PassInv, ParseEnd
<1>2. UNCHANGED <<file, whole, hdr, orig, consumed, next, sameSize, todo, index, blobs,
                  needed, out, signs, meant>>
  BY DEF ParseEnd, readerVars, writerVars
<1>3. TypeOK'
  BY <1>1, <1>2 DEF TypeOK
<1>4. FileInv'
  BY <1>1, <1>2 DEF FileInv
<1> QED
  BY <1>1, <1>2, <1>3, <1>4, OutsideWriter

(* Signing keeps the invariant.                                            *)
LEMMA SignIInv == IInv /\ Sign => IInv'
<1> SUFFICES ASSUME IInv, Sign PROVE IInv'
  OBVIOUS
<1>1. /\ TypeOK /\ FileInv /\ todo = {} /\ pc = "open" /\ pc' = "signed"
      /\ signs < MaxSigns /\ signs' = signs + 1
  BY DEF IInv, PassInv, Sign
<1>2. UNCHANGED <<file, whole, orig, consumed, next, sameSize, todo, index, blobs,
                  needed, out, meant>>
  BY DEF Sign, readerVars, writerVars
<1>3. PICK m \in SigSizes, n \in SigSizes :
        hdr' = insertSignatures(hdr, Signature(signs, m), Signature(signs, n))
  BY DEF Sign
<1>4. signs \in 0..MaxSigns /\ signs \in Nat /\ signs' \in 0..MaxSigns
  BY <1>1, MaxSignsAssumption DEF TypeOK
<1>5. m \in Nat /\ n \in Nat
  BY SigSizesAssumption
<1>6. HeaderOK(hdr')
  BY <1>1, <1>3, <1>4, <1>5, StateFacts, SignatureType, InsertType
<1>7. TypeOK'
  BY <1>1, <1>2, <1>4, <1>6 DEF TypeOK, HeaderOK
<1>8. FileInv'
  BY <1>1, <1>2 DEF FileInv
<1> QED
  BY <1>1, <1>2, <1>7, <1>8, OutsideWriter

(* Replacing the block in the file keeps the invariant.                    *)
LEMMA ReplaceIInv == IInv /\ Replace => IInv'
<1> SUFFICES ASSUME IInv, Replace PROVE IInv'
  OBVIOUS
<1>1. /\ TypeOK /\ FileInv /\ todo = {} /\ pc = "dumped" /\ pc' = "closed"
      /\ file' = out /\ next' = 0 /\ BlockOK(out)
  BY DEF IInv, PassInv, FileInv, Replace
<1>2. UNCHANGED <<whole, hdr, orig, consumed, signs, sameSize, todo, index, blobs,
                  needed, out, meant>>
  BY DEF Replace, writerVars
<1>3. out.entries \in Nat /\ out \in BlockType
  BY <1>1, BlockFields DEF BlockOK
<1>4. TypeOK'
  BY <1>1, <1>2, <1>3 DEF TypeOK
<1>5. FileInv'
  BY <1>1, <1>2 DEF FileInv
<1> QED
  BY <1>1, <1>2, <1>4, <1>5, OutsideWriter

-----------------------------------------------------------------------------
(* WriteTo starts: nothing is laid out yet.                                *)
LEMMA StartsPass ==
  ASSUME NEW h, StartWriteTo(h), hdr' = h, pc' \in {"size", "write"}
  PROVE  /\ index' = <<>> /\ blobs' = <<>> /\ todo' = keys(h) /\ todo' \subseteq DOMAIN h
         /\ PassInv'
<1>1. index' = <<>> /\ blobs' = <<>> /\ todo' = keys(h)
  BY DEF StartWriteTo
<1>2. todo' \subseteq DOMAIN h
  BY <1>1 DEF keys
<1>3. Laid(h, <<>>)
  BY DEF Laid
<1>4. EndOf(h, <<>>, 0) = 0 /\ Len(<<>>) = 0
  BY DEF EndOf
<1>5. TagsOf(<<>>) = {}
  BY DEF TagsOf
<1>6. keys(hdr)' = keys(h)
  BY DEF keys
<1>7. \A i \in 1..Len(index'), t \in todo' : index'[i].tag < t
  BY <1>1
<1>8. Len(index') = 0 /\ Len(blobs') = 0
  BY <1>1
<1>9. /\ Laid(hdr', index') /\ Len(blobs') = EndOf(hdr', index', Len(index'))
      /\ TagsOf(index') = {} /\ keys(hdr') = todo'
  BY <1>1, <1>3, <1>4, <1>5, <1>6, <1>8
<1> QED
  BY <1>1, <1>2, <1>7, <1>9 DEF PassInv

(* Values end somewhere.                                                   *)
LEMMA EndOfType ==
  ASSUME NEW h, HeaderOK(h), NEW idx \in Seq(IndexType), Laid(h, idx),
         NEW i \in 0..Len(idx)
  PROVE  EndOf(h, idx, i) \in Nat
<1>1. CASE i = 0
  BY <1>1 DEF EndOf
<1>2. CASE i # 0
  <2>1. i \in 1..Len(idx) /\ Len(idx) \in Nat
    BY <1>2
  <2>2. idx[i] \in IndexType /\ idx[i].tag \in DOMAIN h
    BY <2>1 DEF Laid
  <2>3. idx[i].offset \in Nat /\ h[idx[i].tag] \in EntryType
    BY <2>2, IndexFields DEF HeaderOK
  <2>4. Len(h[idx[i].tag].contents) \in Nat
    BY <2>3, EntryFields
  <2> QED
    BY <1>2, <2>3, <2>4 DEF EndOf
<1> QED
  BY <1>1, <1>2

(* The record of a tag written behind n bytes.                             *)
RecordOf(h, k, n) ==
  [tag |-> k, dataType |-> h[k].dataType,
   offset |-> n + alignment(n, h[k].dataType), count |-> h[k].count]

(* One more record.                                                        *)
LEMMA AppendLaid ==
  ASSUME NEW h, HeaderOK(h), NEW idx \in Seq(IndexType), Laid(h, idx),
         NEW k \in DOMAIN h, \A i \in 1..Len(idx) : idx[i].tag < k,
         NEW n, n = EndOf(h, idx, Len(idx)), NEW jdx, jdx = Append(idx, RecordOf(h, k, n))
  PROVE  /\ jdx \in Seq(IndexType) /\ Len(jdx) = Len(idx) + 1
         /\ Laid(h, jdx)
<1> DEFINE r == RecordOf(h, k, n)
<1>1. n \in Nat /\ Len(idx) \in Nat
  BY EndOfType
<1>2. h[k] \in EntryType /\ k \in Int
  BY DEF HeaderOK
<1>3. alignment(n, h[k].dataType) \in Nat
  BY <1>1, AlignmentFacts
<1>4. /\ r.tag = k /\ r.dataType = h[k].dataType /\ r.count = h[k].count
      /\ r.offset = n + alignment(n, h[k].dataType) /\ r \in IndexType
  BY <1>1, <1>2, <1>3, EntryFields DEF IndexType, RecordOf
<1> HIDE DEF r
<1>5. /\ jdx \in Seq(IndexType) /\ Len(jdx) = Len(idx) + 1
      /\ jdx[Len(idx) + 1] = r /\ \A i \in 1..Len(idx) : jdx[i] = idx[i]
  BY <1>1, <1>4 DEF r
<1>6. \A i \in 0..Len(idx) : EndOf(h, jdx, i) = EndOf(h, idx, i)
  BY <1>1, <1>5 DEF EndOf
<1>7. ASSUME NEW i \in 1..Len(jdx)
      PROVE  /\ jdx[i].tag \in DOMAIN h
             /\ jdx[i].dataType = h[jdx[i].tag].dataType /\ jdx[i].count = h[jdx[i].tag].count
             /\ jdx[i].offset =
                  EndOf(h, jdx, i - 1) + alignment(EndOf(h, jdx, i - 1), jdx[i].dataType)
             /\ \A j \in 1..Len(jdx) : i < j => jdx[i].tag < jdx[j].tag
  <2>1. CASE i = Len(idx) + 1
    <3>1. EndOf(h, jdx, i - 1) = n
      BY <1>1, <1>6, <2>1
    <3>2. jdx[i] = r /\ \A j \in 1..Len(jdx) : ~(i < j)
      BY <1>1, <1>5, <2>1
    <3> QED
      BY <1>4, <3>1, <3>2
  <2>2. CASE i # Len(idx) + 1
    <3>1. i \in 1..Len(idx) /\ i - 1 \in 0..Len(idx)
      BY <1>1, <1>5, <2>2
    <3>2. jdx[i] = idx[i] /\ EndOf(h, jdx, i - 1) = EndOf(h, idx, i - 1)
      BY <1>5, <1>6, <3>1
    <3>3. \A j \in 1..Len(jdx) : i < j => jdx[i].tag < jdx[j].tag
      <4> SUFFICES ASSUME NEW j \in 1..Len(jdx), i < j PROVE jdx[i].tag < jdx[j].tag
        OBVIOUS
      <4>1. CASE j = Len(idx) + 1
        BY <1>4, <1>5, <3>1, <3>2, <4>1
      <4>2. CASE j # Len(idx) + 1
        <5>1. j \in 1..Len(idx) /\ jdx[j] = idx[j]
          BY <1>1, <1>5, <4>2
        <5> QED
          BY <3>1, <3>2, <5>1 DEF Laid
      <4> QED
        BY <4>1, <4>2
    <3>4. /\ idx[i].tag \in DOMAIN h
          /\ idx[i].dataType = h[idx[i].tag].dataType /\ idx[i].count = h[idx[i].tag].count
          /\ idx[i].offset =
               EndOf(h, idx, i - 1) + alignment(EndOf(h, idx, i - 1), idx[i].dataType)
      BY <3>1 DEF Laid
    <3> QED
      BY <3>2, <3>3, <3>4
  <2> QED
    BY <2>1, <2>2
<1>8. Laid(h, jdx)
  BY <1>7 DEF Laid
<1> QED
  BY <1>5, <1>8

-----------------------------------------------------------------------------
(* The smallest tag to do is the next of the first pass ...                *)
LEMMA SmallestLeft ==
  ASSUME NEW h, NEW s \in Seq(IndexType), Laid(h, s), NEW n \in 0..Len(s),
         NEW k \in {s[j].tag : j \in (n + 1)..Len(s)},
         \A t \in {s[j].tag : j \in (n + 1)..Len(s)} : k <= t
  PROVE  /\ n + 1 \in 1..Len(s) /\ s[n + 1].tag = k
         /\ {s[j].tag : j \in (n + 1)..Len(s)} \ {k} = {s[j].tag : j \in (n + 2)..Len(s)}
<1>1. Len(s) \in Nat /\ \A j \in 1..Len(s) : s[j].tag \in Int
  <2>1. \A j \in 1..Len(s) : s[j] \in IndexType
    OBVIOUS
  <2> QED
    BY <2>1, IndexFields
<1>2. PICK j \in (n + 1)..Len(s) : k = s[j].tag
  OBVIOUS
<1>3. n + 1 \in 1..Len(s) /\ n + 1 \in (n + 1)..Len(s) /\ j \in 1..Len(s)
  BY <1>1, <1>2
<1>4. k <= s[n + 1].tag
  BY <1>3
<1>5. ~(n + 1 < j)
  <2>1. n + 1 < j => s[n + 1].tag < s[j].tag
    BY <1>3 DEF Laid
  <2> QED
    BY <1>1, <1>2, <1>3, <1>4, <2>1
<1>6. j = n + 1
  BY <1>1, <1>2, <1>5
<1>7. ASSUME NEW m \in (n + 2)..Len(s) PROVE s[m].tag # k
  <2>1. m \in 1..Len(s) /\ n + 1 < m
    BY <1>1
  <2>2. s[n + 1].tag < s[m].tag
    BY <1>3, <2>1 DEF Laid
  <2> QED
    BY <1>1, <1>2, <1>3, <1>6, <2>1, <2>2
<1>8. (n + 1)..Len(s) = {n + 1} \cup (n + 2)..Len(s)
  BY <1>1, <1>3
<1> QED
  BY <1>2, <1>3, <1>6, <1>7, <1>8

(* m is where the first n values end, p bytes further.                     *)
EndsAt(h, s, n, p, m) == m = EndOf(h, s, n) + p

(* ... and its value takes as much room as it did there.                   *)
LEMMA NextEnd ==
  ASSUME NEW h, NEW s \in Seq(IndexType), NEW n \in 0..Len(s), NEW j \in 1..Len(s), NEW k,
         NEW p \in Nat, NEW m, HeaderOK(h), Laid(h, s), j = n + 1, s[j].tag = k, p % 8 = 0,
         EndsAt(h, s, n, p, m)
  PROVE  EndsAt(h, s, j, p, m + alignment(m, h[k].dataType) + Len(h[k].contents))
<1> DEFINE e == EndOf(h, s, n)
           a == alignment(e, h[k].dataType)
           c == Len(h[k].contents)
<1>1. e \in Nat
  BY EndOfType
<1>2. k \in DOMAIN h /\ s[j].dataType = h[k].dataType /\ j - 1 = n
  BY DEF Laid
<1>3. s[j].offset = e + a
  BY <1>2 DEF Laid
<1>4. a \in Nat /\ alignment(e + p, h[k].dataType) = a
  BY <1>1, AlignmentFacts
<1>5. c \in Nat
  BY <1>2, EntryFields DEF HeaderOK
<1>6. EndOf(h, s, j) = e + a + c
  BY <1>3 DEF EndOf
<1> HIDE DEF e, a, c
<1>7. (e + p) + a + c = (e + a + c) + p
  BY <1>1, <1>4, <1>5
<1>8. m = e + p
  BY DEF EndsAt, e
<1> QED
  BY <1>4, <1>6, <1>7, <1>8 DEF a, c, EndsAt

(* The padding is a multiple of 8.                                         *)
LEMMA PaddingMultiple ==
  ASSUME TypeOK, FileInv, NEW n \in Nat, NEW e \in Nat, needed = LengthOf(n, e),
         needed + entryLength <= orig
  PROVE  /\ reservedPadding(needed, orig) \in Nat
         /\ reservedPadding(needed, orig) % 8 = 0
<1> DEFINE f == finalPadding(96 + e + entryLength + entryLength * n)
<1>1. f \in 0..7 /\ (96 + e + 16 + 16 * n + f) % 8 = 0
  <2>1. 96 + e + entryLength + entryLength * n \in Nat
    BY DEF entryLength
  <2> QED
    BY <2>1, FinalPaddingFacts DEF entryLength
<1>2. needed = 16 + 16 * (n + 1) + e + 16 + f
  BY DEF LengthOf, introLength, entryLength
<1>3. orig \in Nat /\ orig % 8 = 0 /\ needed \in Nat /\ needed + 16 <= orig
  BY DEF TypeOK, FileInv, entryLength
<1> HIDE DEF f
<1>4. needed % 8 = 0
  BY <1>1, <1>2
<1>5. orig - needed - 16 \in Nat /\ (orig - needed - 16) % 8 = 0
  BY <1>3, <1>4
<1> QED
  BY <1>5 DEF reservedPadding, entryLength

(* A round of WriteTo's loop.                                              *)
LEMMA WriteTagFacts ==
  ASSUME IInv, WriteTag
  PROVE  /\ UNCHANGED <<pc, hdr, sameSize, needed, out, signs, meant,
                        file, whole, orig, consumed, next>>
         /\ pc \in {"size", "write"}
         /\ \E k \in todo :
              /\ k \in DOMAIN hdr /\ hdr[k] \in EntryType /\ k \in Int
              /\ \A j \in todo : k <= j
              /\ index' = Append(index, RecordOf(hdr, k, Len(blobs)))
              /\ blobs' = blobs \o Zeros(alignment(Len(blobs), hdr[k].dataType)) \o hdr[k].contents
              /\ todo' = todo \ {k}
              /\ alignment(Len(blobs), hdr[k].dataType) \in Nat
              /\ blobs' \in Seq(Bytes)
              /\ Len(blobs') = Len(blobs) + alignment(Len(blobs), hdr[k].dataType)
                                 + Len(hdr[k].contents)
<1>1. /\ UNCHANGED <<pc, hdr, sameSize, needed, out, signs, meant,
                     file, whole, orig, consumed, next>>
      /\ pc \in {"size", "write"}
  BY DEF WriteTag, readerVars
<1>2. PICK k \in todo :
        /\ \A j \in todo : k <= j
        /\ index' = Append(index, RecordOf(hdr, k, Len(blobs)))
        /\ blobs' = blobs \o Zeros(alignment(Len(blobs), hdr[k].dataType)) \o hdr[k].contents
        /\ todo' = todo \ {k}
  BY DEF WriteTag, RecordOf
<1>3. k \in DOMAIN hdr /\ hdr[k] \in EntryType /\ k \in Int /\ blobs \in Seq(Bytes)
      /\ Len(blobs) \in Nat
  BY StateFacts DEF IInv, HeaderOK
<1> DEFINE a == alignment(Len(blobs), hdr[k].dataType)
           c == hdr[k].contents
<1>4. a \in Nat
  BY <1>3, AlignmentFacts
<1>5. Zeros(a) \in Seq(Bytes) /\ Len(Zeros(a)) = a
  BY <1>4, ZerosType
<1>6. c \in Seq(Bytes) /\ Len(c) \in Nat
  BY <1>3, EntryFields
<1> HIDE DEF a, c
<1> DEFINE z == Zeros(a)
<1> HIDE DEF z
<1>7. blobs \o z \in Seq(Bytes) /\ Len(blobs \o z) = Len(blobs) + a
  BY <1>3, <1>5, ConcatFacts DEF z
<1> DEFINE b == blobs \o z
<1> HIDE DEF b
<1>8. b \o c \in Seq(Bytes) /\ Len(b \o c) = Len(b) + Len(c)
  BY <1>6, <1>7, ConcatFacts DEF b
<1>9. blobs' = b \o c
  BY <1>2 DEF a, b, c, z
<1>10. blobs' \in Seq(Bytes) /\ Len(blobs') = Len(blobs) + a + Len(c)
  BY <1>7, <1>8, <1>9 DEF b
<1> QED
  BY <1>1, <1>2, <1>3, <1>4, <1>10 DEF a, c

(* One round of WriteTo's loop keeps the invariant.                        *)
LEMMA WriteTagIInv == IInv /\ WriteTag => IInv'
<1> SUFFICES ASSUME IInv, WriteTag PROVE IInv'
  OBVIOUS
<1>1. /\ UNCHANGED <<pc, hdr, sameSize, needed, out, signs, meant,
                     file, whole, orig, consumed, next>>
      /\ pc \in {"size", "write"}
  BY WriteTagFacts
<1>2. PICK k \in todo :
        /\ k \in DOMAIN hdr /\ hdr[k] \in EntryType /\ k \in Int
        /\ \A j \in todo : k <= j
        /\ index' = Append(index, RecordOf(hdr, k, Len(blobs)))
        /\ todo' = todo \ {k}
        /\ alignment(Len(blobs), hdr[k].dataType) \in Nat
        /\ blobs' \in Seq(Bytes)
        /\ Len(blobs') = Len(blobs) + alignment(Len(blobs), hdr[k].dataType)
                           + Len(hdr[k].contents)
  BY WriteTagFacts
<1>3. /\ TypeOK /\ HeaderOK(hdr) /\ index \in Seq(IndexType) /\ todo \subseteq DOMAIN hdr
      /\ Laid(hdr, index) /\ Len(blobs) = EndOf(hdr, index, Len(index))
      /\ keys(hdr) = todo \cup TagsOf(index)
      /\ \A i \in 1..Len(index), t \in todo : index[i].tag < t
      /\ Len(index) \in Nat /\ Len(blobs) \in Nat
  BY <1>1, StateFacts DEF IInv, PassInv
<1>4. /\ index' \in Seq(IndexType) /\ Len(index') = Len(index) + 1
      /\ Laid(hdr, index')
      /\ EndOf(hdr, index', Len(index')) = Len(blobs')
      /\ TagsOf(index') = TagsOf(index) \cup {k}
  <2>1. \A i \in 1..Len(index) : index[i].tag < k
    BY <1>3
  <2>2. HeaderOK(hdr) /\ index \in Seq(IndexType) /\ Laid(hdr, index) /\ k \in DOMAIN hdr
        /\ Len(blobs) = EndOf(hdr, index, Len(index))
        /\ index' = Append(index, RecordOf(hdr, k, Len(blobs)))
    BY <1>2, <1>3
  <2>3. index' \in Seq(IndexType) /\ Len(index') = Len(index) + 1
    BY <2>1, <2>2, AppendLaid
  <2>4. Laid(hdr, index')
    BY <2>1, <2>2, AppendLaid
  <2>5. EndOf(hdr, index', Len(index'))
          = Len(blobs) + alignment(Len(blobs), hdr[k].dataType) + Len(hdr[k].contents)
    <3>1. index'[Len(index')] = RecordOf(hdr, k, Len(blobs)) /\ Len(index') # 0
      BY <1>3, <2>2, <2>3
    <3>2. /\ RecordOf(hdr, k, Len(blobs)).tag = k
          /\ RecordOf(hdr, k, Len(blobs)).offset
               = Len(blobs) + alignment(Len(blobs), hdr[k].dataType)
      BY DEF RecordOf
    <3> QED
      BY <3>1, <3>2 DEF EndOf
  <2>6. TagsOf(index') = TagsOf(index) \cup {k}
    <3>1. /\ index'[Len(index) + 1].tag = k
          /\ \A i \in 1..Len(index) : index'[i].tag = index[i].tag
      BY <1>3, <2>2, <2>3 DEF RecordOf
    <3>2. 1..Len(index') = 1..Len(index) \cup {Len(index) + 1}
      BY <1>3, <2>3
    <3> QED
      BY <3>1, <3>2 DEF TagsOf
  <2> QED
    BY <1>2, <2>3, <2>4, <2>5, <2>6, Zenon
<1>5. TypeOK'
  <2>1. todo' \subseteq DOMAIN hdr
    BY <1>2, <1>3
  <2> QED
    BY <1>1, <1>2, <1>3, <1>4, <2>1 DEF TypeOK
<1>6. FileInv'
  BY <1>1 DEF IInv, FileInv
<1>7. PassInv'
  <2>1. keys(hdr)' = keys(hdr)
    BY <1>1 DEF keys
  <2>2. keys(hdr)' = todo' \cup TagsOf(index')
    BY <1>2, <1>3, <1>4, <2>1
  <2>3. ASSUME NEW i \in 1..Len(index'), NEW t \in todo'
        PROVE  index'[i].tag < t
    <3>1. t \in todo /\ t # k /\ t \in Int /\ k < t
      BY <1>2, <1>3 DEF HeaderOK
    <3>2. CASE i = Len(index) + 1
      BY <1>2, <1>3, <3>1, <3>2 DEF RecordOf
    <3>3. CASE i # Len(index) + 1
      <4>1. i \in 1..Len(index) /\ index'[i] = index[i]
        BY <1>2, <1>3, <1>4, <3>3
      <4> QED
        BY <1>3, <3>1, <4>1
    <3> QED
      BY <3>2, <3>3
  <2> QED
    BY <1>1, <1>4, <2>2, <2>3 DEF PassInv
<1>8. SizeInv'
  <2>1. pc' = "size" => sameSize' /\ SIG_RESERVEDSPACE \notin DOMAIN hdr'
    BY <1>1 DEF IInv, SizeInv
  <2>2. SameSizeWhenItFits'
    BY <1>1 DEF SameSizeWhenItFits
  <2>3. ASSUME pc = "write", sameSize, needed + entryLength <= orig
        PROVE  \E s \in Seq(IndexType) : Reserved(s)'
    <3>1. PICK s \in Seq(IndexType) : Reserved(s)
      BY <2>3 DEF IInv, SizeInv
    <3> DEFINE n == Len(index)
               p == reservedPadding(needed, orig)
               L == Len(s)
               RES == SIG_RESERVEDSPACE
    <3>2. /\ Laid(hdr, s) /\ RES \notin TagsOf(s) /\ RES \in DOMAIN hdr
          /\ needed = LengthOf(L, EndOf(hdr, s, L)) /\ hdr[RES] = BinEntry(Zeros(p))
      BY <3>1 DEF Reserved
    <3>3. L \in Nat /\ EndOf(hdr, s, L) \in Nat
      BY <1>3, <3>2, EndOfType
    <3>4. p \in Nat /\ p % 8 = 0
      BY <2>3, <3>2, <3>3, PaddingMultiple DEF IInv
    <3>5. /\ hdr[RES].dataType = RPM_BIN_TYPE /\ Len(hdr[RES].contents) = p
          /\ Zeros(p) \in Seq(Bytes)
      BY <3>2, <3>4, ZerosType, BinEntryType
    <3>6. p' = p /\ n' = n + 1
      BY <1>1, <1>4
    <3> HIDE DEF p, L, RES
    <3>7. ASSUME \/ /\ n + 1 \in 0..L /\ Len(blobs') = EndOf(hdr, s, n + 1)
                    /\ todo' = {RES} \cup {s[j].tag : j \in (n + 2)..L}
                 \/ /\ n + 1 \in 1..(L + 1) /\ Len(blobs') = EndOf(hdr, s, n) + p
                    /\ todo' = {s[j].tag : j \in (n + 1)..L}
          PROVE  Reserved(s)'
      <4>1. n + 1 + 1 = n + 2 /\ n + 1 - 1 = n
        BY <1>3
      <4> QED
        BY <1>1, <3>2, <3>6, <3>7, <4>1 DEF Reserved, p, L, RES
    <3>8. CASE /\ n \in 0..L /\ Len(blobs) = EndOf(hdr, s, n)
               /\ todo = {RES} \cup {s[j].tag : j \in (n + 1)..L}
      <4>1. CASE k = RES
        <5>1. alignment(Len(blobs), hdr[k].dataType) = 0
          BY <1>3, <3>5, <4>1, AlignmentFacts
        <5>2. Len(blobs') = EndOf(hdr, s, n) + p
          <6>1. Len(blobs') = Len(blobs) + 0 + p
            BY <1>2, <3>5, <4>1, <5>1
          <6> QED
            BY <1>3, <3>4, <3>8, <6>1
        <5>3. RES \notin {s[j].tag : j \in (n + 1)..L}
          BY <1>3, <3>2, <3>3 DEF TagsOf, L
        <5>4. todo' = {s[j].tag : j \in (n + 1)..L}
          BY <1>2, <3>8, <4>1, <5>3
        <5>5. n + 1 \in 1..(L + 1)
          BY <1>3, <3>3, <3>8
        <5> QED
          BY <3>7, <5>2, <5>4, <5>5
      <4>2. CASE k # RES
        <5> DEFINE S == {s[j].tag : j \in (n + 1)..L}
        <5>1. k \in S /\ \A t \in S : k <= t
          BY <1>2, <3>8, <4>2
        <5>2. /\ n + 1 \in 1..L /\ s[n + 1].tag = k
              /\ S \ {k} = {s[j].tag : j \in (n + 2)..L}
          BY <3>2, <3>8, <5>1, SmallestLeft, Zenon DEF L
        <5>3. Len(blobs') = EndOf(hdr, s, n + 1)
          <6>1. EndOf(hdr, s, n) \in Nat /\ EndOf(hdr, s, n + 1) \in Nat
            BY <1>3, <3>2, <3>3, <3>8, <5>2, EndOfType DEF L
          <6>2. EndsAt(hdr, s, n, 0, Len(blobs))
            BY <3>8, <6>1 DEF EndsAt
          <6>3. EndsAt(hdr, s, n + 1, 0, Len(blobs) + alignment(Len(blobs), hdr[k].dataType)
                                           + Len(hdr[k].contents))
            <7>1. HeaderOK(hdr) /\ Laid(hdr, s) /\ n \in 0..Len(s) /\ n + 1 \in 1..Len(s)
              BY <1>3, <3>2, <3>8, <5>2 DEF L
            <7>2. 0 \in Nat /\ 0 % 8 = 0 /\ n + 1 = n + 1 /\ s[n + 1].tag = k
              BY <5>2
            <7> HIDE DEF n
            <7> QED
              BY <6>2, <7>1, <7>2, NextEnd, Zenon
          <6> QED
            BY <1>2, <6>1, <6>3 DEF EndsAt
        <5>4. todo' = {RES} \cup {s[j].tag : j \in (n + 2)..L}
          BY <1>2, <3>8, <4>2, <5>2
        <5>5. n + 1 \in 0..L
          BY <5>2
        <5> QED
          BY <3>7, <5>3, <5>4, <5>5
      <4> QED
        BY <4>1, <4>2
    <3>9. CASE /\ n \in 1..(L + 1) /\ Len(blobs) = EndOf(hdr, s, n - 1) + p
               /\ todo = {s[j].tag : j \in n..L}
      <4> DEFINE m == n - 1
      <4>1. m \in 0..L /\ m + 1 = n /\ m + 2 = n + 1
        BY <1>3, <3>3, <3>9
      <4>2. todo = {s[j].tag : j \in (m + 1)..L}
        BY <3>9, <4>1
      <4>3. k \in {s[j].tag : j \in (m + 1)..L} /\ \A t \in {s[j].tag : j \in (m + 1)..L} : k <= t
        BY <1>2, <4>2
      <4> HIDE DEF m
      <4>4. /\ m + 1 \in 1..L /\ s[m + 1].tag = k
            /\ {s[j].tag : j \in (m + 1)..L} \ {k} = {s[j].tag : j \in (m + 2)..L}
        <5>1. ASSUME NEW i \in 0..Len(s), k \in {s[j].tag : j \in (i + 1)..Len(s)},
                     \A t \in {s[j].tag : j \in (i + 1)..Len(s)} : k <= t
              PROVE  /\ i + 1 \in 1..Len(s) /\ s[i + 1].tag = k
                     /\ {s[j].tag : j \in (i + 1)..Len(s)} \ {k}
                          = {s[j].tag : j \in (i + 2)..Len(s)}
          <6>1. Laid(hdr, s)
            BY <3>2
          <6> QED
            BY <5>1, <6>1, SmallestLeft, Zenon
        <5> QED
          BY <4>1, <4>3, <5>1, Zenon DEF L
      <4>5. Len(blobs') = EndOf(hdr, s, n) + p
        <5>1. EndsAt(hdr, s, m, p, Len(blobs))
          BY <3>9 DEF m, EndsAt
        <5>2. /\ HeaderOK(hdr) /\ Laid(hdr, s) /\ m \in 0..Len(s) /\ n \in 1..Len(s)
              /\ n = m + 1 /\ s[n].tag = k
          BY <1>3, <3>2, <4>1, <4>4 DEF L
        <5> HIDE DEF n
        <5>3. EndsAt(hdr, s, n, p, Len(blobs) + alignment(Len(blobs), hdr[k].dataType)
                                     + Len(hdr[k].contents))
          BY <3>4, <5>1, <5>2, NextEnd, Zenon
        <5> QED
          BY <1>2, <5>3, Zenon DEF EndsAt
      <4>6. todo' = {s[j].tag : j \in (n + 1)..L}
        BY <1>2, <4>1, <4>2, <4>4
      <4>7. n + 1 \in 1..(L + 1)
        BY <1>3, <3>3, <4>1, <4>4
      <4> QED
        BY <3>7, <4>5, <4>6, <4>7
    <3>10. \/ /\ n \in 0..L /\ Len(blobs) = EndOf(hdr, s, n)
              /\ todo = {RES} \cup {s[j].tag : j \in (n + 1)..L}
           \/ /\ n \in 1..(L + 1) /\ Len(blobs) = EndOf(hdr, s, n - 1) + p
              /\ todo = {s[j].tag : j \in n..L}
      BY <3>1 DEF Reserved, p, L, RES
    <3> QED
      BY <3>8, <3>9, <3>10, Zenon
  <2> QED
    BY <1>1, <2>1, <2>2, <2>3 DEF SizeInv
<1> QED
  BY <1>5, <1>6, <1>7, <1>8 DEF IInv

(* The start of DumpSignatureHeader keeps the invariant.                   *)
LEMMA DumpIInv ==
  ASSUME NEW same \in BOOLEAN
  PROVE  IInv /\ DumpSignatureHeader(same) => IInv'
<1> SUFFICES ASSUME IInv, DumpSignatureHeader(same) PROVE IInv'
  OBVIOUS
<1>1. /\ pc = "signed" /\ hdr' = Delete(hdr, {SIG_RESERVEDSPACE}) /\ sameSize' = same
      /\ pc' = (IF same THEN "size" ELSE "write") /\ StartWriteTo(hdr')
  BY DEF DumpSignatureHeader
<1>2. UNCHANGED <<file, whole, orig, consumed, next, needed, out, signs, meant>>
  BY DEF DumpSignatureHeader, readerVars
<1>3. TypeOK /\ FileInv /\ HeaderOK(hdr)
  BY StateFacts DEF IInv
<1>4. HeaderOK(hdr') /\ SIG_RESERVEDSPACE \notin DOMAIN hdr'
  <2>1. SIG_RESERVEDSPACE \notin DOMAIN Delete(hdr, {SIG_RESERVEDSPACE})
    BY DEF Delete
  <2>2. HeaderOK(Delete(hdr, {SIG_RESERVEDSPACE}))
    BY <1>3, DeleteType
  <2> QED
    BY <1>1, <2>1, <2>2
<1>5. pc' \in {"size", "write"} /\ (pc' = "size" => same) /\ (pc' = "write" => ~same)
  BY <1>1
<1>6. /\ index' = <<>> /\ blobs' = <<>> /\ todo' \subseteq DOMAIN hdr' /\ PassInv'
  BY <1>1, <1>5, StartsPass
<1>7. TypeOK'
  <2>1. index' \in Seq(IndexType) /\ blobs' \in Seq(Bytes)
    BY <1>6
  <2> QED
    BY <1>1, <1>2, <1>3, <1>4, <1>5, <1>6, <2>1 DEF TypeOK, HeaderOK
<1>8. FileInv'
  BY <1>2, <1>3, <1>5 DEF FileInv
<1>9. SizeInv'
  BY <1>1, <1>4, <1>5 DEF SizeInv, SameSizeWhenItFits
<1> QED
  BY <1>6, <1>7, <1>8, <1>9 DEF IInv

(* Records stay laid out when tags are added to the header.                *)
LEMMA LaidGrows ==
  ASSUME NEW h, NEW g, NEW s \in Seq(IndexType), Laid(h, s),
         \A t \in DOMAIN h : t \in DOMAIN g /\ g[t] = h[t]
  PROVE  /\ Laid(g, s)
         /\ \A i \in 0..Len(s) : EndOf(g, s, i) = EndOf(h, s, i)
<1>1. Len(s) \in Nat
  OBVIOUS
<1>2. \A i \in 1..Len(s) : /\ s[i].tag \in DOMAIN h /\ s[i].tag \in DOMAIN g
                           /\ g[s[i].tag] = h[s[i].tag]
  BY DEF Laid
<1>3. ASSUME NEW i \in 0..Len(s) PROVE EndOf(g, s, i) = EndOf(h, s, i)
  <2>1. i = 0 \/ i \in 1..Len(s)
    BY <1>1
  <2> QED
    BY <1>2, <2>1 DEF EndOf
<1>4. ASSUME NEW i \in 1..Len(s)
      PROVE  /\ s[i].tag \in DOMAIN g
             /\ s[i].dataType = g[s[i].tag].dataType /\ s[i].count = g[s[i].tag].count
             /\ s[i].offset = EndOf(g, s, i - 1) + alignment(EndOf(g, s, i - 1), s[i].dataType)
             /\ \A j \in 1..Len(s) : i < j => s[i].tag < s[j].tag
  <2>1. EndOf(g, s, i - 1) = EndOf(h, s, i - 1)
    BY <1>1, <1>3
  <2>2. /\ s[i].dataType = h[s[i].tag].dataType /\ s[i].count = h[s[i].tag].count
        /\ s[i].offset = EndOf(h, s, i - 1) + alignment(EndOf(h, s, i - 1), s[i].dataType)
        /\ \A j \in 1..Len(s) : i < j => s[i].tag < s[j].tag
    BY DEF Laid
  <2> QED
    BY <1>2, <2>1, <2>2
<1>5. Laid(g, s)
  BY <1>4 DEF Laid
<1> QED
  BY <1>3, <1>5

(* The end of the size pass keeps the invariant.                           *)
LEMMA SizeKnownIInv == IInv /\ SizeKnown => IInv'
<1> SUFFICES ASSUME IInv, SizeKnown PROVE IInv'
  OBVIOUS
<1> DEFINE n == BlockLength(Written)
           p == reservedPadding(n, orig)
           RES == SIG_RESERVEDSPACE
<1>1. /\ pc = "size" /\ todo = {} /\ needed' = n /\ pc' = "write" /\ StartWriteTo(hdr')
      /\ hdr' = IF n + entryLength <= orig THEN Put(hdr, RES, BinEntry(Zeros(p))) ELSE hdr
  BY DEF SizeKnown
<1>2. UNCHANGED <<file, whole, orig, consumed, next, sameSize, out, signs, meant>>
  BY DEF SizeKnown, readerVars
<1>3. /\ TypeOK /\ FileInv /\ HeaderOK(hdr) /\ index \in Seq(IndexType)
      /\ Len(index) \in Nat /\ orig \in Nat
      /\ Laid(hdr, index) /\ Len(blobs) = EndOf(hdr, index, Len(index))
      /\ keys(hdr) = TagsOf(index) /\ sameSize /\ RES \notin DOMAIN hdr
  BY <1>1, StateFacts DEF IInv, PassInv, SizeInv
<1>4. n \in Nat /\ n = LengthOf(Len(index), Len(blobs))
  BY <1>3, WrittenOK, BlockRead
<1> HIDE DEF n
<1>5. ASSUME n + entryLength <= orig PROVE p \in Nat
  BY <1>3, <1>4, <1>5 DEF entryLength, reservedPadding
<1> HIDE DEF p
<1>6. HeaderOK(hdr')
  <2>1. CASE n + entryLength <= orig
    <3>1. BinEntry(Zeros(p)) \in EntryType
      BY <1>5, <2>1, ZerosType, BinEntryType
    <3>2. RES \in Int
      BY DEF SIG_RESERVEDSPACE
    <3> QED
      BY <1>1, <1>3, <2>1, <3>1, <3>2, PutType
  <2>2. CASE ~(n + entryLength <= orig)
    BY <1>1, <1>3, <2>2
  <2> QED
    BY <2>1, <2>2
<1>7. /\ index' = <<>> /\ blobs' = <<>> /\ todo' = keys(hdr')
      /\ todo' \subseteq DOMAIN hdr' /\ PassInv'
  BY <1>1, StartsPass
<1>8. TypeOK'
  <2>1. index' \in Seq(IndexType) /\ blobs' \in Seq(Bytes)
    BY <1>7
  <2> QED
    BY <1>1, <1>2, <1>3, <1>4, <1>6, <1>7, <2>1 DEF TypeOK, HeaderOK
<1>9. FileInv'
  BY <1>1, <1>2, <1>3 DEF FileInv
<1>10. PICK s \in Seq(IndexType) : s = index
  BY <1>3
<1>11. ASSUME n + entryLength <= orig PROVE Reserved(s)'
  <2>1. hdr' = Put(hdr, RES, BinEntry(Zeros(p)))
    BY <1>1, <1>11
  <2>2. /\ DOMAIN hdr' = DOMAIN hdr \cup {RES} /\ hdr'[RES] = BinEntry(Zeros(p))
        /\ \A t \in DOMAIN hdr : t \in DOMAIN hdr' /\ hdr'[t] = hdr[t]
    <3>1. ASSUME NEW x
          PROVE  /\ DOMAIN Put(hdr, RES, x) = DOMAIN hdr \cup {RES} /\ Put(hdr, RES, x)[RES] = x
                 /\ \A t \in DOMAIN hdr : t # RES => Put(hdr, RES, x)[t] = hdr[t]
      BY DEF Put
    <3> HIDE DEF RES
    <3> QED
      BY <1>3, <2>1, <3>1, Zenon
  <2>3. /\ Laid(hdr', s)
        /\ \A i \in 0..Len(s) : EndOf(hdr', s, i) = EndOf(hdr, s, i)
    BY <1>3, <1>10, <2>2, LaidGrows
  <2>4. RES \notin TagsOf(s)
    BY <1>3, <1>10 DEF keys
  <2>5. needed' = LengthOf(Len(s), EndOf(hdr', s, Len(s)))
    <3>1. EndOf(hdr', s, Len(s)) = Len(blobs)
      BY <1>3, <1>10, <2>3
    <3> QED
      BY <1>1, <1>4, <1>10, <3>1
  <2>6. keys(hdr') = {RES} \cup TagsOf(s)
    <3>1. RES >= RPMTAG_HEADERREGIONS
      BY DEF SIG_RESERVEDSPACE, RPMTAG_HEADERREGIONS
    <3> HIDE DEF RES
    <3>2. keys(hdr') = {RES} \cup keys(hdr)
      BY <2>2, <3>1 DEF keys
    <3> QED
      BY <1>3, <1>10, <3>2
  <2>7. todo' = {RES} \cup {s[j].tag : j \in (0 + 1)..Len(s)}
    BY <1>7, <2>6 DEF TagsOf
  <2>8. Len(index') = 0 /\ Len(blobs') = EndOf(hdr', s, 0) /\ 0 \in 0..Len(s)
    BY <1>3, <1>7, <1>10 DEF EndOf
  <2>9. p = reservedPadding(needed', orig')
    BY <1>1, <1>2 DEF p
  <2> QED
    BY <2>2, <2>3, <2>4, <2>5, <2>7, <2>8, <2>9 DEF Reserved
<1>12. SizeInv'
  <2>1. needed' + entryLength <= orig' => \E x \in Seq(IndexType) : Reserved(x)'
    BY <1>1, <1>2, <1>11
  <2> QED
    BY <1>1, <2>1 DEF SizeInv, SameSizeWhenItFits
<1> QED
  BY <1>7, <1>8, <1>9, <1>12 DEF IInv

(* The padding tag adds its record and its value to the length.            *)
LEMMA PaddedLength ==
  ASSUME NEW n \in Nat, NEW e \in Nat, NEW p \in Nat, p % 8 = 0
  PROVE  LengthOf(n + 1, e + p) = LengthOf(n, e) + 16 + p
<1> DEFINE m == 96 + e + entryLength + entryLength * n
           f == finalPadding(m)
<1>1. m \in Nat
  BY DEF entryLength
<1>2. p + 16 \in Nat /\ (p + 16) % 8 = 0
  OBVIOUS
<1>3. 96 + (e + p) + entryLength + entryLength * (n + 1) = m + (p + 16)
  BY DEF entryLength
<1> HIDE DEF m
<1>4. finalPadding(m + (p + 16)) = f /\ f \in Nat
  <2>1. /\ finalPadding(m) \in 0..7
        /\ \A q \in Nat : q % 8 = 0 => finalPadding(m + q) = finalPadding(m)
    BY <1>1, FinalPaddingFacts
  <2>2. finalPadding(m + (p + 16)) = finalPadding(m)
    BY <1>2, <2>1, Zenon
  <2> QED
    BY <2>1, <2>2
<1>5. LengthOf(n, e) = 16 + 16 * (n + 1) + e + 16 + f
  BY DEF LengthOf, m, introLength, entryLength
<1>6. LengthOf(n + 1, e + p) = 16 + 16 * (n + 1 + 1) + (e + p) + 16 + f
  BY <1>3, <1>4 DEF LengthOf, introLength, entryLength
<1> HIDE DEF f
<1>7. 16 + 16 * (n + 1 + 1) + (e + p) + 16 + f = (16 + 16 * (n + 1) + e + 16 + f) + 16 + p
  BY <1>4
<1> QED
  BY <1>5, <1>6, <1>7

(* The second pass, when it is done, fills the block.                      *)
LEMMA FillsUp ==
  ASSUME IInv, pc = "write", todo = {}, sameSize, needed + entryLength <= orig
  PROVE  BlockLength(Written) = orig
<1>1. PICK s \in Seq(IndexType) : Reserved(s)
  BY DEF IInv, SizeInv
<1> DEFINE p == reservedPadding(needed, orig)
           L == Len(s)
           e == EndOf(hdr, s, L)
<1>2. /\ TypeOK /\ FileInv /\ HeaderOK(hdr) /\ Laid(hdr, s) /\ needed = LengthOf(L, e)
      /\ L \in Nat /\ Len(index) \in Nat /\ orig \in Nat /\ needed \in Nat
  BY <1>1, StateFacts DEF IInv, Reserved
<1>3. e \in Nat
  BY <1>2, EndOfType
<1>4. p \in Nat /\ p % 8 = 0 /\ needed + 16 + p = orig
  <2>1. p \in Nat /\ p % 8 = 0
    BY <1>2, <1>3, PaddingMultiple
  <2> QED
    BY <1>2, <2>1 DEF reservedPadding, entryLength
<1>5. /\ Len(index) \in 1..(L + 1) /\ Len(blobs) = EndOf(hdr, s, Len(index) - 1) + p
      /\ {s[j].tag : j \in Len(index)..L} = {}
  BY <1>1 DEF Reserved
<1>6. Len(index) = L + 1
  <2>1. L \notin Len(index)..L
    BY <1>5
  <2> QED
    BY <1>2, <1>5, <2>1
<1>7. Len(blobs) = e + p
  BY <1>2, <1>5, <1>6
<1> HIDE DEF p, L, e
<1>8. LengthOf(L + 1, e + p) = LengthOf(L, e) + 16 + p
  <2>1. L \in Nat /\ e \in Nat /\ p \in Nat /\ p % 8 = 0
    BY <1>2, <1>3, <1>4
  <2>2. ASSUME NEW a \in Nat, NEW b \in Nat, NEW c \in Nat, c % 8 = 0
        PROVE  LengthOf(a + 1, b + c) = LengthOf(a, b) + 16 + c
    BY <2>2, PaddedLength
  <2> QED
    BY <2>1, <2>2, Zenon
<1>9. BlockLength(Written) = LengthOf(Len(index), Len(blobs))
  BY <1>2, WrittenOK
<1> QED
  BY <1>2, <1>4, <1>6, <1>7, <1>8, <1>9

(* The end of DumpSignatureHeader keeps the invariant.                     *)
LEMMA DumpDoneIInv == IInv /\ DumpDone => IInv'
<1> SUFFICES ASSUME IInv, DumpDone PROVE IInv'
  OBVIOUS
<1>1. /\ pc = "write" /\ todo = {} /\ out' = Written /\ pc' = "dumped" /\ TypeOK /\ FileInv
      /\ PassInv
  BY DEF DumpDone, IInv
<1>2. UNCHANGED <<file, whole, orig, consumed, next, hdr, sameSize, todo, index, blobs,
                  needed, signs>>
  BY DEF DumpDone, readerVars
<1>3. BlockOK(Written)
  BY <1>1, WrittenOK
<1>4. TypeOK'
  BY <1>1, <1>2, <1>3 DEF TypeOK, BlockOK
<1>5. FileInv'
  BY <1>1, <1>2, <1>3 DEF FileInv
<1>6. PassInv'
  <2>1. keys(hdr)' = keys(hdr)
    BY <1>2 DEF keys
  <2> QED
    BY <1>1, <1>2, <2>1 DEF PassInv
<1>7. SizeInv'
  <2>1. sameSize /\ needed + entryLength <= orig => BlockLength(out') = orig
    BY <1>1, FillsUp
  <2>2. BlockLength(out)' = BlockLength(out')
    BY DEF BlockLength
  <2> QED
    BY <1>1, <1>2, <2>1, <2>2 DEF SizeInv, SameSizeWhenItFits
<1> QED
  BY <1>4, <1>5, <1>6, <1>7 DEF IInv

(* A stuttering step keeps the invariant.                                  *)
LEMMA StutterIInv == IInv /\ UNCHANGED vars => IInv'
<1> SUFFICES ASSUME IInv, UNCHANGED vars PROVE IInv'
  OBVIOUS
<1>1. TypeOK' /\ FileInv'
  BY DEF IInv, vars, TypeOK, FileInv
<1>2. PassInv'
  BY DEF IInv, vars, PassInv, keys
<1>3. SizeInv'
  <2>1. ASSUME NEW s PROVE Reserved(s)' = Reserved(s)
    BY DEF vars, Reserved
  <2> QED
    BY <2>1 DEF IInv, vars, SizeInv, SameSizeWhenItFits
<1> QED
  BY <1>1, <1>2, <1>3 DEF IInv

-----------------------------------------------------------------------------
(* Every state of the program satisfies the invariant, whatever the blocks *)
(* of the packages, the lengths of the signatures and their number.        *)
THEOREM Invariance == Spec => []IInv
<1>1. Init => IInv
  BY InitIInv
<1>2. IInv /\ [Next]_vars => IInv'
  BY ReadHeaderIInv, ParseTagIInv, ParseEndIInv, SignIInv, DumpIInv, WriteTagIInv,
     SizeKnownIInv, DumpDoneIInv, ReplaceIInv, StutterIInv DEF Next
<1> QED
  BY <1>1, <1>2, PTL DEF Spec

(* The variables of the reader and the writer keep their types.            *)
THEOREM TypeCorrect == Spec => []TypeOK
<1>1. IInv => TypeOK
  BY DEF IInv
<1> QED
  BY <1>1, Invariance, PTL

(* Records that are laid out one behind the other are sorted, aligned and  *)
(* do not overlap.                                                         *)
LEMMA LaidWellFormed == IInv => IndexWellFormed
<1> SUFFICES ASSUME IInv, pc \in {"size", "write", "dumped"}, NEW i \in 1..Len(index)
             PROVE  /\ index[i].dataType \in DOMAIN typeAlign =>
                         index[i].offset % typeAlign[index[i].dataType] = 0
                    /\ index[i].offset + Len(hdr[index[i].tag].contents) <=
                         IF i = Len(index) THEN Len(blobs) ELSE index[i + 1].offset
                    /\ i < Len(index) => index[i].tag < index[i + 1].tag
  BY DEF IndexWellFormed
<1>1. /\ HeaderOK(hdr) /\ index \in Seq(IndexType) /\ Len(index) \in Nat
      /\ Laid(hdr, index) /\ Len(blobs) = EndOf(hdr, index, Len(index))
  BY StateFacts DEF IInv, PassInv
<1>2. \A j \in 0..Len(index) : EndOf(hdr, index, j) \in Nat
  BY <1>1, EndOfType
<1>3. EndOf(hdr, index, i) = index[i].offset + Len(hdr[index[i].tag].contents)
  BY <1>1 DEF EndOf
<1>4. ASSUME index[i].dataType \in DOMAIN typeAlign
      PROVE  index[i].offset % typeAlign[index[i].dataType] = 0
  <2> DEFINE e == EndOf(hdr, index, i - 1)
  <2>1. e \in Nat /\ index[i].offset = e + alignment(e, index[i].dataType)
    BY <1>1, <1>2 DEF Laid
  <2> HIDE DEF e
  <2> QED
    BY <1>4, <2>1, AlignmentFacts
<1>5. CASE i = Len(index)
  BY <1>1, <1>2, <1>3, <1>4, <1>5
<1>6. CASE i # Len(index)
  <2> DEFINE e == EndOf(hdr, index, i)
  <2>1. i + 1 \in 1..Len(index) /\ i + 1 - 1 = i /\ i < i + 1 /\ e \in Nat
    BY <1>1, <1>2, <1>6
  <2>2. index[i + 1].offset = e + alignment(e, index[i + 1].dataType)
    BY <1>1, <2>1 DEF Laid
  <2>3. index[i].tag < index[i + 1].tag
    BY <1>1, <2>1 DEF Laid
  <2> HIDE DEF e
  <2>4. alignment(e, index[i + 1].dataType) \in Nat
    BY <2>1, AlignmentFacts
  <2>5. e <= index[i + 1].offset
    BY <2>1, <2>2, <2>4
  <2> QED
    BY <1>3, <1>4, <1>6, <2>3, <2>5 DEF e
<1> QED
  BY <1>5, <1>6

(* writeTag: the index is sorted and aligned and no two values overlap,    *)
(* for any tags a header may hold.                                         *)
THEOREM IndexOrdered == Spec => []IndexWellFormed
BY Invariance, LaidWellFormed, PTL

(* WriteTo's padding and readHeader's rounding agree on where the general  *)
(* header begins.                                                          *)
THEOREM StopsAtGeneralHeader == Spec => []ReaderStopsAtGeneralHeader
<1>1. IInv => ReaderStopsAtGeneralHeader
  BY DEF IInv, FileInv, BlockOK, ReaderStopsAtGeneralHeader
<1> QED
  BY <1>1, Invariance, PTL

(* DumpSignatureHeader(true) returns exactly as many bytes as were read    *)
(* whenever the padding tag fits: the premise of rewriteRpm's in-place     *)
(* route.                                                                  *)
THEOREM SizeKept == Spec => []SameSizeWhenItFits
<1>1. IInv => SameSizeWhenItFits
  BY DEF IInv, SizeInv
<1> QED
  BY <1>1, Invariance, PTL

-----------------------------------------------------------------------------
(* Strings in the data: the NULs between two places, and the places that   *)
(* stringEnd may return.                                                   *)
NulsIn(data, off, p) == {q \in (off + 1)..p : data[q] = NUL}
EndsOf(data, off, k) ==
  {p \in off..Len(data) : Cardinality(NulsIn(data, off, p)) = k /\ (p = off \/ data[p] = NUL)}

(* stringEnd returns one of these places, or -1.                           *)
LEMMA StringEndIs ==
  ASSUME NEW data, NEW off, NEW k
  PROVE  stringEnd(data, off, k) = IF EndsOf(data, off, k) = {} THEN -1
                                   ELSE CHOOSE p \in EndsOf(data, off, k) : TRUE
BY DEF stringEnd, EndsOf, NulsIn

(* They can be counted.                                                    *)
LEMMA NulsFinite ==
  ASSUME NEW data, NEW off \in Nat, NEW p \in Nat
  PROVE  /\ IsFiniteSet(NulsIn(data, off, p))
         /\ Cardinality(NulsIn(data, off, p)) \in Nat
<1>1. IsFiniteSet((off + 1)..p)
  <2>1. off + 1 \in Int /\ p \in Int
    OBVIOUS
  <2> QED
    BY <2>1, FS_Interval
<1>2. NulsIn(data, off, p) \in SUBSET ((off + 1)..p)
  BY DEF NulsIn
<1>3. IsFiniteSet(NulsIn(data, off, p))
  BY <1>1, <1>2, FS_Subset
<1> QED
  BY <1>3, FS_CardinalityType

(* There is at most one such place.                                        *)
LEMMA OneEnd ==
  ASSUME NEW data \in Seq(Bytes), NEW off \in Nat, NEW k,
         NEW p \in EndsOf(data, off, k), NEW r \in EndsOf(data, off, k)
  PROVE  ~(p < r)
<1> SUFFICES ASSUME p < r PROVE FALSE
  OBVIOUS
<1> DEFINE S == NulsIn(data, off, r)
           T == NulsIn(data, off, p)
<1>1. Len(data) \in Nat
  OBVIOUS
<1>2. p \in Nat /\ r \in Nat /\ off <= p /\ off < r /\ data[r] = NUL
  BY <1>1 DEF EndsOf
<1>3. Cardinality(S) = k /\ Cardinality(T) = k
  BY DEF EndsOf
<1>4. T \in SUBSET S
  BY <1>2 DEF NulsIn
<1>5. r \in S /\ r \notin T
  BY <1>2 DEF NulsIn
<1>6. IsFiniteSet(S)
  BY <1>2, NulsFinite
<1> HIDE DEF S, T
<1>7. S = T
  BY <1>3, <1>4, <1>6, FS_Subset
<1> QED
  BY <1>5, <1>7

(* So stringEnd returns it.                                                *)
LEMMA StringEndAt ==
  ASSUME NEW data \in Seq(Bytes), NEW off \in Nat, NEW k, NEW p \in EndsOf(data, off, k)
  PROVE  stringEnd(data, off, k) = p
<1>1. stringEnd(data, off, k) \in EndsOf(data, off, k)
  BY StringEndIs
<1> DEFINE r == stringEnd(data, off, k)
<1> HIDE DEF r
<1>2. p \in Int /\ r \in Int
  BY <1>1 DEF EndsOf, r
<1>3. ~(p < r) /\ ~(r < p)
  BY <1>1, OneEnd DEF r
<1> QED
  BY <1>2, <1>3 DEF r

(* The same bytes have their NULs in the same places.                      *)
LEMMA NulsMoved ==
  ASSUME NEW data, NEW c, NEW off \in Nat, NEW n \in Nat,
         \A q \in 1..n : data[off + q] = c[q]
  PROVE  Cardinality(NulsIn(data, off, off + n)) = Cardinality(NulsIn(c, 0, n))
<1> DEFINE S == NulsIn(c, 0, n)
           T == NulsIn(data, off, off + n)
           f == [q \in S |-> off + q]
<1>1. \A q \in S : q \in 1..n /\ c[q] = NUL
  BY DEF NulsIn
<1>2. \A q \in 1..n : c[q] = NUL => q \in S
  BY DEF NulsIn
<1>3. \A q \in T : q - off \in 1..n /\ off + (q - off) = q /\ data[q] = NUL
  BY DEF NulsIn
<1>4. \A q \in 1..n : data[off + q] = NUL => off + q \in T
  BY DEF NulsIn
<1> HIDE DEF S, T
<1>5. f \in [S -> T]
  BY <1>1, <1>4
<1>6. \A a, b \in S : f[a] = f[b] => a = b
  BY <1>1
<1>7. \A t \in T : \E q \in S : f[q] = t
  <2> TAKE t \in T
  <2>1. t - off \in S
    BY <1>2, <1>3
  <2>2. f[t - off] = t
    BY <1>3, <2>1
  <2> QED
    BY <2>1, <2>2
<1>8. f \in Bijection(S, T)
  BY <1>5, <1>6, <1>7 DEF Bijection, Injection, IsInjective, Surjection
<1>9. ExistsBijection(S, T)
  BY <1>8 DEF ExistsBijection
<1>10. IsFiniteSet(S)
  BY NulsFinite DEF S
<1> QED
  BY <1>9, <1>10, FS_Bijection DEF S, T

(* A value that is copied keeps its end.                                   *)
LEMMA EndMoved ==
  ASSUME NEW data \in Seq(Bytes), NEW c \in Seq(Bytes), NEW off \in Nat, NEW k,
         off + Len(c) <= Len(data), \A q \in 1..Len(c) : data[off + q] = c[q]
  PROVE  off + Len(c) \in EndsOf(data, off, k) <=> Len(c) \in EndsOf(c, 0, k)
<1>1. Len(c) \in Nat /\ Len(data) \in Nat
  OBVIOUS
<1>2. Cardinality(NulsIn(data, off, off + Len(c))) = Cardinality(NulsIn(c, 0, Len(c)))
  BY <1>1, NulsMoved
<1>3. off + Len(c) \in off..Len(data) /\ Len(c) \in 0..Len(c)
  BY <1>1
<1>4. off + Len(c) = off <=> Len(c) = 0
  BY <1>1
<1>5. Len(c) # 0 => data[off + Len(c)] = c[Len(c)]
  BY <1>1
<1> QED
  BY <1>2, <1>3, <1>4, <1>5 DEF EndsOf

(* The types with a fixed size.                                            *)
LEMMA TypeSizes ==
  /\ \A t \in DOMAIN typeSizes : typeSizes[t] \in Nat
  /\ RPM_BIN_TYPE \in DOMAIN typeSizes /\ typeSizes[RPM_BIN_TYPE] = 1
<1>1. /\ DOMAIN typeSizes = {0, 1, 2, 7, 3, 4, 5}
      /\ typeSizes[0] = 0 /\ typeSizes[1] = 1 /\ typeSizes[2] = 1 /\ typeSizes[7] = 1
      /\ typeSizes[3] = 2 /\ typeSizes[4] = 4 /\ typeSizes[5] = 8
  BY Alignments DEF typeSizes, RPM_NULL_TYPE, RPM_CHAR_TYPE, RPM_INT8_TYPE, RPM_BIN_TYPE
<1> QED
  BY <1>1 DEF RPM_BIN_TYPE

(* Where readHeader ends the value of a record, and the entry it makes.    *)
EndFor(r, data) ==
  IF r.dataType \in DOMAIN typeSizes THEN r.offset + typeSizes[r.dataType] * r.count
  ELSE stringEnd(data, r.offset, r.count)

EntryFor(r, data) ==
  [dataType |-> r.dataType, count |-> r.count,
   contents |-> SubSeq(data, r.offset + 1, EndFor(r, data))]

(* The length of a value of fixed-size elements.                           *)
LEMMA SizedLength ==
  ASSUME NEW t \in DOMAIN typeSizes, NEW n \in Nat
  PROVE  typeSizes[t] * n \in Nat
BY TypeSizes

(* A binary value is as long as its count says.                            *)
LEMMA BinContents ==
  ASSUME NEW c \in Seq(Bytes)
  PROVE  ContentsOK(BinEntry(c))
<1>1. Len(c) \in Nat
  OBVIOUS
<1>2. 1 * Len(c) = Len(c)
  BY <1>1
<1> QED
  BY <1>2, BinEntryType, TypeSizes DEF ContentsOK

(* What is read from anywhere is as long as its type and count say.        *)
LEMMA ParsedContents ==
  ASSUME NEW r \in IndexType, NEW data \in Seq(Bytes), EndFor(r, data) \in 0..Len(data)
  PROVE  ContentsOK(EntryFor(r, data))
<1> DEFINE end == EndFor(r, data)
           off == r.offset
           c == SubSeq(data, off + 1, end)
<1>1. off \in Nat /\ r.count \in Nat /\ Len(data) \in Nat /\ end \in 0..Len(data)
  BY IndexFields
<1>2. /\ EntryFor(r, data).dataType = r.dataType /\ EntryFor(r, data).count = r.count
      /\ EntryFor(r, data).contents = c
  BY DEF EntryFor
<1>3. CASE r.dataType \in DOMAIN typeSizes
  <2> DEFINE m == typeSizes[r.dataType] * r.count
  <2>1. m \in Nat /\ end = off + m
    BY <1>1, <1>3, SizedLength DEF EndFor
  <2> HIDE DEF m, end, off
  <2>2. Len(c) = m
    BY <1>1, <2>1
  <2> QED
    BY <1>2, <1>3, <2>2 DEF ContentsOK, m
<1>4. CASE r.dataType \notin DOMAIN typeSizes
  <2>1. end = stringEnd(data, off, r.count) /\ end # -1
    BY <1>1, <1>4 DEF EndFor
  <2>2. end \in EndsOf(data, off, r.count)
    BY <2>1, StringEndIs
  <2>3. off <= end
    BY <1>1, <2>2 DEF EndsOf
  <2> HIDE DEF end, off
  <2>4. c \in Seq(Bytes) /\ Len(c) = end - off /\ \A q \in 1..Len(c) : data[off + q] = c[q]
    BY <1>1, <2>3
  <2> HIDE DEF c
  <2>5. off + Len(c) = end /\ off + Len(c) <= Len(data) /\ Len(c) \in Nat
    BY <1>1, <2>3, <2>4
  <2>6. Len(c) \in EndsOf(c, 0, r.count)
    BY <1>1, <2>2, <2>4, <2>5, EndMoved
  <2>7. stringEnd(c, 0, r.count) = Len(c)
    BY <2>4, <2>6, StringEndAt
  <2> QED
    BY <1>2, <1>4, <2>7 DEF ContentsOK
<1> QED
  BY <1>3, <1>4

(* A record that points to an entry is read back as that entry.            *)
LEMMA ReadsBack ==
  ASSUME NEW r \in IndexType, NEW x \in EntryType, NEW data \in Seq(Bytes),
         PointsTo(r, x, data), ContentsOK(x)
  PROVE  EndFor(r, data) \in 0..Len(data) /\ EntryFor(r, data) = x
<1> DEFINE c == x.contents
           off == r.offset
<1>1. /\ off \in Nat /\ Len(data) \in Nat /\ c \in Seq(Bytes) /\ Len(c) \in Nat
      /\ r.count \in Nat /\ x.count = r.count /\ x.dataType = r.dataType
      /\ off + Len(c) <= Len(data) /\ \A q \in 1..Len(c) : data[off + q] = c[q]
  BY IndexFields, EntryFields DEF PointsTo
<1>2. EndFor(r, data) = off + Len(c)
  <2>1. CASE r.dataType \in DOMAIN typeSizes
    BY <1>1, <2>1 DEF EndFor, ContentsOK
  <2>2. CASE r.dataType \notin DOMAIN typeSizes
    <3>1. Len(c) = stringEnd(c, 0, r.count)
      BY <1>1, <2>2 DEF ContentsOK
    <3> HIDE DEF c, off
    <3>2. stringEnd(c, 0, r.count) # -1
      BY <1>1, <3>1
    <3>3. Len(c) \in EndsOf(c, 0, r.count)
      BY <3>1, <3>2, StringEndIs
    <3>4. off + Len(c) \in EndsOf(data, off, r.count)
      BY <1>1, <3>3, EndMoved
    <3>5. stringEnd(data, off, r.count) = off + Len(c)
      BY <1>1, <3>4, StringEndAt
    <3> QED
      BY <2>2, <3>5 DEF EndFor, off
  <2> QED
    BY <2>1, <2>2
<1>3. EndFor(r, data) \in 0..Len(data)
  BY <1>1, <1>2
<1>4. SubSeq(data, off + 1, off + Len(c)) = c
  <2> HIDE DEF c, off
  <2>1. ASSUME NEW s, s = SubSeq(data, off + 1, off + Len(c))
        PROVE  s \in Seq(Bytes) /\ Len(s) = Len(c) /\ \A i \in 1..Len(s) : s[i] = c[i]
    BY <1>1, <2>1
  <2> QED
    BY <1>1, <2>1, SeqEqual
<1>5. x = [dataType |-> x.dataType, count |-> x.count, contents |-> x.contents]
  BY DEF EntryType
<1> QED
  BY <1>1, <1>2, <1>3, <1>4, <1>5 DEF EntryFor

-----------------------------------------------------------------------------
(* Every record of a header's image is read back as the entry it is of;    *)
(* the region tag is read, and discarded later.                            *)
LEMMA ImageRead ==
  ASSUME NEW h, NEW b, BlockOK(b), Image(h, b), NEW i \in 1..Len(b.index)
  PROVE  /\ EndFor(b.index[i], b.data) \in 0..Len(b.data)
         /\ i = 1 => b.index[i].tag = RPMTAG_HEADERSIGNATURES
         /\ i # 1 => /\ b.index[i].tag \in keys(h)
                     /\ EntryFor(b.index[i], b.data) = h[b.index[i].tag]
<1> DEFINE r == b.index[i]
           data == b.data
<1>1. /\ b.index \in Seq(IndexType) /\ Len(b.index) \in Nat
      /\ data \in Seq(Bytes) /\ Len(data) \in Nat
  BY BlockFields DEF BlockOK
<1>2. r \in IndexType
  BY <1>1
<1>3. CASE i = 1
  <2>1. /\ r.tag = RPMTAG_HEADERSIGNATURES /\ r.dataType = RPM_BIN_TYPE
        /\ r.offset + r.count <= Len(data)
    BY <1>3 DEF Image
  <2>2. r.offset \in Nat /\ r.count \in Nat
    BY <1>2, IndexFields
  <2>3. EndFor(r, data) = r.offset + 1 * r.count
    BY <2>1, TypeSizes DEF EndFor
  <2>4. EndFor(r, data) \in 0..Len(data)
    BY <1>1, <2>1, <2>2, <2>3
  <2> QED
    BY <1>3, <2>1, <2>4
<1>4. CASE i # 1
  <2>1. i \in 2..Len(b.index)
    BY <1>1, <1>4
  <2>2. r.tag \in DOMAIN h /\ PointsTo(r, h[r.tag], data) /\ r.tag \in keys(h)
    BY <2>1 DEF Image
  <2>3. h[r.tag] \in EntryType /\ ContentsOK(h[r.tag])
    BY <2>2 DEF Image
  <2>4. EndFor(r, data) \in 0..Len(data) /\ EntryFor(r, data) = h[r.tag]
    BY <1>1, <1>2, <2>2, <2>3, ReadsBack
  <2> QED
    BY <1>4, <2>2, <2>4
<1> QED
  BY <1>3, <1>4

(* The tags WriteTo sorts after one was put in.                            *)
LEMMA KeysPut ==
  ASSUME NEW h, NEW k \in Int, NEW x
  PROVE  keys(Put(h, k, x)) = IF k >= RPMTAG_HEADERREGIONS THEN keys(h) \cup {k} ELSE keys(h)
<1>1. DOMAIN Put(h, k, x) = DOMAIN h \cup {k}
  BY DEF Put
<1> QED
  BY <1>1 DEF keys

(* Put keeps contents as long as types and counts say.                     *)
LEMMA PutContents ==
  ASSUME NEW h, \A t \in DOMAIN h : ContentsOK(h[t]), NEW k, NEW x, ContentsOK(x)
  PROVE  \A t \in DOMAIN Put(h, k, x) : ContentsOK(Put(h, k, x)[t])
<1> DEFINE g == Put(h, k, x)
<1>1. /\ DOMAIN g = DOMAIN h \cup {k} /\ g[k] = x
      /\ \A t \in DOMAIN h : t # k => g[t] = h[t]
  BY DEF Put
<1> HIDE DEF g
<1>2. \A t \in DOMAIN g : ContentsOK(g[t])
  BY <1>1, Zenon
<1> QED
  BY <1>2 DEF g

(* Delete keeps contents as long as types and counts say.                  *)
LEMMA DeleteContents ==
  ASSUME NEW h, \A t \in DOMAIN h : ContentsOK(h[t]), NEW ks
  PROVE  \A t \in DOMAIN Delete(h, ks) : ContentsOK(Delete(h, ks)[t])
<1> DEFINE g == Delete(h, ks)
<1>1. DOMAIN g = DOMAIN h \ ks /\ \A t \in DOMAIN h \ ks : g[t] = h[t]
  BY DEF Delete
<1> HIDE DEF g
<1>2. \A t \in DOMAIN g : ContentsOK(g[t])
  BY <1>1, Zenon
<1> QED
  BY <1>2 DEF g

(* So does insertSignatures.                                               *)
LEMMA InsertContents ==
  ASSUME NEW h, \A t \in DOMAIN h : ContentsOK(h[t]), NEW c \in Seq(Bytes), NEW d \in Seq(Bytes)
  PROVE  \A t \in DOMAIN insertSignatures(h, c, d) : ContentsOK(insertSignatures(h, c, d)[t])
<1> DEFINE g == Put(h, SIG_PGP, BinEntry(c))
           f == Put(g, SIG_RSA, BinEntry(d))
<1>1. ContentsOK(BinEntry(c)) /\ ContentsOK(BinEntry(d))
  BY BinContents
<1>2. \A t \in DOMAIN g : ContentsOK(g[t])
  BY <1>1, PutContents
<1> HIDE DEF g
<1>3. \A t \in DOMAIN f : ContentsOK(f[t])
  BY <1>1, <1>2, PutContents
<1> HIDE DEF f
<1>4. \A t \in DOMAIN Delete(f, {SIG_GPG, SIG_DSA}) : ContentsOK(Delete(f, {SIG_GPG, SIG_DSA})[t])
  BY <1>3, DeleteContents
<1> QED
  BY <1>4 DEF insertSignatures, f, g

(* The initial state satisfies what reading back needs.                    *)
LEMMA InitTrip == Init => TripInv
<1> SUFFICES ASSUME Init PROVE TripInv
  OBVIOUS
<1>1. DOMAIN NoTags = {} /\ hdr = NoTags /\ pc = "closed" /\ signs = 0
  BY DEF Init, NoTags
<1> QED
  BY <1>1 DEF TripInv

(* Reading the intro keeps what reading back needs.                        *)
LEMMA ReadHeaderTrip == IInv /\ TripInv /\ ReadHeader => TripInv'
<1> SUFFICES ASSUME IInv, TripInv, ReadHeader PROVE TripInv'
  OBVIOUS
<1>1. UNCHANGED <<file, whole, signs, meant>> /\ pc = "closed"
  BY DEF ReadHeader, writerVars
<1>2. Image(meant, file)' = Image(meant, file)
  BY <1>1 DEF Image, keys, PointsTo
<1>3. CASE pc' = "parsing" /\ hdr' = NoTags /\ next' = 0
  <2>1. DOMAIN hdr' = {} /\ keys(hdr') = {}
    BY <1>3 DEF NoTags, keys
  <2>2. {file.index[i].tag : i \in 2..0} = {}
    BY <1>3
  <2> QED
    BY <1>1, <1>2, <1>3, <2>1, <2>2 DEF TripInv
<1>4. CASE pc' = "read error" /\ hdr' = hdr
  BY <1>1, <1>2, <1>4 DEF TripInv
<1> QED
  BY <1>3, <1>4 DEF ReadHeader

(* One round of readHeader's loop keeps what reading back needs.           *)
LEMMA ParseTagTrip == IInv /\ TripInv /\ ParseTag => TripInv'
<1> SUFFICES ASSUME IInv, TripInv, ParseTag PROVE TripInv'
  OBVIOUS
<1> DEFINE r == file.index[next + 1]
           data == file.data
<1>1. /\ BlockOK(file) /\ pc = "parsing" /\ next < file.entries /\ next \in 0..file.entries
      /\ HeaderOK(hdr)
  BY StateFacts DEF IInv, FileInv, ParseTag, TypeOK
<1>2. UNCHANGED <<file, signs, meant>>
  BY DEF ParseTag, writerVars
<1>3. /\ file.entries = Len(file.index) /\ Len(file.index) \in Nat /\ dataRead = data
      /\ file.index \in Seq(IndexType) /\ data \in Seq(Bytes)
  BY <1>1, BlockFields, DataRead DEF BlockOK
<1>4. next \in Nat /\ next + 1 \in 1..Len(file.index) /\ r \in IndexType /\ r.tag \in Int
  <2>1. next \in Nat /\ next + 1 \in 1..Len(file.index)
    BY <1>1, <1>3
  <2> QED
    BY <1>3, <2>1, IndexFields
<1>5. Image(meant, file)' = Image(meant, file)
  BY <1>2 DEF Image, keys, PointsTo
<1>6. ASSUME signs > 0
      PROVE  /\ EndFor(r, data) \in 0..Len(data)
             /\ next = 0 => r.tag = RPMTAG_HEADERSIGNATURES
             /\ next # 0 => r.tag \in keys(meant) /\ EntryFor(r, data) = meant[r.tag]
  <2>1. Image(meant, file)
    BY <1>1, <1>6 DEF TripInv
  <2>2. ASSUME NEW i \in 1..Len(file.index)
        PROVE  /\ EndFor(file.index[i], file.data) \in 0..Len(file.data)
               /\ i = 1 => file.index[i].tag = RPMTAG_HEADERSIGNATURES
               /\ i # 1 => /\ file.index[i].tag \in keys(meant)
                           /\ EntryFor(file.index[i], file.data) = meant[file.index[i].tag]
    BY <1>1, <2>1, ImageRead
  <2>3. next = 0 <=> next + 1 = 1
    BY <1>4
  <2> QED
    BY <1>4, <2>2, <2>3, Zenon
<1>7. \/ /\ EndFor(r, data) \notin 0..Len(data) /\ hdr' = hdr
         /\ pc' \in {"truncated tag", "panic"}
      \/ /\ EndFor(r, data) \in 0..Len(data)
         /\ hdr' = Put(hdr, r.tag, EntryFor(r, data))
         /\ next' = next + 1 /\ pc' = pc
  BY <1>3 DEF ParseTag, EndFor, EntryFor
<1> HIDE DEF r, data
<1>8. CASE /\ EndFor(r, data) \notin 0..Len(data) /\ hdr' = hdr
           /\ pc' \in {"truncated tag", "panic"}
  BY <1>2, <1>6, <1>8 DEF TripInv
<1>9. CASE /\ EndFor(r, data) \in 0..Len(data)
           /\ hdr' = Put(hdr, r.tag, EntryFor(r, data))
           /\ next' = next + 1 /\ pc' = pc
  <2> DEFINE x == EntryFor(r, data)
  <2>1. ContentsOK(x)
    BY <1>3, <1>4, <1>9, ParsedContents
  <2> HIDE DEF x
  <2>2. \A t \in DOMAIN hdr' : ContentsOK(hdr'[t])
    <3>1. \A t \in DOMAIN hdr : ContentsOK(hdr[t])
      BY DEF TripInv
    <3>2. ASSUME NEW k, NEW y, ContentsOK(y)
          PROVE  \A t \in DOMAIN Put(hdr, k, y) : ContentsOK(Put(hdr, k, y)[t])
      BY <3>1, <3>2, PutContents
    <3> QED
      BY <1>9, <2>1, <3>2, Zenon DEF x
  <2>3. /\ DOMAIN hdr' = DOMAIN hdr \cup {r.tag} /\ hdr'[r.tag] = x
        /\ \A t \in DOMAIN hdr : t # r.tag => hdr'[t] = hdr[t]
    <3>1. hdr' = Put(hdr, r.tag, x)
      BY <1>9 DEF x
    <3>2. /\ DOMAIN Put(hdr, r.tag, x) = DOMAIN hdr \cup {r.tag} /\ Put(hdr, r.tag, x)[r.tag] = x
          /\ \A t \in DOMAIN hdr : t # r.tag => Put(hdr, r.tag, x)[t] = hdr[t]
      BY DEF Put
    <3> QED
      BY <3>1, <3>2
  <2>4. ASSUME signs > 0
        PROVE  /\ keys(hdr') = {file.index[i].tag : i \in 2..(next + 1)}
               /\ \A t \in keys(hdr') : hdr'[t] = meant[t]
    <3>1. /\ keys(hdr) = {file.index[i].tag : i \in 2..next}
          /\ \A t \in keys(hdr) : hdr[t] = meant[t]
      BY <1>1, <2>4 DEF TripInv
    <3>2. CASE next = 0
      <4>1. r.tag = RPMTAG_HEADERSIGNATURES /\ ~(r.tag >= RPMTAG_HEADERREGIONS)
        BY <1>6, <2>4, <3>2 DEF RPMTAG_HEADERSIGNATURES, RPMTAG_HEADERREGIONS
      <4>2. keys(hdr') = keys(hdr)
        BY <2>3, <4>1 DEF keys
      <4>3. 2..next = {} /\ 2..(next + 1) = {}
        BY <3>2
      <4>4. keys(hdr') = {}
        BY <3>1, <4>2, <4>3
      <4> QED
        BY <4>3, <4>4
    <3>3. CASE next # 0
      <4>1. r.tag \in keys(meant) /\ x = meant[r.tag]
        BY <1>6, <2>4, <3>3 DEF x
      <4>2. keys(hdr') = keys(hdr) \cup {r.tag}
        BY <2>3, <4>1 DEF keys
      <4>3. 2..(next + 1) = 2..next \cup {next + 1}
        BY <1>4, <3>3
      <4>4. keys(hdr') = {file.index[i].tag : i \in 2..(next + 1)}
        BY <3>1, <4>2, <4>3 DEF r
      <4>5. ASSUME NEW t \in keys(hdr') PROVE hdr'[t] = meant[t]
        <5>1. t = r.tag \/ (t \in keys(hdr) /\ t \in DOMAIN hdr)
          BY <4>2 DEF keys
        <5> QED
          BY <2>3, <3>1, <4>1, <5>1, Zenon
      <4> QED
        BY <4>4, <4>5
    <3> QED
      BY <3>2, <3>3
  <2> QED
    BY <1>1, <1>2, <1>5, <1>9, <2>2, <2>4 DEF TripInv
<1> QED
  BY <1>7, <1>8, <1>9

(* The end of readHeader's loop keeps what reading back needs.             *)
LEMMA ParseEndTrip == IInv /\ TripInv /\ ParseEnd => TripInv'
<1> SUFFICES ASSUME IInv, TripInv, ParseEnd PROVE TripInv'
  OBVIOUS
<1>1. UNCHANGED <<file, next, hdr, signs, meant>> /\ pc = "parsing" /\ pc' = "open"
      /\ next = file.entries
  BY DEF ParseEnd, readerVars, writerVars
<1>2. Image(meant, file)' = Image(meant, file) /\ keys(hdr)' = keys(hdr)
  BY <1>1 DEF Image, keys, PointsTo
<1> QED
  BY <1>1, <1>2 DEF TripInv

(* Signing keeps what reading back needs.                                  *)
LEMMA SignTrip == IInv /\ TripInv /\ Sign => TripInv'
<1> SUFFICES ASSUME IInv, TripInv, Sign PROVE TripInv'
  OBVIOUS
<1>1. pc' = "signed"
  BY DEF Sign
<1>2. PICK m \in SigSizes, n \in SigSizes :
        hdr' = insertSignatures(hdr, Signature(signs, m), Signature(signs, n))
  BY DEF Sign
<1>3. signs \in Nat /\ m \in Nat /\ n \in Nat
  <2>1. signs \in 0..MaxSigns
    BY DEF IInv, TypeOK
  <2> QED
    BY <2>1, SigSizesAssumption, MaxSignsAssumption
<1>4. Signature(signs, m) \in Seq(Bytes) /\ Signature(signs, n) \in Seq(Bytes)
  BY <1>3, SignatureType
<1>5. \A t \in DOMAIN hdr' : ContentsOK(hdr'[t])
  <2>1. \A t \in DOMAIN hdr : ContentsOK(hdr[t])
    BY DEF TripInv
  <2>2. ASSUME NEW c \in Seq(Bytes), NEW d \in Seq(Bytes)
        PROVE  \A t \in DOMAIN insertSignatures(hdr, c, d) :
                  ContentsOK(insertSignatures(hdr, c, d)[t])
    BY <2>1, InsertContents
  <2> QED
    BY <1>2, <1>4, <2>2, Zenon
<1> QED
  BY <1>1, <1>5 DEF TripInv

(* The start of DumpSignatureHeader keeps what reading back needs.         *)
LEMMA DumpTrip ==
  ASSUME NEW same \in BOOLEAN
  PROVE  IInv /\ TripInv /\ DumpSignatureHeader(same) => TripInv'
<1> SUFFICES ASSUME IInv, TripInv, DumpSignatureHeader(same) PROVE TripInv'
  OBVIOUS
<1>1. pc' \in {"size", "write"} /\ hdr' = Delete(hdr, {SIG_RESERVEDSPACE}) /\ index' = <<>>
  BY DEF DumpSignatureHeader, StartWriteTo
<1>2. \A t \in DOMAIN hdr' : ContentsOK(hdr'[t])
  <2>1. \A t \in DOMAIN hdr : ContentsOK(hdr[t])
    BY DEF TripInv
  <2>2. ASSUME NEW ks
        PROVE  \A t \in DOMAIN Delete(hdr, ks) : ContentsOK(Delete(hdr, ks)[t])
    BY <2>1, DeleteContents
  <2> QED
    BY <1>1, <2>2, Zenon
<1>3. 1..Len(index') = {}
  BY <1>1
<1> QED
  BY <1>1, <1>2, <1>3 DEF TripInv

(* The end of the size pass keeps what reading back needs.                 *)
LEMMA SizeKnownTrip == IInv /\ TripInv /\ SizeKnown => TripInv'
<1> SUFFICES ASSUME IInv, TripInv, SizeKnown PROVE TripInv'
  OBVIOUS
<1> DEFINE n == BlockLength(Written)
           z == Zeros(reservedPadding(n, orig))
<1>1. /\ pc' = "write" /\ index' = <<>>
      /\ hdr' = IF n + entryLength <= orig THEN Put(hdr, SIG_RESERVEDSPACE, BinEntry(z)) ELSE hdr
  BY DEF SizeKnown, StartWriteTo
<1>2. n \in Nat /\ orig \in Nat
  BY WrittenOK, BlockRead, StateFacts DEF IInv
<1>3. \A t \in DOMAIN hdr : ContentsOK(hdr[t])
  BY DEF TripInv
<1>4. \A t \in DOMAIN hdr' : ContentsOK(hdr'[t])
  <2>1. CASE n + entryLength <= orig
    <3> HIDE DEF n
    <3>1. reservedPadding(n, orig) \in Nat
      BY <1>2, <2>1 DEF reservedPadding, entryLength
    <3>2. ContentsOK(BinEntry(z))
      BY <3>1, ZerosType, BinContents
    <3> HIDE DEF z
    <3>3. ASSUME NEW k, NEW y, ContentsOK(y)
          PROVE  \A t \in DOMAIN Put(hdr, k, y) : ContentsOK(Put(hdr, k, y)[t])
      BY <1>3, <3>3, PutContents
    <3>4. hdr' = Put(hdr, SIG_RESERVEDSPACE, BinEntry(z))
      BY <1>1, <2>1
    <3> QED
      BY <3>2, <3>3, <3>4, Zenon
  <2>2. CASE ~(n + entryLength <= orig)
    BY <1>1, <1>3, <2>2
  <2> QED
    BY <2>1, <2>2
<1>5. 1..Len(index') = {}
  BY <1>1
<1> QED
  BY <1>1, <1>4, <1>5 DEF TripInv

(* A record still points to its entry when the data grows behind it.       *)
LEMMA PointsOn ==
  ASSUME NEW r \in IndexType, NEW x \in EntryType, NEW data \in Seq(Bytes), NEW more \in Seq(Bytes),
         Len(data) <= Len(more), \A q \in 1..Len(data) : more[q] = data[q],
         PointsTo(r, x, data)
  PROVE  PointsTo(r, x, more)
<1>1. /\ r.offset \in Nat /\ Len(x.contents) \in Nat /\ Len(data) \in Nat /\ Len(more) \in Nat
      /\ r.offset + Len(x.contents) <= Len(data)
      /\ r.dataType = x.dataType /\ r.count = x.count
      /\ \A q \in 1..Len(x.contents) : data[r.offset + q] = x.contents[q]
  BY IndexFields, EntryFields DEF PointsTo
<1>2. ASSUME NEW q \in 1..Len(x.contents) PROVE more[r.offset + q] = x.contents[q]
  <2>1. r.offset + q \in 1..Len(data)
    BY <1>1
  <2> QED
    BY <1>1, <2>1
<1>3. r.offset + Len(x.contents) <= Len(more)
  BY <1>1
<1> QED
  BY <1>1, <1>2, <1>3 DEF PointsTo

(* One round of WriteTo's loop keeps what reading back needs.              *)
LEMMA WriteTagTrip == IInv /\ TripInv /\ WriteTag => TripInv'
<1> SUFFICES ASSUME IInv, TripInv, WriteTag PROVE TripInv'
  OBVIOUS
<1>1. UNCHANGED <<pc, hdr, signs, meant>> /\ pc \in {"size", "write"}
  BY WriteTagFacts
<1>2. PICK k \in todo :
        /\ k \in DOMAIN hdr /\ hdr[k] \in EntryType /\ k \in Int
        /\ index' = Append(index, RecordOf(hdr, k, Len(blobs)))
        /\ blobs' = blobs \o Zeros(alignment(Len(blobs), hdr[k].dataType)) \o hdr[k].contents
        /\ alignment(Len(blobs), hdr[k].dataType) \in Nat
        /\ blobs' \in Seq(Bytes)
  BY WriteTagFacts
<1>3. /\ HeaderOK(hdr) /\ index \in Seq(IndexType) /\ Len(index) \in Nat
      /\ blobs \in Seq(Bytes) /\ Len(blobs) \in Nat /\ Laid(hdr, index)
  BY <1>1, StateFacts DEF IInv, PassInv
<1> DEFINE a == alignment(Len(blobs), hdr[k].dataType)
           c == hdr[k].contents
           z == Zeros(a)
           b == blobs \o z
<1>4. a \in Nat /\ z \in Seq(Bytes) /\ Len(z) = a /\ c \in Seq(Bytes) /\ Len(c) \in Nat
  BY <1>2, ZerosType, EntryFields
<1>5. blobs' = b \o c
  BY <1>2
<1>6. /\ RecordOf(hdr, k, Len(blobs)).tag = k
      /\ RecordOf(hdr, k, Len(blobs)).dataType = hdr[k].dataType
      /\ RecordOf(hdr, k, Len(blobs)).count = hdr[k].count
      /\ RecordOf(hdr, k, Len(blobs)).offset = Len(blobs) + a
  BY DEF RecordOf
<1> HIDE DEF a, c, z
<1>7. /\ b \in Seq(Bytes) /\ Len(b) = Len(blobs) + a
      /\ \A q \in 1..Len(blobs) : b[q] = blobs[q]
  BY <1>3, <1>4, ConcatFacts
<1> HIDE DEF b
<1>8. /\ Len(blobs') = Len(b) + Len(c)
      /\ \A q \in 1..Len(b) : blobs'[q] = b[q]
      /\ \A q \in 1..Len(c) : blobs'[Len(b) + q] = c[q]
  <2>1. ASSUME NEW s \in Seq(Bytes), NEW t \in Seq(Bytes)
        PROVE  /\ Len(s \o t) = Len(s) + Len(t)
               /\ \A q \in 1..Len(s) : (s \o t)[q] = s[q]
               /\ \A q \in 1..Len(t) : (s \o t)[Len(s) + q] = t[q]
    BY ConcatFacts
  <2>2. /\ Len(b \o c) = Len(b) + Len(c)
        /\ \A q \in 1..Len(b) : (b \o c)[q] = b[q]
        /\ \A q \in 1..Len(c) : (b \o c)[Len(b) + q] = c[q]
    BY <1>4, <1>7, <2>1, Zenon
  <2> QED
    BY <1>5, <2>2, Zenon
<1>9. Len(blobs) <= Len(blobs') /\ \A q \in 1..Len(blobs) : blobs'[q] = blobs[q]
  <2>1. Len(blobs) <= Len(blobs')
    BY <1>3, <1>4, <1>7, <1>8
  <2>2. ASSUME NEW q \in 1..Len(blobs) PROVE blobs'[q] = blobs[q]
    <3>1. q \in 1..Len(b)
      BY <1>3, <1>4, <1>7
    <3> QED
      BY <1>7, <1>8, <3>1
  <2> QED
    BY <2>1, <2>2
<1>10. ASSUME NEW i \in 1..Len(index')
       PROVE  PointsTo(index'[i], hdr[index'[i].tag], blobs')
  <2>1. CASE i = Len(index) + 1
    <3>1. index'[i] = RecordOf(hdr, k, Len(blobs))
      BY <1>2, <1>3, <2>1
    <3>2. Len(blobs) + a + Len(c) <= Len(blobs')
      BY <1>3, <1>4, <1>7, <1>8
    <3>3. \A q \in 1..Len(c) : blobs'[Len(blobs) + a + q] = c[q]
      BY <1>7, <1>8
    <3> QED
      BY <1>6, <3>1, <3>2, <3>3 DEF PointsTo, c
  <2>2. CASE i # Len(index) + 1
    <3>1. i \in 1..Len(index) /\ index'[i] = index[i]
      BY <1>2, <1>3, <2>2
    <3>2. index[i] \in IndexType /\ hdr[index[i].tag] \in EntryType
      BY <1>3, <3>1 DEF Laid, HeaderOK
    <3>3. PointsTo(index[i], hdr[index[i].tag], blobs)
      BY <1>1, <3>1 DEF TripInv
    <3>4. PointsTo(index[i], hdr[index[i].tag], blobs')
      BY <1>2, <1>3, <1>9, <3>2, <3>3, PointsOn
    <3> QED
      BY <3>1, <3>4
  <2> QED
    BY <2>1, <2>2
<1> QED
  BY <1>1, <1>10 DEF TripInv

(* The end of DumpSignatureHeader keeps what reading back needs.           *)
LEMMA DumpDoneTrip == IInv /\ TripInv /\ DumpDone => TripInv'
<1> SUFFICES ASSUME IInv, TripInv, DumpDone PROVE TripInv'
  OBVIOUS
<1> DEFINE w == Written
<1>1. /\ pc = "write" /\ todo = {} /\ out' = w /\ pc' = "dumped" /\ meant' = hdr
      /\ UNCHANGED <<hdr, index, blobs, signs>>
  BY DEF DumpDone
<1>2. /\ TypeOK /\ HeaderOK(hdr) /\ index \in Seq(IndexType) /\ Len(index) \in Nat
      /\ blobs \in Seq(Bytes) /\ Len(blobs) \in Nat
      /\ Laid(hdr, index) /\ keys(hdr) = TagsOf(index)
  BY <1>1, StateFacts DEF IInv, PassInv
<1>3. /\ BlockOK(w) /\ Len(w.index) = Len(index) + 1
      /\ \A i \in 1..Len(index) : w.index[i + 1] = index[i]
      /\ \A q \in 1..Len(blobs) : w.data[q] = blobs[q]
  BY <1>2, WrittenOK
<1>4. /\ w.index[1].tag = RPMTAG_HEADERSIGNATURES /\ w.index[1].dataType = RPM_BIN_TYPE
      /\ w.index[1].offset + w.index[1].count <= Len(w.data)
      /\ Len(blobs) + 16 <= Len(w.data)
  BY <1>2, WrittenOK DEF entryLength
<1> HIDE DEF w
<1>5. w.data \in Seq(Bytes) /\ Len(w.data) \in Nat /\ Len(blobs) <= Len(w.data)
  <2>1. w.data \in Seq(Bytes) /\ Len(w.data) \in Nat
    BY <1>3, BlockFields DEF BlockOK
  <2> QED
    BY <1>2, <1>4, <2>1
<1>6. ASSUME NEW i \in 2..Len(w.index)
      PROVE  w.index[i].tag \in DOMAIN hdr /\ PointsTo(w.index[i], hdr[w.index[i].tag], w.data)
  <2>1. i - 1 \in 1..Len(index) /\ (i - 1) + 1 = i
    BY <1>2, <1>3
  <2>2. w.index[i] = index[i - 1]
    BY <1>3, <2>1
  <2> DEFINE r == index[i - 1]
  <2>3. r \in IndexType /\ r.tag \in DOMAIN hdr /\ hdr[r.tag] \in EntryType
    BY <1>2, <2>1 DEF Laid, HeaderOK
  <2>4. PointsTo(r, hdr[r.tag], blobs)
    BY <1>1, <2>1 DEF TripInv
  <2>5. PointsTo(r, hdr[r.tag], w.data)
    BY <1>2, <1>3, <1>5, <2>3, <2>4, PointsOn
  <2> QED
    BY <2>2, <2>3, <2>5
<1>7. keys(hdr) = {w.index[i].tag : i \in 2..Len(w.index)}
  <2>1. ASSUME NEW i \in 1..Len(index)
        PROVE  i + 1 \in 2..Len(w.index) /\ w.index[i + 1].tag = index[i].tag
    BY <1>2, <1>3
  <2>2. ASSUME NEW i \in 2..Len(w.index)
        PROVE  \E j \in 1..Len(index) : index[j].tag = w.index[i].tag
    <3>1. i - 1 \in 1..Len(index) /\ (i - 1) + 1 = i
      BY <1>2, <1>3
    <3> QED
      BY <1>3, <3>1
  <2> DEFINE W == {w.index[i].tag : i \in 2..Len(w.index)}
  <2>3. ASSUME NEW t \in TagsOf(index) PROVE t \in W
    BY <2>1 DEF TagsOf
  <2>4. ASSUME NEW t \in W PROVE t \in TagsOf(index)
    BY <2>2 DEF TagsOf
  <2> HIDE DEF W
  <2>5. TagsOf(index) = W
    BY <2>3, <2>4
  <2> QED
    BY <1>2, <2>5 DEF W
<1>8. \A t \in keys(hdr) : hdr[t] \in EntryType /\ ContentsOK(hdr[t])
  BY <1>2 DEF TripInv, HeaderOK, keys
<1>9. Len(w.index) >= 1
  BY <1>2, <1>3
<1>10. Image(hdr, w)
  BY <1>4, <1>6, <1>7, <1>8, <1>9 DEF Image
<1>11. Image(meant, out)'
  <2>1. Image(meant', out')
    BY <1>1, <1>10
  <2> QED
    BY <2>1 DEF Image, keys, PointsTo
<1> QED
  BY <1>1, <1>11 DEF TripInv

(* Replacing the block in the file keeps what reading back needs.          *)
LEMMA ReplaceTrip == IInv /\ TripInv /\ Replace => TripInv'
<1> SUFFICES ASSUME IInv, TripInv, Replace PROVE TripInv'
  OBVIOUS
<1>1. pc = "dumped" /\ pc' = "closed" /\ file' = out /\ UNCHANGED <<hdr, meant, signs>>
  BY DEF Replace, writerVars
<1>2. Image(meant, file)' = Image(meant, out)
  BY <1>1 DEF Image, keys, PointsTo
<1> QED
  BY <1>1, <1>2 DEF TripInv

(* A stuttering step keeps what reading back needs.                        *)
LEMMA StutterTrip == IInv /\ TripInv /\ UNCHANGED vars => TripInv'
<1> SUFFICES ASSUME TripInv, UNCHANGED vars PROVE TripInv'
  OBVIOUS
<1>1. UNCHANGED <<pc, file, hdr, next, index, blobs, out, signs, meant>>
  BY DEF vars
<1>2. /\ Image(meant, file)' = Image(meant, file) /\ Image(meant, out)' = Image(meant, out)
      /\ keys(hdr)' = keys(hdr)
  BY <1>1 DEF Image, keys, PointsTo
<1> QED
  BY <1>1, <1>2 DEF TripInv

(* Every state satisfies what reading back needs.                          *)
THEOREM TripInvariance == Spec => []TripInv
<1>1. Init => TripInv
  BY InitTrip
<1>2. IInv /\ TripInv /\ [Next]_vars => TripInv'
  BY ReadHeaderTrip, ParseTagTrip, ParseEndTrip, SignTrip, DumpTrip, WriteTagTrip,
     SizeKnownTrip, DumpDoneTrip, ReplaceTrip, StutterTrip DEF Next
<1> QED
  BY <1>1, <1>2, Invariance, PTL DEF Spec

(* When the last record has been read, all have been.                      *)
LEMMA TripReturns == IInv /\ TripInv => RoundTrip
<1> SUFFICES ASSUME IInv, TripInv, signs > 0, pc = "open"
             PROVE  keys(hdr) = keys(meant) /\ \A t \in keys(hdr) : hdr[t] = meant[t]
  BY DEF RoundTrip, TripInv
<1>1. /\ Image(meant, file) /\ next = Len(file.index)
      /\ keys(hdr) = {file.index[i].tag : i \in 2..next}
      /\ \A t \in keys(hdr) : hdr[t] = meant[t]
  BY DEF IInv, FileInv, BlockOK, TripInv
<1> QED
  BY <1>1 DEF Image

(* A signed header that is written, in either way, and read again has the  *)
(* tags, types, counts and contents it had: what writeTag lays out is what *)
(* readHeader finds, NULs, padding tag and region tag included, and the    *)
(* reader neither panics nor finds a tag truncated.                        *)
THEOREM ReadsWhatWasWritten == Spec => []RoundTrip
BY Invariance, TripInvariance, TripReturns, PTL
=============================================================================
