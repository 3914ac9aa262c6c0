------------------------------ MODULE SigHeader ------------------------------
(***************************************************************************)
(* The signature header of an RPM file: how it is read (readHeader with    *)
(* sigBlock set, header.go), changed by a signer (insertSignatures,        *)
(* signatures.go) and written back, either as small as possible or padded  *)
(* to the size it had (WriteTo and DumpSignatureHeader, writeheader.go).   *)
(*                                                                         *)
(* The block in the file is an intro (Entries, Size), an index of 16-byte  *)
(* records that point into the data that follows it, and padding to 8      *)
(* bytes; the general header comes right after.  The index records and the *)
(* lengths are exact.  A data byte is NUL, which ends a string, or one of  *)
(* a few other values.                                                     *)
(*                                                                         *)
(* Reading and writing advance by one tag a step, so that the states       *)
(* between two tags are states of the model.                               *)
(***************************************************************************)
EXTENDS Integers, Sequences, FiniteSets

CONSTANTS
    Blocks,    \* signature blocks as rpmbuild leaves them (see BlockType)
    SigSizes,  \* lengths of the OpenPGP signatures a signer makes
    MaxSigns   \* bound on the number of times the file is signed

ASSUME MaxSignsAssumption == MaxSigns \in Nat
ASSUME SigSizesAssumption == SigSizes \subseteq Nat

RPM_NULL_TYPE         == 0
RPM_CHAR_TYPE         == 1
RPM_INT8_TYPE         == 2
RPM_INT16_TYPE        == 3
RPM_INT32_TYPE        == 4
RPM_INT64_TYPE        == 5
RPM_STRING_TYPE       == 6
RPM_BIN_TYPE          == 7
RPM_STRING_ARRAY_TYPE == 8
RPM_I18NSTRING_TYPE   == 9

SIG_DSA           == 267
SIG_RSA           == 268
SIG_PGP           == 1002   \* minus _SIGHEADER_TAG_BASE, as the next two
SIG_GPG           == 1005
SIG_RESERVEDSPACE == 1008
RPMTAG_HEADERSIGNATURES == 62
RPMTAG_HEADERREGIONS    == 64

introLength == 16
entryLength == 16

typeAlign == [t \in {RPM_INT16_TYPE, RPM_INT32_TYPE, RPM_INT64_TYPE} |->
                IF t = RPM_INT16_TYPE THEN 2 ELSE IF t = RPM_INT32_TYPE THEN 4 ELSE 8]

typeSizes == [t \in {RPM_NULL_TYPE, RPM_CHAR_TYPE, RPM_INT8_TYPE, RPM_BIN_TYPE}
                      \cup DOMAIN typeAlign |->
                IF t = RPM_NULL_TYPE THEN 0
                ELSE IF t \in DOMAIN typeAlign THEN typeAlign[t] ELSE 1]

NUL        == 0
RegionByte == 2   \* a byte of the region tag's own record
Bytes      == 0..2

Zeros(n) == [i \in 1..n |-> NUL]

EntryType == [dataType : 0..9, count : Nat, contents : Seq(Bytes)]
IndexType == [tag : Int, dataType : 0..9, offset : Nat, count : Nat]
(* data reaches to the end of the block, padding included.                 *)
BlockType == [entries : Nat, size : Nat, index : Seq(IndexType), data : Seq(Bytes)]

BlockLength(b) == introLength + entryLength * Len(b.index) + Len(b.data)

(* What the intro announces is there, padded to 8 bytes.                   *)
BlockOK(b) ==
  /\ b \in BlockType
  /\ b.entries = Len(b.index)
  /\ Len(b.data) - b.size \in 0..7 /\ BlockLength(b) % 8 = 0

ASSUME BlocksAssumption == \A b \in Blocks : BlockOK(b)

VARIABLES
    pc,        \* what the program is doing
    file,      \* the signature block in the file
    whole,     \* the stream does not end inside the block
    hdr,       \* rpmHeader.entries: tag -> entry
    orig,      \* len(rpmHeader.orig)
    consumed,  \* where the reader expects the general header
    next,      \* number of index records parsed
    sameSize,  \* the argument of DumpSignatureHeader
    todo,      \* the tags WriteTo has not written yet
    index,     \* WriteTo: records written so far
    blobs,     \* WriteTo: data written so far
    needed,    \* result of the size pass
    out,       \* the block DumpSignatureHeader returned
    signs,     \* number of signings so far
    \* observation, not state of the program:
    meant      \* the tags the header held when it was written last

vars == <<pc, file, whole, hdr, orig, consumed, next, sameSize, todo, index,
          blobs, needed, out, signs, meant>>
writerVars == <<sameSize, todo, index, blobs, needed, out, meant>>
readerVars == <<file, whole, orig, consumed, next>>

NoBlock == [entries |-> 0, size |-> 0, index |-> <<>>, data |-> <<>>]
NoTags  == [t \in {} |-> NoBlock]

Put(h, k, e)  == [t \in DOMAIN h \cup {k} |-> IF t = k THEN e ELSE h[t]]
Delete(h, ks) == [t \in DOMAIN h \ ks |-> h[t]]
BinEntry(c)   == [dataType |-> RPM_BIN_TYPE, count |-> Len(c), contents |-> c]

Init ==
  /\ pc = "closed"
  /\ file \in Blocks /\ whole \in BOOLEAN
  /\ hdr = NoTags /\ orig = 0 /\ consumed = 0 /\ next = 0
  /\ sameSize = FALSE /\ todo = {} /\ index = <<>> /\ blobs = <<>>
  /\ needed = 0 /\ out = NoBlock /\ signs = 0 /\ meant = NoTags

-----------------------------------------------------------------------------
(* Reading                                                                 *)

roundNothing(size) == size
roundUp8(size) == ((size + 7) \div 8) * 8

(* readSignatureHeader and readHeader up to the loop over the index.  The  *)
(* data read is the first roundUp8(size) bytes after the index; a stream   *)
(* that ends early is an error.  No digest is given for this header.       *)
ReadHeader ==
  /\ pc = "closed"
  /\ \/ /\ whole
        /\ orig' = introLength + entryLength * file.entries + roundUp8(file.size)
        /\ consumed' = orig'
        /\ hdr' = NoTags /\ next' = 0
        /\ pc' = "parsing"
     \/ /\ ~whole
        /\ pc' = "read error"
        /\ UNCHANGED <<hdr, orig, consumed, next>>
  /\ UNCHANGED <<file, whole, signs>> /\ UNCHANGED writerVars

stringEndKeepsNul(data, off, count) ==
  LET nuls == {p \in (off + 1)..Len(data) : data[p] = NUL}
  IN  IF nuls = {} THEN -1 ELSE (CHOOSE p \in nuls : \A q \in nuls : p <= q) - 1

(* The offset after the count-th NUL from off on, or -1.                   *)
stringEnd(data, off, count) ==
  LET nuls(p) == Cardinality({q \in (off + 1)..p : data[q] = NUL})
      ends    == {p \in off..Len(data) : nuls(p) = count /\ (p = off \/ data[p] = NUL)}
  IN  IF ends = {} THEN -1 ELSE CHOOSE p \in ends : TRUE

(* The data that was read, as far as it belongs to the block.              *)
dataRead ==
  SubSeq(file.data, 1, IF roundUp8(file.size) < Len(file.data)
                       THEN roundUp8(file.size) ELSE Len(file.data))

(* One round of readHeader's loop.                                         *)
ParseTag ==
  LET t    == file.index[next + 1]
      data == dataRead
      end  == IF t.dataType \in DOMAIN typeSizes
              THEN t.offset + typeSizes[t.dataType] * t.count
              ELSE stringEnd(data, t.offset, t.count)
  IN
  /\ pc = "parsing" /\ next < file.entries
  /\ \/ /\ end \notin 0..Len(data)
        /\ pc' = IF end = -1 THEN "truncated tag"
                 ELSE "panic"          \* slice bounds out of range
        /\ UNCHANGED <<hdr, next>>
     \/ /\ end \in 0..Len(data)
        /\ hdr' = Put(hdr, t.tag, [dataType |-> t.dataType, count |-> t.count,
                                   contents |-> SubSeq(data, t.offset + 1, end)])
        /\ next' = next + 1
        /\ UNCHANGED pc
  /\ UNCHANGED <<file, whole, orig, consumed, signs>> /\ UNCHANGED writerVars

ParseEnd ==
  /\ pc = "parsing" /\ next = file.entries
  /\ pc' = "open"
  /\ UNCHANGED <<hdr, signs>> /\ UNCHANGED readerVars /\ UNCHANGED writerVars

-----------------------------------------------------------------------------
(* Signing                                                                 *)

(* The bytes of the n-th signature: any byte of it may be NUL.             *)
Signature(n, size) == [i \in 1..size |-> (n + i) % 2]

insertSignatures(h, sigPgp, sigRsa) ==
  Delete(Put(Put(h, SIG_PGP, BinEntry(sigPgp)), SIG_RSA, BinEntry(sigRsa)),
         {SIG_GPG, SIG_DSA})

Sign ==
  /\ pc = "open" /\ signs < MaxSigns
  /\ \E m, n \in SigSizes :
       hdr' = insertSignatures(hdr, Signature(signs, m), Signature(signs, n))
  /\ signs' = signs + 1
  /\ pc' = "signed"
  /\ UNCHANGED readerVars /\ UNCHANGED writerVars

-----------------------------------------------------------------------------
(* Writing                                                                 *)

(* The keys WriteTo sorts: existing regions are discarded.                 *)
keys(h) == {t \in DOMAIN h : t >= RPMTAG_HEADERREGIONS}

StartWriteToStale(h) == todo' = keys(hdr) /\ index' = <<>> /\ blobs' = <<>>
StartWriteTo(h) == todo' = keys(h) /\ index' = <<>> /\ blobs' = <<>>

(* DumpSignatureHeader up to its first WriteTo.                            *)
DumpSignatureHeader(same) ==
  /\ pc = "signed"
  /\ hdr' = Delete(hdr, {SIG_RESERVEDSPACE})
  /\ sameSize' = same
  /\ pc' = IF same THEN "size" ELSE "write"
  /\ StartWriteTo(hdr')
  /\ UNCHANGED <<needed, out, signs, meant>> /\ UNCHANGED readerVars

alignNothing(n, dataType) == 0
alignment(n, dataType) ==
  IF dataType \in DOMAIN typeAlign /\ n % typeAlign[dataType] # 0
  THEN typeAlign[dataType] - (n % typeAlign[dataType])
  ELSE 0

(* writeTag for the smallest tag that is left.                             *)
WriteTag ==
  /\ pc \in {"size", "write"}
  /\ \E k \in todo :
       LET e   == hdr[k]
           pad == alignment(Len(blobs), e.dataType)
       IN  /\ \A j \in todo : k <= j
           /\ index' = Append(index, [tag |-> k, dataType |-> e.dataType,
                                      offset |-> Len(blobs) + pad, count |-> e.count])
           /\ blobs' = blobs \o Zeros(pad) \o e.contents
           /\ todo' = todo \ {k}
  /\ UNCHANGED <<pc, hdr, sameSize, needed, out, signs, meant>> /\ UNCHANGED readerVars

finalPaddingNone(n) == 0
finalPadding(n) == IF n % 8 # 0 THEN 8 - (n % 8) ELSE 0

(* The rest of WriteTo: intro, region tag, index, data and padding.  The   *)
(* region tag is written to the front of the index, its record to the end  *)
(* of the data; lead, index and data decide the padding.                   *)
Written ==
  LET region == [tag |-> RPMTAG_HEADERSIGNATURES, dataType |-> RPM_BIN_TYPE,
                 offset |-> Len(blobs), count |-> entryLength]
      data   == blobs \o [i \in 1..entryLength |-> RegionByte]
  IN  [entries |-> Len(index) + 1, size |-> Len(blobs) + entryLength,
       index   |-> <<region>> \o index,
       data    |-> data \o Zeros(finalPadding(96 + Len(data) + entryLength * Len(index)))]

paddingForgetsTag(n, available) == available - n
reservedPadding(n, available) == available - n - entryLength

(* The size pass ends: add a RESERVEDSPACE tag if there is room for one.   *)
SizeKnown ==
  LET n == BlockLength(Written) IN
  /\ pc = "size" /\ todo = {}
  /\ needed' = n
  /\ hdr' = IF n + entryLength <= orig
            THEN Put(hdr, SIG_RESERVEDSPACE, BinEntry(Zeros(reservedPadding(n, orig))))
            ELSE hdr
  /\ pc' = "write"
  /\ StartWriteTo(hdr')
  /\ UNCHANGED <<sameSize, out, signs, meant>> /\ UNCHANGED readerVars

DumpDone ==
  /\ pc = "write" /\ todo = {}
  /\ out' = Written
  /\ meant' = hdr
  /\ pc' = "dumped"
  /\ UNCHANGED <<hdr, sameSize, todo, index, blobs, needed, signs>>
  /\ UNCHANGED readerVars

(* The caller replaces the first OriginalSignatureHeaderSize() bytes of    *)
(* the file by the result (external), and the file is opened anew.         *)
Replace ==
  /\ pc = "dumped"
  /\ file' = out /\ next' = 0
  /\ pc' = "closed"
  /\ UNCHANGED <<whole, hdr, orig, consumed, signs>> /\ UNCHANGED writerVars

Next ==
  \/ ReadHeader \/ ParseTag \/ ParseEnd
  \/ Sign
  \/ \E same \in BOOLEAN : DumpSignatureHeader(same)
  \/ WriteTag \/ SizeKnown \/ DumpDone
  \/ Replace

Spec == Init /\ [][Next]_vars

-----------------------------------------------------------------------------
TypeOK ==
  /\ pc \in {"closed", "read error", "parsing", "truncated tag", "panic", "open",
             "signed", "size", "write", "dumped"}
  /\ file \in BlockType /\ whole \in BOOLEAN
  /\ DOMAIN hdr \subseteq Int /\ \A t \in DOMAIN hdr : hdr[t] \in EntryType
  /\ orig \in Nat /\ consumed \in Nat /\ next \in 0..file.entries
  /\ sameSize \in BOOLEAN /\ todo \subseteq DOMAIN hdr
  /\ index \in Seq(IndexType) /\ blobs \in Seq(Bytes)
  /\ needed \in Nat /\ out \in BlockType /\ signs \in 0..MaxSigns

(* The index that WriteTo builds is fit for a reader that maps the data:   *)
(* tags ascend, every value is aligned for its type (writeTag), and no two *)
(* values overlap.                                                         *)
IndexWellFormed ==
  pc \in {"size", "write", "dumped"} => \A i \in 1..Len(index) :
    /\ index[i].dataType \in DOMAIN typeAlign =>
         index[i].offset % typeAlign[index[i].dataType] = 0
    /\ index[i].offset + Len(hdr[index[i].tag].contents) <=
         IF i = Len(index) THEN Len(blobs) ELSE index[i + 1].offset
    /\ i < Len(index) => index[i].tag < index[i + 1].tag

(* What WriteTo announces in the intro is what it wrote, and the reader,   *)
(* which rounds Size up itself, stops exactly where the general header     *)
(* begins (the padding at the end of WriteTo, size in readHeader).         *)
ReaderStopsAtGeneralHeader ==
  /\ pc = "dumped" => out.entries = Len(out.index)
  /\ pc \in {"parsing", "open"} => consumed = BlockLength(file)

(* Reading back what was written yields every tag with its type, count and *)
(* contents, NULs inside binary values and the strings behind them         *)
(* included (writeTag's offsets against readHeader's loop).                *)
RoundTrip ==
  signs > 0 =>
    /\ pc \notin {"panic", "truncated tag"}
    /\ pc = "open" => /\ keys(hdr) = keys(meant)
                      /\ \A t \in keys(hdr) : hdr[t] = meant[t]

(* DumpSignatureHeader(true): whenever a padding tag fits, the block has   *)
(* exactly the size it was read with; this is what lets rewriteRpm write   *)
(* in place.  The padding tag sits in the middle of the sorted tags, so it *)
(* moves every value behind it.                                            *)
SameSizeWhenItFits ==
  pc = "dumped" /\ sameSize /\ needed + entryLength <= orig
    => BlockLength(out) = orig
=============================================================================
