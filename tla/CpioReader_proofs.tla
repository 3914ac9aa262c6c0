-------------------------- MODULE CpioReader_proofs --------------------------
(***************************************************************************)
(* Proofs about CpioReader for every set of well-formed streams.           *)
(*                                                                         *)
(* The argument: nextPos, which the reader computes, is always the offset  *)
(* of the entry after the last one it returned, or lies at or past the end *)
(* of the stream (the archive broke off, and the io.EOF was swallowed by   *)
(* Seek), or past the trailer.  Hence a header is only ever read where an  *)
(* entry begins, and the window opened over its contents begins where the  *)
(* contents do.                                                            *)
(***************************************************************************)
EXTENDS CpioReader, SequenceTheorems, TLAPS

(* Where the next header is expected.                                      *)
NextPosInv ==
  \/ nextPos >= stream.len
  \/ /\ ~trailer /\ seen + 1 \in 1..Len(entries)
     /\ nextPos = entries[seen + 1].start
  \/ /\ trailer /\ nextPos >= entries[Len(entries)].data

(* The window over the current file.  Its start is off only if the stream  *)
(* ended before the contents, and then nothing is ever delivered.          *)
WindowInv ==
  /\ cur.ent = seen
  /\ seen = 0 => out = <<>>
  /\ seen > 0 =>
       /\ cur.size = entries[seen].len
       /\ \/ cur.start_pos = entries[seen].data
          \/ cur.start_pos = stream.len /\ out = <<>>
  /\ \A i \in 1..Len(out) : out[i] = cur.start_pos + i - 1

IInv == TypeOK /\ NextPosInv /\ WindowInv

(* The current file ends before the place of the next header.  As long as  *)
(* Next has not failed, the stream has not passed that place, and until    *)
(* the trailer the stream is where the window left it.                     *)
SyncInv ==
  /\ cur.start_pos + cur.size <= nextPos
  /\ ~failed =>
       /\ curPos <= nextPos
       /\ seen > 0 /\ ~trailer => curPos = cur.start_pos + cur.curr_pos

(* Once Next has failed or met the trailer, no call can return another     *)
(* file or another byte: the stream is at its end, or behind the window    *)
(* and, unless at the trailer, behind the next header.                     *)
EndInv ==
  failed \/ trailer =>
    \/ curPos = stream.len
    \/ /\ curPos >= cur.start_pos + cur.size
       /\ trailer \/ curPos > nextPos

(* In a whole archive the next header is where the next entry begins, and  *)
(* Next has not failed, until it has met the trailer.                      *)
ReadableInv ==
  WholeArchive =>
    /\ trailer => seen = Len(entries) - 1
    /\ ~trailer =>
         /\ ~failed
         /\ seen + 1 \in 1..Len(entries) /\ nextPos = entries[seen + 1].start

-----------------------------------------------------------------------------
(* What StreamOK says of the stream at hand.                               *)
LEMMA StreamFacts ==
  ASSUME stream \in Streams
  PROVE  /\ stream.len \in Nat /\ stream.fault \in BOOLEAN
         /\ stream.sizes \in Seq(Nat) /\ stream.hasSizes \in BOOLEAN
         /\ entries \in Seq(EntryType) /\ Len(entries) \in Nat \ {0}
         /\ entries[1].start = 0
         /\ \A i \in 1..Len(entries) :
              /\ entries[i] \in EntryType
              /\ EntryOK(entries[i])
              /\ entries[i].trailer <=> (i = Len(entries))
              /\ entries[i].trailer => entries[i].len = 0 /\ ~entries[i].stripped
              /\ entries[i].stripped /\ entries[i].index < Len(stream.sizes)
                   => stream.sizes[entries[i].index + 1] = entries[i].len
              /\ i < Len(entries) =>
                   PaddedTo4(entries[i].data + entries[i].len, entries[i + 1].start)
              /\ \A j \in 1..Len(entries) :
                   i < j => entries[i].start < entries[j].start
BY StreamsAssumption DEF StreamOK, entries

(* The fields of an entry, and that its contents follow its start.         *)
LEMMA EntryFields ==
  ASSUME stream \in Streams, NEW i \in 1..Len(entries)
  PROVE  /\ entries[i].start \in Nat /\ entries[i].data \in Nat
         /\ entries[i].len \in Nat /\ entries[i].index \in Nat
         /\ entries[i].namesize \in Nat /\ entries[i].stripped \in BOOLEAN
         /\ entries[i].trailer \in BOOLEAN
         /\ entries[i].data > entries[i].start
<1>1. entries[i] \in EntryType /\ EntryOK(entries[i])
  BY StreamFacts
<1> DEFINE e == entries[i]
<1>2. e \in EntryType /\ EntryOK(e)
  BY <1>1
<1> HIDE DEF e
<1>3. /\ e.start \in Nat /\ e.data \in Nat /\ e.len \in Nat /\ e.index \in Nat
      /\ e.namesize \in Nat /\ e.stripped \in BOOLEAN /\ e.trailer \in BOOLEAN
  BY <1>2 DEF EntryType
<1>4. e.data > e.start
  <2>1. CASE e.stripped
    BY <2>1, <1>2, <1>3 DEF EntryOK, strippedLength, magicLength, fieldLength
  <2>2. CASE ~e.stripped
    <3>1. e.data - (e.start + 110 + e.namesize) \in 0..3
      BY <2>2, <1>2 DEF EntryOK, PaddedTo4, newcHeaderLength
    <3> QED BY <3>1, <1>3
  <2> QED BY <2>1, <2>2
<1> QED BY <1>3, <1>4 DEF e

(* pad64 finds the multiple of four the layout uses.                       *)
LEMMA PadFindsMultiple ==
  ASSUME NEW n \in Nat, NEW m \in Nat, PaddedTo4(n, m)
  PROVE  pad64(n) = m
BY DEF PaddedTo4, pad64

(* pad64 never goes back.                                                  *)
LEMMA PadBounds ==
  ASSUME NEW n \in Nat
  PROVE  pad64(n) \in Nat /\ pad64(n) >= n
BY DEF pad64

(* Every entry begins at a multiple of four.                               *)
LEMMA StartsAligned ==
  ASSUME stream \in Streams, NEW i \in 1..Len(entries)
  PROVE  entries[i].start % 4 = 0
<1>1. CASE i = 1
  BY <1>1, StreamFacts
<1>2. CASE i # 1
  <2>1. i - 1 \in 1..Len(entries) /\ i - 1 < Len(entries)
    BY <1>2, StreamFacts
  <2>2. PaddedTo4(entries[i - 1].data + entries[i - 1].len, entries[(i - 1) + 1].start)
    BY <2>1, StreamFacts
  <2>3. (i - 1) + 1 = i
    BY <2>1
  <2> QED BY <2>2, <2>3 DEF PaddedTo4
<1> QED BY <1>1, <1>2

(* Padding computed from a multiple of four is padding of the sum.         *)
LEMMA NamePaddingArithmetic ==
  ASSUME NEW s \in Nat, s % 4 = 0, NEW n \in Nat, NEW d \in Nat,
         PaddedTo4(s + newcHeaderLength + n, d)
  PROVE  namePadding(n) \in Nat /\ s + newcHeaderLength + n + namePadding(n) = d
BY DEF PaddedTo4, namePadding, pad, newcHeaderLength

(* The name and its padding take the reader from the end of the header to  *)
(* the contents.                                                           *)
LEMMA NamePaddingReachesData ==
  ASSUME stream \in Streams, NEW i \in 1..Len(entries), ~entries[i].stripped
  PROVE  /\ namePadding(entries[i].namesize) \in Nat
         /\ entries[i].start + newcHeaderLength + entries[i].namesize
              + namePadding(entries[i].namesize) = entries[i].data
<1>1. /\ entries[i].start \in Nat /\ entries[i].namesize \in Nat
      /\ entries[i].data \in Nat
  BY StreamFacts DEF EntryType
<1>2. PaddedTo4(entries[i].start + newcHeaderLength + entries[i].namesize, entries[i].data)
  BY StreamFacts DEF EntryOK
<1>3. entries[i].start % 4 = 0
  BY StartsAligned
<1> QED BY <1>1, <1>2, <1>3, NamePaddingArithmetic

(* ReadFull stays inside the stream, and moves by n when it succeeds.      *)
LEMMA ReadFullFacts ==
  ASSUME stream \in Streams, NEW p \in 0..stream.len, NEW n \in Nat
  PROVE  /\ ReadFull(p, n).pos \in 0..stream.len
         /\ ReadFull(p, n).err \in {"nil", "EOF", "UnexpectedEOF", "fault"}
         /\ ReadFull(p, n).err = "nil" =>
              ReadFull(p, n).pos = p + n /\ p + n <= stream.len
         /\ ReadFull(p, n).err # "nil" =>
              p + n > stream.len /\ ReadFull(p, n).pos = stream.len
         /\ ReadFull(p, n).err = "EOF" =>
              p = stream.len /\ ReadFull(p, n).pos = stream.len
BY StreamFacts DEF ReadFull

(* Seek succeeds by moving to its target, or by staying at the very end.   *)
LEMMA SeekFacts ==
  ASSUME stream \in Streams, NEW p \in 0..stream.len, NEW n \in Int
  PROVE  /\ Seek(p, n).pos \in 0..stream.len
         /\ Seek(p, n).err \in {"nil", "UnexpectedEOF", "fault", "panic"}
         /\ Seek(p, n).err = "nil" =>
              /\ n >= 0
              /\ \/ Seek(p, n).pos = p + n
                 \/ Seek(p, n).pos = stream.len /\ p + n > stream.len
         /\ Seek(p, n).err = "panic" => n < 0 /\ Seek(p, n).pos = p
         /\ Seek(p, n).err \notin {"nil", "panic"} => Seek(p, n).pos = stream.len
<1>1. CASE n < 0
  BY <1>1, StreamFacts DEF Seek
<1>2. CASE n >= 0
  BY <1>2, ReadFullFacts, StreamFacts DEF Seek, ReadFull
<1> QED BY <1>1, <1>2

(* Read16s stays inside the stream and succeeds if it holds the fields.    *)
LEMMA Read16sFacts ==
  ASSUME stream \in Streams, NEW p \in 0..stream.len, NEW n \in Nat
  PROVE  /\ Read16s(p, n).pos \in 0..stream.len
         /\ Read16s(p, n).err \in {"nil", "EOF", "UnexpectedEOF", "fault"}
         /\ Read16s(p, n).err = "nil" => Read16s(p, n).pos = p + n * fieldLength
         /\ p + n * fieldLength <= stream.len => Read16s(p, n).err = "nil"
         /\ Read16s(p, n).err # "nil" => Read16s(p, n).pos = stream.len
BY StreamFacts DEF Read16s, fieldLength

(* A header is found only where an entry begins, and it is that entry's.   *)
LEMMA ReadHeaderFacts ==
  ASSUME stream \in Streams, NEW p \in 0..stream.len,
         NEW h, h = readHeader(p)
  PROVE  /\ h.pos \in 0..stream.len
         /\ h.err \in Errors \ {"panic", "out of order"}
         /\ h.err # "nil" => h.pos = stream.len \/ h.pos > p
         /\ h.err = "nil" =>
              /\ p < stream.len
              /\ h.ent \in 1..Len(entries) /\ entries[h.ent].start = p
              /\ entries[h.ent].stripped => h.pos = p + strippedLength
              /\ ~entries[h.ent].stripped => h.pos = p + newcHeaderLength
<1> DEFINE magic == ReadFull(p, magicLength)
           known == \E i \in 1..Len(entries) : entries[i].start = p
           e     == EntryAt(p)
           k     == IF entries[e].stripped THEN 1 ELSE newcFields
           f     == Read16s(magic.pos, k)
<1>1. /\ magic.pos \in 0..stream.len
      /\ magic.err \in {"nil", "EOF", "UnexpectedEOF", "fault"}
      /\ magic.err = "nil" => magic.pos = p + 6 /\ p + 6 <= stream.len
      /\ magic.err # "nil" => magic.pos = stream.len
  BY ReadFullFacts DEF magicLength
<1>2. known => e \in 1..Len(entries) /\ entries[e].start = p
  BY DEF EntryAt
<1>3. k \in Nat
  BY DEF newcFields
<1>4. /\ f.pos \in 0..stream.len
      /\ f.err \in {"nil", "EOF", "UnexpectedEOF", "fault"}
      /\ f.err = "nil" => f.pos = magic.pos + k * fieldLength
      /\ f.err # "nil" => f.pos = stream.len
  <2> HIDE DEF k, magic
  <2> QED BY <1>1, <1>3, Read16sFacts
<1>5. CASE magic.err # "nil"
  <2>1. h.pos = magic.pos /\ h.err = magic.err
    BY <1>5 DEF readHeader
  <2> HIDE DEF magic
  <2> QED BY <2>1, <1>1, <1>5 DEF Errors
<1>6. CASE magic.err = "nil" /\ ~known
  <2>1. h.pos = magic.pos /\ h.err = "bad magic"
    BY <1>6 DEF readHeader
  <2> HIDE DEF magic
  <2>2. h.pos > p
    <3> HIDE DEF known
    <3>1. h.pos = p + 6
      BY <2>1, <1>1, <1>6
    <3>2. stream.len \in Nat
      BY StreamFacts
    <3> QED BY <3>1, <3>2
  <2> QED BY <2>1, <2>2, <1>1 DEF Errors
<1>7. CASE magic.err = "nil" /\ known
  <2>1. h.pos = f.pos /\ h.err = f.err /\ h.ent = e
    BY <1>7 DEF readHeader
  <2>2. p < stream.len
    BY <1>1, <1>7, StreamFacts
  <2>3. f.err = "nil" =>
          /\ entries[e].stripped => f.pos = p + strippedLength
          /\ ~entries[e].stripped => f.pos = p + newcHeaderLength
    <3> HIDE DEF magic, f, e
    <3> QED BY <1>1, <1>4, <1>7, StreamFacts
         DEF strippedLength, newcHeaderLength, magicLength, fieldLength, newcFields
  <2> HIDE DEF magic, f, e, known
  <2> QED BY <2>1, <2>2, <2>3, <1>2, <1>4, <1>7 DEF Errors
<1> QED BY <1>5, <1>6, <1>7

(* Only the entry after the last one returned can be found.                *)
LEMMA HeaderIsNextEntry ==
  ASSUME IInv, NEW p \in 0..stream.len, NEW j \in 1..Len(entries),
         entries[j].start = p, p < stream.len,
         p = nextPos \/ p = stream.len
  PROVE  j = seen + 1 /\ ~trailer
<1>1. stream \in Streams /\ p = nextPos /\ seen \in Nat /\ nextPos < stream.len
  BY StreamFacts DEF IInv, TypeOK
<1>2. /\ \A i \in 1..Len(entries) : entries[i].start \in Nat /\ entries[i].data \in Nat
      /\ Len(entries) \in 1..Len(entries)
  BY <1>1, StreamFacts, EntryFields
<1>3. ASSUME NEW i \in 1..Len(entries), NEW k \in 1..Len(entries), i < k
      PROVE  entries[i].start < entries[k].start
  BY <1>1, <1>3, StreamFacts
<1>4. entries[Len(entries)].data > entries[Len(entries)].start
  BY <1>1, <1>2, EntryFields
<1>5. CASE trailer /\ nextPos >= entries[Len(entries)].data
  <2>1. entries[j].start <= entries[Len(entries)].start
    BY <1>2, <1>3
  <2> QED BY <1>1, <1>2, <1>4, <1>5, <2>1
<1>6. CASE ~trailer /\ seen + 1 \in 1..Len(entries) /\ nextPos = entries[seen + 1].start
  BY <1>1, <1>2, <1>3, <1>6
<1> QED BY <1>1, <1>5, <1>6, StreamFacts DEF IInv, NextPosInv

(* What a successful ReadNextEntry returns.                                *)
IsNextFile(r) ==
  /\ ~trailer /\ seen + 1 \in 1..Len(entries)
  /\ r.file \in [ent : {seen + 1}, start_pos : {r.pos}, curr_pos : {0},
                 size : {entries[seen + 1].len}, size64 : Nat]
  /\ r.pos = entries[seen + 1].data \/ r.pos = stream.len
  /\ r.pos >= nextPos /\ r.nextPos >= r.pos + entries[seen + 1].len
  /\ \/ r.nextPos >= stream.len /\ stream.len < entries[seen + 1].data
     \/ seen + 1 = Len(entries) /\ r.nextPos >= entries[seen + 1].data
     \/ seen + 1 < Len(entries) /\ r.nextPos = entries[(seen + 1) + 1].start

ReadOutcome(r) ==
  /\ r.pos \in 0..stream.len /\ r.nextPos \in Nat /\ r.err \in Errors \ {"out of order"}
  /\ r.err # "nil" =>
       r.nextPos = nextPos /\ (r.pos = stream.len \/ r.pos > nextPos)
  /\ r.err = "panic" => nextPos < curPos
  /\ r.err = "nil" => IsNextFile(r) /\ curPos <= nextPos /\ nextPos < stream.len

(* ReadNextEntry at a stripped entry.                                      *)
LEMMA NextEntryOfStripped ==
  ASSUME IInv, NEW p \in 0..stream.len, p = nextPos \/ p = stream.len,
         curPos <= nextPos, NEW h, h = readHeader(p), h.err = "nil", entries[h.ent].stripped,
         NEW r, r = readStrippedEntry(h)
  PROVE  ReadOutcome(r)
<1>1. stream \in Streams /\ seen \in Nat /\ nextPos \in Nat
  BY DEF IInv, TypeOK
<1>2. /\ h.pos \in 0..stream.len /\ p < stream.len
      /\ h.ent \in 1..Len(entries) /\ entries[h.ent].start = p
      /\ h.pos = p + strippedLength
  BY <1>1, ReadHeaderFacts
<1>3. h.ent = seen + 1 /\ ~trailer
  BY <1>2, HeaderIsNextEntry
<1> DEFINE e == entries[seen + 1]
           size == stream.sizes[e.index + 1]
<1>4. /\ e \in EntryType /\ EntryOK(e) /\ e.stripped /\ seen + 1 \in 1..Len(entries)
      /\ seen + 1 < Len(entries)
      /\ PaddedTo4(e.data + e.len, entries[(seen + 1) + 1].start)
      /\ e.index < Len(stream.sizes) => size = e.len
  BY <1>1, <1>2, <1>3, StreamFacts
<1>5. h.pos = e.data /\ e.data \in Nat /\ e.len \in Nat
  BY <1>2, <1>3, <1>4 DEF EntryOK, EntryType
<1>9. h.pos > nextPos /\ p = nextPos
  BY <1>1, <1>2, StreamFacts DEF strippedLength, magicLength, fieldLength
<1>6. CASE ~stream.hasSizes
  <2>1. r.pos = h.pos /\ r.nextPos = nextPos /\ r.err = "ErrStrippedHeader"
    BY <1>6 DEF readStrippedEntry, Failed
  <2> QED BY <2>1, <1>1, <1>2, <1>9 DEF ReadOutcome, Errors
<1>7. CASE stream.hasSizes /\ e.index >= Len(stream.sizes)
  <2>1. r.pos = h.pos /\ r.nextPos = nextPos /\ r.err = "invalid index"
    BY <1>3, <1>7 DEF readStrippedEntry, Failed
  <2> QED BY <2>1, <1>1, <1>2, <1>9 DEF ReadOutcome, Errors
<1>8. CASE stream.hasSizes /\ ~(e.index >= Len(stream.sizes))
  <2>1. e.index \in Nat /\ Len(stream.sizes) \in Nat
    BY <1>1, <1>4, StreamFacts, EntryFields
  <2>2. size = e.len
    BY <1>4, <1>8, <2>1
  <2>3. /\ r.pos = h.pos /\ r.nextPos = pad64(h.pos + size) /\ r.err = "nil"
        /\ r.file = [ent |-> h.ent, start_pos |-> h.pos, curr_pos |-> 0,
                     size |-> size, size64 |-> 0]
    BY <1>3, <1>8 DEF readStrippedEntry, Found, newFileStream
  <2>4. pad64(e.data + e.len) = entries[(seen + 1) + 1].start
    <3>1. entries[(seen + 1) + 1].start \in Nat
      BY <1>1, <1>4, StreamFacts, EntryFields
    <3> QED BY <3>1, <1>4, <1>5, PadFindsMultiple
  <2>5. r.nextPos = entries[(seen + 1) + 1].start
    BY <2>2, <2>3, <2>4, <1>5
  <2>6. r.file \in [ent : {seen + 1}, start_pos : {r.pos}, curr_pos : {0},
                   size : {entries[seen + 1].len}, size64 : Nat]
    BY <2>2, <2>3, <1>3
  <2>7. r.nextPos \in Nat
    BY <2>5, <1>1, <1>4, StreamFacts, EntryFields
  <2> HIDE DEF e, size
  <2>8. r.pos >= nextPos /\ r.nextPos >= r.pos + e.len
    <3>1. r.pos = e.data /\ r.pos \in Nat /\ r.nextPos = pad64(r.pos + e.len)
      BY <2>2, <2>3, <1>5
    <3>2. r.pos >= nextPos
      BY <1>1, <1>2, <2>3, StreamFacts DEF strippedLength, magicLength, fieldLength
    <3> QED BY <3>1, <3>2, <1>5, PadBounds
  <2>9. IsNextFile(r)
    BY <2>3, <2>5, <2>6, <2>8, <1>3, <1>4, <1>5 DEF IsNextFile, e
  <2> QED BY <2>3, <2>7, <2>9, <1>2, <1>9 DEF ReadOutcome, Errors
<1> QED BY <1>6, <1>7, <1>8

(* ReadNextEntry at a newc entry.                                          *)
LEMMA NextEntryOfNewc ==
  ASSUME IInv, NEW p \in 0..stream.len, p = nextPos \/ p = stream.len,
         curPos <= nextPos, NEW h, h = readHeader(p), h.err = "nil", ~entries[h.ent].stripped,
         NEW r, r = readNewcEntry(h)
  PROVE  ReadOutcome(r)
<1>1. stream \in Streams /\ seen \in Nat /\ nextPos \in Nat
  BY DEF IInv, TypeOK
<1>2. /\ h.pos \in 0..stream.len /\ p < stream.len
      /\ h.ent \in 1..Len(entries) /\ entries[h.ent].start = p
      /\ h.pos = p + newcHeaderLength
  BY <1>1, ReadHeaderFacts
<1>3. h.ent = seen + 1 /\ ~trailer
  BY <1>2, HeaderIsNextEntry
<1> DEFINE e    == entries[seen + 1]
           name == ReadFull(h.pos, e.namesize)
           gap  == Seek(name.pos, namePadding(e.namesize))
<1>4. /\ seen + 1 \in 1..Len(entries) /\ ~e.stripped
      /\ e.namesize \in Nat /\ e.len \in Nat /\ e.data \in Nat /\ e.start \in Nat
      /\ namePadding(e.namesize) \in Nat
      /\ p + newcHeaderLength + e.namesize + namePadding(e.namesize) = e.data
  BY <1>1, <1>2, <1>3, EntryFields, NamePaddingReachesData
<1>5. /\ name.pos \in 0..stream.len
      /\ name.err \in {"nil", "EOF", "UnexpectedEOF", "fault"}
      /\ name.err = "nil" => name.pos = h.pos + e.namesize
      /\ name.err # "nil" => name.pos = stream.len
  BY <1>1, <1>2, <1>4, ReadFullFacts
<1>6. /\ gap.pos \in 0..stream.len
      /\ gap.err \in {"nil", "UnexpectedEOF", "fault", "panic"}
      /\ gap.err # "panic"
      /\ gap.err # "nil" => gap.pos = stream.len
      /\ gap.err = "nil" => \/ gap.pos = name.pos + namePadding(e.namesize)
                            \/ /\ gap.pos = stream.len
                               /\ name.pos + namePadding(e.namesize) > stream.len
  <2> HIDE DEF name
  <2> QED BY <1>1, <1>4, <1>5, SeekFacts
<1>7. CASE name.err # "nil"
  <2>1. r.pos = name.pos /\ r.nextPos = nextPos /\ r.err = name.err
    BY <1>3, <1>7 DEF readNewcEntry, Failed
  <2> HIDE DEF name
  <2> QED BY <2>1, <1>1, <1>5, <1>7 DEF ReadOutcome, Errors
<1>8. CASE name.err = "nil" /\ gap.err # "nil"
  <2>1. r.pos = gap.pos /\ r.nextPos = nextPos /\ r.err = gap.err
    BY <1>3, <1>8 DEF readNewcEntry, Failed
  <2> HIDE DEF gap, name
  <2> QED BY <2>1, <1>1, <1>6, <1>8 DEF ReadOutcome, Errors
<1>9. CASE name.err = "nil" /\ gap.err = "nil"
  <2>1. /\ r.pos = gap.pos /\ r.nextPos = pad64(gap.pos + e.len) /\ r.err = "nil"
        /\ r.file = [ent |-> h.ent, start_pos |-> gap.pos, curr_pos |-> 0,
                     size |-> e.len, size64 |-> e.len]
    BY <1>3, <1>9 DEF readNewcEntry, Found, newFileStream
  <2> HIDE DEF gap, name
  <2>2. /\ r.pos \in 0..stream.len /\ r.pos \in Nat /\ r.pos >= nextPos
        /\ r.pos = e.data \/ (r.pos = stream.len /\ stream.len < e.data)
    <3>1. /\ stream.len \in Nat /\ p \in Nat /\ p = nextPos
          /\ name.pos = p + 110 + e.namesize
      BY <1>1, <1>2, <1>5, <1>9, StreamFacts DEF newcHeaderLength
    <3>2. e.data = name.pos + namePadding(e.namesize) /\ name.pos \in Nat
      BY <3>1, <1>4 DEF newcHeaderLength
    <3>3. /\ gap.pos \in 0..stream.len
          /\ gap.pos = e.data \/ (gap.pos = stream.len /\ stream.len < e.data)
      BY <3>1, <3>2, <1>4, <1>6, <1>9
    <3>4. e.data > p
      BY <3>1, <3>2, <1>4
    <3> QED
      BY <3>1, <3>3, <3>4, <2>1, <1>2, <1>4
  <2>3. r.nextPos \in Nat /\ r.nextPos >= r.pos + e.len
    <3>1. r.nextPos = pad64(r.pos + e.len) /\ r.pos + e.len \in Nat
      BY <2>1, <2>2, <1>4
    <3> QED BY <3>1, PadBounds
  <2>4. \/ r.nextPos >= stream.len /\ stream.len < e.data
        \/ seen + 1 = Len(entries) /\ r.nextPos >= e.data
        \/ seen + 1 < Len(entries) /\ r.nextPos = entries[(seen + 1) + 1].start
    <3>1. CASE r.pos = stream.len /\ stream.len < e.data
      BY <3>1, <2>2, <2>3, <1>4
    <3>2. CASE r.pos = e.data /\ seen + 1 = Len(entries)
      BY <3>2, <2>3, <1>4
    <3>3. CASE r.pos = e.data /\ seen + 1 # Len(entries)
      <4>1. seen + 1 < Len(entries) /\ (seen + 1) + 1 \in 1..Len(entries)
        BY <3>3, <1>1, <1>4, StreamFacts
      <4>2. PaddedTo4(e.data + e.len, entries[(seen + 1) + 1].start)
        BY <4>1, <1>1, <1>4, StreamFacts
      <4>3. entries[(seen + 1) + 1].start \in Nat
        BY <4>1, <1>1, EntryFields
      <4>4. pad64(e.data + e.len) = entries[(seen + 1) + 1].start
        BY <4>2, <4>3, <1>4, PadFindsMultiple
      <4> QED BY <4>1, <4>4, <3>3, <2>1
    <3> QED BY <3>1, <3>2, <3>3, <2>2
  <2>5. r.file \in [ent : {seen + 1}, start_pos : {r.pos}, curr_pos : {0},
                   size : {entries[seen + 1].len}, size64 : Nat]
    BY <2>1, <1>3, <1>4
  <2>6. IsNextFile(r)
    BY <2>2, <2>3, <2>4, <2>5, <1>3, <1>4 DEF IsNextFile
  <2>7. nextPos < stream.len
    BY <1>1, <1>2, StreamFacts
  <2> QED BY <2>1, <2>2, <2>3, <2>6, <2>7 DEF ReadOutcome, Errors
<1> QED BY <1>7, <1>8, <1>9, <1>5, <1>6

(* ReadNextEntry as a whole.                                               *)
LEMMA ReadNextEntryOutcome ==
  ASSUME IInv, NEW r, r = ReadNextEntry
  PROVE  ReadOutcome(r)
<1> DEFINE skip == Seek(curPos, nextPos - curPos)
           hdr  == readHeader(skip.pos)
<1>1. stream \in Streams /\ curPos \in 0..stream.len /\ nextPos \in Nat
  BY DEF IInv, TypeOK
<1>2. /\ skip.pos \in 0..stream.len
      /\ skip.err \in {"nil", "UnexpectedEOF", "fault", "panic"}
      /\ skip.err = "nil" =>
           curPos <= nextPos /\ (skip.pos = nextPos \/ skip.pos = stream.len)
      /\ skip.err = "panic" => nextPos < curPos
      /\ skip.err # "nil" => skip.pos = stream.len \/ skip.pos > nextPos
  <2>1. stream.len \in Nat /\ nextPos - curPos \in Int
    BY <1>1, StreamFacts
  <2>2. /\ skip.pos \in 0..stream.len
        /\ skip.err \in {"nil", "UnexpectedEOF", "fault", "panic"}
        /\ skip.err = "nil" => /\ nextPos - curPos >= 0
                               /\ \/ skip.pos = curPos + (nextPos - curPos)
                                  \/ skip.pos = stream.len
        /\ skip.err = "panic" => nextPos - curPos < 0 /\ skip.pos = curPos
        /\ skip.err \notin {"nil", "panic"} => skip.pos = stream.len
    BY <1>1, <2>1, SeekFacts
  <2> HIDE DEF skip
  <2> QED BY <1>1, <2>1, <2>2
<1>3. /\ hdr.pos \in 0..stream.len /\ hdr.err \in Errors \ {"panic", "out of order"}
      /\ hdr.err # "nil" => hdr.pos = stream.len \/ hdr.pos > skip.pos
  <2> HIDE DEF skip
  <2> QED BY <1>1, <1>2, ReadHeaderFacts
<1>4. CASE skip.err # "nil"
  <2>1. r.pos = skip.pos /\ r.nextPos = nextPos /\ r.err = skip.err
    BY <1>4 DEF ReadNextEntry, Failed
  <2> HIDE DEF skip
  <2> QED BY <2>1, <1>1, <1>2, <1>4 DEF ReadOutcome, Errors
<1>5. CASE skip.err = "nil" /\ hdr.err # "nil"
  <2>1. r.pos = hdr.pos /\ r.nextPos = nextPos /\ r.err = hdr.err
    BY <1>5 DEF ReadNextEntry, Failed
  <2> HIDE DEF hdr, skip
  <2>2. r.pos = stream.len \/ r.pos > nextPos
    <3>1. stream.len \in Nat
      BY <1>1, StreamFacts
    <3>2. hdr.pos = stream.len \/ hdr.pos > skip.pos
      BY <1>3, <1>5
    <3>3. skip.pos = nextPos \/ skip.pos = stream.len
      BY <1>2, <1>5
    <3>4. hdr.pos \in 0..stream.len
      BY <1>3
    <3> QED BY <2>1, <3>1, <3>2, <3>3, <3>4
  <2> QED BY <2>1, <2>2, <1>1, <1>3, <1>5 DEF ReadOutcome
<1>6. CASE skip.err = "nil" /\ hdr.err = "nil" /\ entries[hdr.ent].stripped
  <2>1. r = readStrippedEntry(hdr)
    BY <1>6 DEF ReadNextEntry
  <2>2. hdr = readHeader(skip.pos)
    OBVIOUS
  <2> HIDE DEF hdr, skip
  <2> QED BY <2>1, <2>2, <1>2, <1>6, NextEntryOfStripped
<1>7. CASE skip.err = "nil" /\ hdr.err = "nil" /\ ~entries[hdr.ent].stripped
  <2>1. r = readNewcEntry(hdr)
    BY <1>7 DEF ReadNextEntry
  <2>2. hdr = readHeader(skip.pos)
    OBVIOUS
  <2> HIDE DEF hdr, skip
  <2> QED BY <2>1, <2>2, <1>2, <1>7, NextEntryOfNewc
<1> QED BY <1>4, <1>5, <1>6, <1>7

-----------------------------------------------------------------------------
(* A window that has just been opened, or that a Read moved.               *)
LEMMA InitIInv == Init => IInv
<1> SUFFICES ASSUME Init PROVE IInv
  OBVIOUS
<1>1. /\ stream \in Streams /\ stream.len \in Nat
      /\ Len(entries) \in Nat \ {0} /\ entries[1].start = 0
  BY StreamFacts DEF Init, NewReaderWithSizes
<1>2. TypeOK
  <2>1. cur \in [ent : 0..Len(entries), start_pos : 0..stream.len,
                curr_pos : Nat, size : Nat, size64 : Nat]
    BY <1>1 DEF Init, NewReaderWithSizes, NoFile
  <2>2. cur.curr_pos <= cur.size /\ cur.curr_pos = Len(out) /\ out \in Seq(Nat)
    BY DEF Init, NewReaderWithSizes, NoFile
  <2>3. result \in [op : {"new", "Next", "Read"}, err : Errors]
    BY DEF Init, NewReaderWithSizes, Errors
  <2>4. curPos \in 0..stream.len /\ nextPos \in Nat /\ seen \in Nat
    BY <1>1 DEF Init, NewReaderWithSizes
  <2>5. trailer \in BOOLEAN /\ failed \in BOOLEAN
    BY Zenon DEF Init, NewReaderWithSizes
  <2> QED BY <1>1, <2>1, <2>2, <2>3, <2>4, <2>5 DEF TypeOK
<1>3. NextPosInv
  BY <1>1 DEF Init, NewReaderWithSizes, NextPosInv
<1>4. WindowInv
  BY <1>1 DEF Init, NewReaderWithSizes, WindowInv, NoFile
<1> QED BY <1>2, <1>3, <1>4 DEF IInv

(* Next keeps the invariant when it fails ...                              *)
LEMMA NextFailsIInv ==
  ASSUME IInv, NEW r, ReadOutcome(r), r.err # "nil",
         curPos' = r.pos, nextPos' = r.nextPos,
         result' = [op |-> "Next", err |-> r.err], failed' = TRUE,
         UNCHANGED <<stream, cur, out, seen, trailer>>
  PROVE  IInv'
<1>1. TypeOK'
  BY DEF IInv, TypeOK, ReadOutcome, entries, Errors
<1>2. NextPosInv'
  BY DEF IInv, NextPosInv, ReadOutcome, entries
<1>3. WindowInv'
  BY DEF IInv, WindowInv, entries
<1> QED BY <1>1, <1>2, <1>3 DEF IInv

(* ... when it meets the trailer ...                                       *)
LEMMA NextTrailerIInv ==
  ASSUME IInv, NEW r, ReadOutcome(r), r.err = "nil", entries[r.file.ent].trailer,
         curPos' = r.pos, nextPos' = r.nextPos,
         result' = [op |-> "Next", err |-> "EOF"], trailer' = TRUE,
         UNCHANGED <<stream, cur, out, seen, failed>>
  PROVE  IInv'
<1>1. IsNextFile(r) /\ r.file.ent = seen + 1 /\ seen \in Nat /\ stream \in Streams
  BY DEF IInv, TypeOK, ReadOutcome, IsNextFile
<1>2. seen + 1 = Len(entries)
  BY <1>1, StreamFacts DEF IsNextFile
<1>3. TypeOK'
  BY DEF IInv, TypeOK, ReadOutcome, entries, Errors
<1>4. NextPosInv'
  BY <1>1, <1>2 DEF NextPosInv, IsNextFile, entries
<1>5. WindowInv'
  BY DEF IInv, WindowInv, entries
<1> QED BY <1>3, <1>4, <1>5 DEF IInv

(* ... and when it returns a file.                                         *)
LEMMA NextFileIInv ==
  ASSUME IInv, NEW r, ReadOutcome(r), r.err = "nil", ~entries[r.file.ent].trailer,
         curPos' = r.pos, nextPos' = r.nextPos, cur' = r.file,
         result' = [op |-> "Next", err |-> "nil"], out' = <<>>, seen' = seen + 1,
         UNCHANGED <<stream, trailer, failed>>
  PROVE  IInv'
<1>1. /\ IsNextFile(r) /\ seen \in Nat /\ stream \in Streams
      /\ stream.len \in Nat /\ Len(entries) \in Nat
      /\ r.pos \in 0..stream.len /\ r.nextPos \in Nat
  BY StreamFacts DEF IInv, TypeOK, ReadOutcome
<1>2. /\ r.file.ent = seen + 1 /\ r.file.start_pos = r.pos /\ r.file.curr_pos = 0
      /\ r.file.size = entries[seen + 1].len /\ r.file.size64 \in Nat
      /\ seen + 1 \in 1..Len(entries) /\ entries[seen + 1].len \in Nat
  BY <1>1, EntryFields DEF IsNextFile
<1>3. seen + 1 # Len(entries)
  BY <1>1, <1>2, StreamFacts
<1>4. TypeOK'
  <2>1. r.file \in [ent : 0..Len(entries), start_pos : 0..stream.len,
                   curr_pos : Nat, size : Nat, size64 : Nat]
    BY <1>1, <1>2 DEF IsNextFile
  <2>2. cur'.curr_pos <= cur'.size /\ cur'.curr_pos = Len(out') /\ out' \in Seq(Nat)
    BY <1>2
  <2>3. /\ stream' = stream /\ entries' = entries /\ seen' \in Nat
        /\ trailer' \in BOOLEAN /\ failed' \in BOOLEAN
    BY <1>1 DEF IInv, TypeOK, entries
  <2>4. result' \in [op : {"new", "Next", "Read"}, err : Errors]
    BY DEF Errors
  <2>5. /\ stream' \in Streams /\ curPos' \in 0..stream'.len /\ nextPos' \in Nat
        /\ cur' \in [ent : 0..Len(entries'), start_pos : 0..stream'.len,
                     curr_pos : Nat, size : Nat, size64 : Nat]
    BY <1>1, <2>1, <2>3
  <2> QED BY <2>2, <2>3, <2>4, <2>5 DEF TypeOK
<1>5. NextPosInv'
  BY <1>1, <1>2, <1>3 DEF NextPosInv, IsNextFile, entries
<1>6. WindowInv'
  BY <1>1, <1>2 DEF WindowInv, IsNextFile, entries
<1> QED BY <1>4, <1>5, <1>6 DEF IInv

(* Reader.Next in terms of what ReadNextEntry returned.                    *)
LEMMA ReaderNextCases ==
  ASSUME IInv, ReaderNext, NEW r, r = ReadNextEntry
  PROVE  /\ ReadOutcome(r)
         /\ curPos' = r.pos /\ nextPos' = r.nextPos /\ UNCHANGED stream
         /\ \/ /\ r.err # "nil"
               /\ result' = [op |-> "Next", err |-> r.err] /\ failed' = TRUE
               /\ UNCHANGED <<cur, out, seen, trailer>>
            \/ /\ r.err = "nil" /\ entries[r.file.ent].trailer
               /\ result' = [op |-> "Next", err |-> "EOF"] /\ trailer' = TRUE
               /\ UNCHANGED <<cur, out, seen, failed>>
            \/ /\ r.err = "nil" /\ ~entries[r.file.ent].trailer
               /\ cur' = r.file /\ result' = [op |-> "Next", err |-> "nil"]
               /\ out' = <<>> /\ seen' = seen + 1 /\ UNCHANGED <<trailer, failed>>
<1>1. ReadOutcome(r)
  BY ReadNextEntryOutcome
<1> QED BY <1>1, Zenon DEF ReaderNext

(* Next keeps the invariant.                                               *)
LEMMA ReaderNextIInv == IInv /\ ReaderNext => IInv'
<1> SUFFICES ASSUME IInv, ReaderNext PROVE IInv'
  OBVIOUS
<1> DEFINE r == ReadNextEntry
<1> HIDE DEF r
<1> QED BY ReaderNextCases, NextFailsIInv, NextTrailerIInv, NextFileIInv DEF r

(* Calls that return without bytes leave the reader as it is.              *)
LEMMA NothingReadIInv ==
  ASSUME IInv, result' \in [op : {"new", "Next", "Read"}, err : Errors],
         UNCHANGED <<stream, curPos, nextPos, cur, out, seen, trailer, failed>>
  PROVE  IInv'
<1>1. TypeOK'
  BY DEF IInv, TypeOK, entries
<1>2. NextPosInv' /\ WindowInv'
  BY DEF IInv, NextPosInv, WindowInv, entries
<1> QED BY <1>1, <1>2 DEF IInv

(* Read without a file keeps the invariant.                                *)
LEMMA ReadNilIInv == IInv /\ ReadNil => IInv'
BY NothingReadIInv DEF ReadNil, Errors

(* Read of no bytes keeps the invariant.                                   *)
LEMMA ReadNothingIInv == IInv /\ ReadNothing => IInv'
<1> SUFFICES ASSUME IInv, ReadNothing PROVE IInv'
  OBVIOUS
<1>1. UNCHANGED <<stream, curPos, nextPos, cur, out, seen, trailer, failed>>
  BY DEF ReadNothing
<1>2. \/ result' = [op |-> "Read", err |-> "EOF"]
      \/ result' = [op |-> "Read", err |-> "out of order"]
  BY DEF ReadNothing
<1>3. result' \in [op : {"new", "Next", "Read"}, err : Errors]
  <2>1. CASE result' = [op |-> "Read", err |-> "EOF"]
    BY <2>1 DEF Errors
  <2>2. CASE result' = [op |-> "Read", err |-> "out of order"]
    BY <2>2 DEF Errors
  <2> QED BY <1>2, <2>1, <2>2
<1> QED BY <1>1, <1>3, NothingReadIInv

(* A Read that reaches the stream: the window and the stream move by k.    *)
LEMMA ReadBytesIInv ==
  ASSUME IInv, NEW n \in 1..MaxBuf, ReadBytes(n)
  PROVE  IInv'
<1>1. /\ stream \in Streams /\ stream.len \in Nat /\ curPos \in 0..stream.len
      /\ cur.ent # 0 /\ cur.curr_pos < cur.size
      /\ cur.start_pos + cur.curr_pos = curPos
      /\ cur.start_pos \in Nat /\ cur.curr_pos \in Nat /\ cur.size \in Nat
      /\ cur.curr_pos = Len(out) /\ out \in Seq(Nat) /\ n \in Nat
  <2>1. /\ stream \in Streams /\ curPos \in 0..stream.len
        /\ cur.start_pos \in 0..stream.len /\ cur.curr_pos \in Nat /\ cur.size \in Nat
        /\ cur.curr_pos = Len(out) /\ out \in Seq(Nat)
    BY DEF IInv, TypeOK
  <2>2. stream.len \in Nat /\ n \in Nat
    BY <2>1, StreamFacts, MaxBufAssumption
  <2>3. cur.ent # 0 /\ ~(cur.curr_pos >= cur.size) /\ cur.start_pos + cur.curr_pos = curPos
    BY DEF ReadBytes, InOrder, AtEnd
  <2> QED BY <2>1, <2>2, <2>3
<1>2. PICK k \in 0..Trim(n, cur), err \in {"nil", EndErr} :
        /\ curPos + k <= stream.len
        /\ curPos' = curPos + k
        /\ cur' = [cur EXCEPT !.curr_pos = @ + k]
        /\ out' = out \o [i \in 1..k |-> curPos + i - 1]
        /\ result' = [op |-> "Read", err |-> err]
  BY DEF ReadBytes
<1>3. UNCHANGED <<stream, nextPos, seen, trailer, failed>>
  BY DEF ReadBytes
<1>4. k \in Nat /\ k <= cur.size - cur.curr_pos
  BY <1>1, <1>2 DEF Trim
<1>5. /\ cur'.curr_pos = cur.curr_pos + k /\ cur'.start_pos = cur.start_pos
      /\ cur'.size = cur.size /\ cur'.ent = cur.ent
      /\ cur' \in [ent : 0..Len(entries), start_pos : 0..stream.len,
                   curr_pos : Nat, size : Nat, size64 : Nat]
  <2>1. cur \in [ent : 0..Len(entries), start_pos : 0..stream.len,
                curr_pos : Nat, size : Nat, size64 : Nat]
    BY DEF IInv, TypeOK
  <2>2. cur.curr_pos + k \in Nat
    BY <1>1, <1>4
  <2> QED BY <1>2, <2>1, <2>2
<1> DEFINE more == [i \in 1..k |-> curPos + i - 1]
<1>6. more \in Seq(Nat) /\ Len(more) = k /\ \A i \in 1..k : more[i] = curPos + i - 1
  BY <1>1, <1>4
<1>7. /\ out' \in Seq(Nat) /\ Len(out') = Len(out) + k
      /\ \A i \in 1..Len(out) : out'[i] = out[i]
      /\ \A i \in (Len(out) + 1)..(Len(out) + k) : out'[i] = more[i - Len(out)]
  <2> HIDE DEF more
  <2>1. out' = out \o more
    BY <1>2 DEF more
  <2>2. /\ out \o more \in Seq(Nat)
        /\ Len(out \o more) = Len(out) + Len(more)
        /\ \A i \in 1..Len(out) + Len(more) : (out \o more)[i] =
              IF i <= Len(out) THEN out[i] ELSE more[i - Len(out)]
    <3>1. out \in Seq(Nat) /\ more \in Seq(Nat)
      BY <1>1, <1>6
    <3> QED BY <3>1, ConcatProperties, Zenon
  <2>3. Len(out) \in Nat
    BY <1>1
  <2> QED BY <2>1, <2>2, <2>3, <1>4, <1>6
<1>8. TypeOK'
  <2>1. result' \in [op : {"new", "Next", "Read"}, err : Errors]
    BY <1>2 DEF EndErr, Errors
  <2>2. curPos' \in 0..stream.len
    BY <1>1, <1>2, <1>4
  <2>3. cur'.curr_pos <= cur'.size /\ cur'.curr_pos = Len(out')
    BY <1>1, <1>4, <1>5, <1>7
  <2> QED BY <1>3, <1>5, <1>7, <2>1, <2>2, <2>3 DEF IInv, TypeOK, entries
<1>9. NextPosInv'
  BY <1>3 DEF IInv, NextPosInv, entries
<1>10. WindowInv'
  <2>1. \A i \in 1..Len(out') : out'[i] = cur'.start_pos + i - 1
    <3> SUFFICES ASSUME NEW i \in 1..Len(out') PROVE out'[i] = cur.start_pos + i - 1
      BY <1>5
    <3>1. CASE i <= Len(out)
      <4>1. i \in 1..Len(out)
        BY <3>1, <1>1, <1>7
      <4>2. out[i] = cur.start_pos + i - 1
        BY <4>1 DEF IInv, WindowInv
      <4> QED BY <4>1, <4>2, <1>7
    <3>2. CASE i > Len(out)
      <4>1. i - Len(out) \in 1..k /\ i \in (Len(out) + 1)..(Len(out) + k)
        BY <3>2, <1>1, <1>4, <1>7
      <4>2. out'[i] = curPos + (i - Len(out)) - 1
        BY <4>1, <1>6, <1>7
      <4> QED BY <4>2, <1>1
    <3> QED BY <3>1, <3>2, <1>1
  <2>2. seen = cur.ent /\ seen > 0
    BY <1>1 DEF IInv, WindowInv, TypeOK
  <2>3. \/ cur.start_pos = entries[seen].data
        \/ cur.start_pos = stream.len /\ out' = <<>>
    <3>1. CASE cur.start_pos = stream.len /\ out = <<>>
      <4>1. k = 0
        BY <3>1, <1>1, <1>2, <1>4
      <4> QED BY <3>1, <4>1, <1>7
    <3> QED BY <3>1, <2>2 DEF IInv, WindowInv
  <2> QED BY <2>1, <2>2, <2>3, <1>3, <1>5 DEF IInv, WindowInv, entries
<1> QED BY <1>8, <1>9, <1>10 DEF IInv

(* The inductive invariant.                                                *)
THEOREM Invariance == Spec => []IInv
<1>1. IInv /\ [Next]_vars => IInv'
  <2> SUFFICES ASSUME IInv, [Next]_vars PROVE IInv'
    OBVIOUS
  <2>1. CASE ReaderNext
    BY <2>1, ReaderNextIInv
  <2>2. CASE ReadNil
    BY <2>2, ReadNilIInv
  <2>3. CASE ReadNothing
    BY <2>3, ReadNothingIInv
  <2>4. CASE \E n \in 1..MaxBuf : ReadBytes(n)
    BY <2>4, ReadBytesIInv
  <2>5. CASE UNCHANGED vars
    <3>1. result' \in [op : {"new", "Next", "Read"}, err : Errors]
      BY <2>5 DEF IInv, TypeOK, vars
    <3> QED BY <2>5, <3>1, NothingReadIInv DEF vars
  <2> QED BY <2>1, <2>2, <2>3, <2>4, <2>5 DEF Next, ReaderRead
<1> QED BY <1>1, InitIInv, PTL DEF Spec

(* Type correctness: the reader stays inside the stream and inside the     *)
(* window of the current file, for all archives and all sequences of       *)
(* Next and Read (file_stream.Read, ReadNextEntry).                        *)
THEOREM TypeCorrect == Spec => []TypeOK
<1>1. IInv => TypeOK
  BY DEF IInv
<1> QED BY <1>1, Invariance, PTL

(* The window's position says which bytes have been delivered.             *)
LEMMA PrefixDelivered == IInv => DeliversFilePrefix
<1> SUFFICES ASSUME IInv, out # <<>> PROVE
      /\ seen \in 1..Len(entries)
      /\ Len(out) <= entries[seen].len
      /\ \A i \in 1..Len(out) : out[i] = entries[seen].data + i - 1
  BY DEF DeliversFilePrefix
<1>1. seen \in Nat /\ seen # 0 /\ cur.ent = seen /\ cur.ent \in 0..Len(entries)
  BY DEF IInv, TypeOK, WindowInv
<1>2. cur.start_pos = entries[seen].data /\ cur.size = entries[seen].len
  BY <1>1 DEF IInv, WindowInv
<1>3. stream \in Streams /\ Len(entries) \in Nat
  BY StreamFacts DEF IInv, TypeOK
<1> QED BY <1>1, <1>2, <1>3 DEF IInv, TypeOK, WindowInv

(* Whatever is skipped, read in pieces or broken off, Read delivers        *)
(* exactly a prefix of the contents of the file Next returned last.        *)
THEOREM DeliveryCorrect == Spec => []DeliversFilePrefix
BY PrefixDelivered, Invariance, PTL

-----------------------------------------------------------------------------
(* The contents of no entry begin after those of the trailer.              *)
LEMMA DataBeforeTrailer ==
  ASSUME stream \in Streams, NEW i \in 1..Len(entries)
  PROVE  entries[i].data <= entries[Len(entries)].data
<1>1. Len(entries) \in Nat /\ Len(entries) \in 1..Len(entries)
  BY StreamFacts
<1>2. /\ entries[i].data \in Nat /\ entries[i].len \in Nat
      /\ entries[Len(entries)].data \in Nat /\ entries[Len(entries)].start \in Nat
      /\ entries[Len(entries)].data > entries[Len(entries)].start
  BY <1>1, EntryFields
<1>3. CASE i = Len(entries)
  BY <1>2, <1>3
<1>4. CASE i # Len(entries)
  <2>1. i < Len(entries) /\ i + 1 \in 1..Len(entries)
    BY <1>1, <1>4
  <2>2. entries[i + 1].start \in Nat
    BY <2>1, EntryFields
  <2>3. entries[i + 1].start - (entries[i].data + entries[i].len) \in 0..3
    BY <2>1, StreamFacts DEF PaddedTo4
  <2>4. entries[i + 1].start <= entries[Len(entries)].start
    <3>1. CASE i + 1 = Len(entries)
      BY <3>1, <1>2
    <3>2. CASE i + 1 # Len(entries)
      <4>1. i + 1 < Len(entries)
        BY <3>2, <2>1, <1>1
      <4>2. entries[i + 1].start < entries[Len(entries)].start
        BY <4>1, <2>1, <1>1, StreamFacts
      <4> QED BY <4>2, <2>2, <1>2
    <3> QED BY <3>1, <3>2
  <2> QED BY <2>2, <2>3, <2>4, <1>2
<1> QED BY <1>3, <1>4

(* The header of an entry the stream holds is read.                        *)
LEMMA HeaderRead ==
  ASSUME stream \in Streams, NEW i \in 1..Len(entries),
         entries[i].data <= stream.len,
         NEW h, h = readHeader(entries[i].start)
  PROVE  h.err = "nil" /\ h.ent = i
<1> DEFINE p     == entries[i].start
           magic == ReadFull(p, magicLength)
           k     == IF entries[i].stripped THEN 1 ELSE newcFields
           f     == Read16s(magic.pos, k)
<1>1. /\ p \in Nat /\ entries[i].data \in Nat /\ stream.len \in Nat
      /\ entries[i].namesize \in Nat /\ p < entries[i].data /\ p \in 0..stream.len
  BY StreamFacts, EntryFields
<1>2. EntryAt(p) = i
  <2>1. \A j \in 1..Len(entries) : entries[j].start = p => j = i
    <3> SUFFICES ASSUME NEW j \in 1..Len(entries), entries[j].start = p, j # i
                 PROVE FALSE
      OBVIOUS
    <3>1. j < i \/ i < j
      OBVIOUS
    <3>2. entries[j].start < entries[i].start \/ entries[i].start < entries[j].start
      BY <3>1, StreamFacts
    <3> QED BY <3>2, <1>1
  <2> QED BY <2>1 DEF EntryAt
<1>3. p + 6 + k * 8 <= entries[i].data
  <2>1. CASE entries[i].stripped
    BY <2>1, <1>1, StreamFacts DEF EntryOK, strippedLength, magicLength, fieldLength
  <2>2. CASE ~entries[i].stripped
    <3>1. p + newcHeaderLength + entries[i].namesize + namePadding(entries[i].namesize)
            = entries[i].data
          /\ namePadding(entries[i].namesize) \in Nat
      BY <2>2, NamePaddingReachesData
    <3> QED BY <3>1, <2>2, <1>1 DEF newcHeaderLength, newcFields
  <2> QED BY <2>1, <2>2
<1>4. k \in Nat
  BY DEF newcFields
<1>5. magic.err = "nil" /\ magic.pos = p + 6
  <2> HIDE DEF p, k
  <2> QED BY <1>1, <1>3, <1>4, ReadFullFacts DEF magicLength
<1>6. f.err = "nil"
  <2> HIDE DEF p, k, magic
  <2>1. magic.pos \in 0..stream.len /\ magic.pos + k * fieldLength <= stream.len
    BY <1>1, <1>3, <1>4, <1>5 DEF fieldLength
  <2> QED BY <2>1, <1>4, Read16sFacts
<1>7. h.err = f.err /\ h.ent = i
  BY <1>2, <1>5 DEF readHeader
<1> QED BY <1>6, <1>7

(* In a whole archive ReadNextEntry finds the next entry.                  *)
LEMMA WholeArchiveNext ==
  ASSUME IInv, WholeArchive, curPos <= nextPos, seen + 1 \in 1..Len(entries),
         nextPos = entries[seen + 1].start, NEW r, r = ReadNextEntry
  PROVE  r.err = "nil"
<1> DEFINE e    == entries[seen + 1]
           skip == Seek(curPos, nextPos - curPos)
           h    == readHeader(skip.pos)
           name == ReadFull(h.pos, e.namesize)
           gap  == Seek(name.pos, namePadding(e.namesize))
<1>1. /\ stream \in Streams /\ curPos \in 0..stream.len /\ nextPos \in Nat
      /\ stream.len \in Nat
  BY StreamFacts DEF IInv, TypeOK
<1>2. /\ e.start \in Nat /\ e.data \in Nat /\ e.namesize \in Nat /\ e.index \in Nat
      /\ e.data > e.start /\ Len(stream.sizes) \in Nat
      /\ entries[Len(entries)].data \in Nat
  <2>1. Len(entries) \in 1..Len(entries)
    BY <1>1, StreamFacts
  <2> QED BY <1>1, <2>1, EntryFields, StreamFacts
<1>3. e.data <= stream.len /\ nextPos \in 0..stream.len
  <2>1. e.data <= entries[Len(entries)].data /\ entries[Len(entries)].data <= stream.len
    BY <1>1, DataBeforeTrailer DEF WholeArchive
  <2> QED BY <2>1, <1>1, <1>2
<1>4. skip.err = "nil" /\ skip.pos = nextPos
  <2>1. nextPos - curPos \in Nat /\ curPos + (nextPos - curPos) <= stream.len
    BY <1>1, <1>3
  <2>2. /\ ReadFull(curPos, nextPos - curPos).err = "nil"
        /\ ReadFull(curPos, nextPos - curPos).pos = curPos + (nextPos - curPos)
    BY <1>1, <2>1, ReadFullFacts
  <2>3. skip = ReadFull(curPos, nextPos - curPos)
    BY <2>1, <2>2, <1>1 DEF Seek
  <2> HIDE DEF skip
  <2> QED BY <2>2, <2>3, <1>1
<1>5. /\ h.err = "nil" /\ h.ent = seen + 1 /\ h.pos \in 0..stream.len
      /\ ~e.stripped => h.pos = nextPos + newcHeaderLength
  <2> HIDE DEF skip
  <2>1. h = readHeader(e.start) /\ h = readHeader(nextPos)
    BY <1>4
  <2> HIDE DEF h
  <2>2. h.err = "nil" /\ h.ent = seen + 1
    BY <2>1, <1>1, <1>3, HeaderRead
  <2> QED BY <2>1, <2>2, <1>1, <1>3, ReadHeaderFacts
<1>6. CASE e.stripped
  <2>1. stream.hasSizes /\ e.index < Len(stream.sizes)
    BY <1>6 DEF WholeArchive
  <2>2. ~(e.index >= Len(stream.sizes))
    BY <2>1, <1>2
  <2>3. r = readStrippedEntry(h)
    BY <1>4, <1>5, <1>6 DEF ReadNextEntry
  <2> HIDE DEF h
  <2> QED BY <2>1, <2>2, <2>3, <1>5 DEF readStrippedEntry, Found
<1>7. CASE ~e.stripped
  <2>1. r = readNewcEntry(h)
    BY <1>4, <1>5, <1>7 DEF ReadNextEntry
  <2>2. /\ namePadding(e.namesize) \in Nat
        /\ h.pos + e.namesize + namePadding(e.namesize) = e.data
    <3>1. e.start + newcHeaderLength + e.namesize + namePadding(e.namesize) = e.data
          /\ namePadding(e.namesize) \in Nat
      BY <1>1, <1>7, NamePaddingReachesData
    <3> QED BY <3>1, <1>5, <1>7
  <2> HIDE DEF h
  <2>3. name.err = "nil" /\ name.pos = h.pos + e.namesize
    <3>1. h.pos \in 0..stream.len /\ h.pos + e.namesize <= stream.len
      BY <2>2, <1>1, <1>2, <1>3, <1>5
    <3>2. stream \in Streams /\ e.namesize \in Nat
      BY <1>1, <1>2
    <3>3. ASSUME NEW a \in 0..stream.len, NEW b \in Nat, a + b <= stream.len
          PROVE  ReadFull(a, b).err = "nil" /\ ReadFull(a, b).pos = a + b
      BY <3>2, <3>3, ReadFullFacts
    <3> QED BY <3>1, <3>2, <3>3
  <2>4. gap.err = "nil"
    <3> HIDE DEF name
    <3>1. name.pos \in 0..stream.len /\ name.pos + namePadding(e.namesize) <= stream.len
      BY <2>2, <2>3, <1>1, <1>2, <1>3, <1>5
    <3>2. ReadFull(name.pos, namePadding(e.namesize)).err = "nil"
      BY <3>1, <2>2, <1>1, ReadFullFacts
    <3>3. gap = ReadFull(name.pos, namePadding(e.namesize))
      BY <3>2, <2>2 DEF Seek
    <3> QED BY <3>2, <3>3
  <2> QED BY <2>1, <2>3, <2>4, <1>5 DEF readNewcEntry, Found
<1> QED BY <1>6, <1>7

(* SyncInv is inductive relative to IInv, a call of Next...                *)
LEMMA SyncNext ==
  ASSUME IInv, SyncInv, ReaderNext
  PROVE  SyncInv' /\ (~failed => result'.err # "panic")
<1> DEFINE r == ReadNextEntry
<1>1. r = ReadNextEntry
  OBVIOUS
<1> HIDE DEF r
<1>2. /\ ReadOutcome(r) /\ curPos' = r.pos /\ nextPos' = r.nextPos
      /\ curPos \in Nat /\ nextPos \in Nat /\ r.pos \in Nat /\ r.nextPos \in Nat
      /\ seen \in Nat /\ stream \in Streams /\ stream' = stream
      /\ cur.start_pos \in Nat /\ cur.size \in Nat
  <2>1. ReadOutcome(r) /\ curPos' = r.pos /\ nextPos' = r.nextPos /\ stream' = stream
    BY <1>1, ReaderNextCases
  <2>2. /\ curPos \in 0..stream.len /\ nextPos \in Nat /\ seen \in Nat
        /\ stream \in Streams /\ cur.start_pos \in 0..stream.len /\ cur.size \in Nat
    BY DEF IInv, TypeOK
  <2>3. r.pos \in 0..stream.len /\ r.nextPos \in Nat
    BY <2>1 DEF ReadOutcome
  <2> QED BY <2>1, <2>2, <2>3, StreamFacts
<1>3. CASE /\ r.err # "nil" /\ result' = [op |-> "Next", err |-> r.err]
           /\ failed' = TRUE /\ cur' = cur
  <2>1. SyncInv'
    BY <1>2, <1>3 DEF SyncInv, ReadOutcome
  <2>2. ~failed => r.err # "panic"
    <3>1. r.err = "panic" => nextPos < curPos
      BY <1>2 DEF ReadOutcome
    <3>2. ~failed => curPos <= nextPos
      BY DEF SyncInv
    <3> QED BY <3>1, <3>2, <1>2
  <2> QED BY <2>1, <2>2, <1>3
<1>4. CASE r.err = "nil"
  <2>1. /\ r.pos >= nextPos /\ r.nextPos >= r.pos + entries[seen + 1].len
        /\ seen + 1 \in 1..Len(entries) /\ entries[seen + 1].len \in Nat
        /\ r.file.start_pos = r.pos /\ r.file.curr_pos = 0
        /\ r.file.size = entries[seen + 1].len
    BY <1>2, <1>4, EntryFields DEF ReadOutcome, IsNextFile
  <2>2. CASE result' = [op |-> "Next", err |-> "EOF"] /\ trailer' = TRUE
             /\ UNCHANGED <<cur, out, seen, failed>>
    BY <1>2, <2>1, <2>2 DEF SyncInv
  <2>3. CASE cur' = r.file /\ result' = [op |-> "Next", err |-> "nil"]
             /\ out' = <<>> /\ seen' = seen + 1 /\ UNCHANGED <<trailer, failed>>
    BY <1>2, <2>1, <2>3 DEF SyncInv
  <2> QED BY <1>1, <1>4, <2>2, <2>3, ReaderNextCases
<1> QED BY <1>1, <1>3, <1>4, ReaderNextCases

(* ... or of Read.                                                         *)
LEMMA SyncRead ==
  ASSUME IInv, SyncInv, ReaderRead
  PROVE  /\ SyncInv'
         /\ ~failed /\ seen > 0 =>
              /\ result'.err # "panic"
              /\ ~trailer => result'.err # "out of order"
<1>1. CASE ReadNil
  <2>1. seen = 0 /\ UNCHANGED <<stream, curPos, nextPos, cur, seen, trailer, failed>>
    BY <1>1 DEF ReadNil, IInv, WindowInv
  <2> QED BY <2>1 DEF SyncInv
<1>2. CASE ReadNothing
  <2>1. UNCHANGED <<stream, curPos, nextPos, cur, seen, trailer, failed>>
    BY <1>2 DEF ReadNothing
  <2>2. \/ result' = [op |-> "Read", err |-> "EOF"]
        \/ ~InOrder(cur, curPos) /\ result' = [op |-> "Read", err |-> "out of order"]
    BY <1>2 DEF ReadNothing
  <2>3. ~failed /\ seen > 0 /\ ~trailer => InOrder(cur, curPos)
    BY DEF SyncInv, InOrder
  <2>4. SyncInv'
    BY <2>1 DEF SyncInv
  <2>5. result'.err # "panic" /\ (result'.err = "out of order" => ~InOrder(cur, curPos))
    <3>1. CASE result' = [op |-> "Read", err |-> "EOF"]
      BY <3>1
    <3>2. CASE ~InOrder(cur, curPos) /\ result' = [op |-> "Read", err |-> "out of order"]
      BY <3>2
    <3> QED BY <2>2, <3>1, <3>2
  <2> QED BY <2>3, <2>4, <2>5
<1>3. ASSUME NEW n \in 1..MaxBuf, ReadBytes(n)
      PROVE  SyncInv' /\ result'.err # "panic" /\ result'.err # "out of order"
  <2>1. /\ curPos \in Nat /\ nextPos \in Nat /\ cur.start_pos \in Nat
        /\ cur.curr_pos \in Nat /\ cur.size \in Nat /\ n \in Nat
        /\ cur \in [ent : 0..Len(entries), start_pos : 0..stream.len,
                    curr_pos : Nat, size : Nat, size64 : Nat]
    BY StreamFacts, MaxBufAssumption DEF IInv, TypeOK
  <2>2. PICK k \in 0..Trim(n, cur), err \in {"nil", EndErr} :
          /\ curPos' = curPos + k
          /\ cur' = [cur EXCEPT !.curr_pos = @ + k]
          /\ result' = [op |-> "Read", err |-> err]
    BY <1>3 DEF ReadBytes
  <2>3. /\ ~(cur.curr_pos >= cur.size) /\ cur.start_pos + cur.curr_pos = curPos
        /\ UNCHANGED <<stream, nextPos, seen, trailer, failed>>
    BY <1>3 DEF ReadBytes, AtEnd, InOrder
  <2>4. k \in Nat /\ k <= cur.size - cur.curr_pos
    BY <2>1, <2>2, <2>3 DEF Trim
  <2>5. /\ cur'.curr_pos = cur.curr_pos + k /\ cur'.start_pos = cur.start_pos
        /\ cur'.size = cur.size
    BY <2>1, <2>2
  <2>6. SyncInv'
    BY <2>1, <2>2, <2>3, <2>4, <2>5 DEF SyncInv
  <2> QED BY <2>2, <2>6 DEF EndErr
<1> QED BY <1>1, <1>2, <1>3 DEF ReaderRead

(* SyncInv holds of every behaviour.                                       *)
THEOREM Synchronised == Spec => []SyncInv
<1>1. Init => SyncInv
  <2> SUFFICES ASSUME Init PROVE SyncInv
    OBVIOUS
  <2> QED BY DEF Init, NewReaderWithSizes, NoFile, SyncInv
<1>2. IInv /\ SyncInv /\ [Next]_vars => SyncInv'
  <2> SUFFICES ASSUME IInv, SyncInv, [Next]_vars PROVE SyncInv'
    OBVIOUS
  <2>1. CASE UNCHANGED vars
    BY <2>1 DEF vars, SyncInv
  <2> QED BY <2>1, SyncNext, SyncRead DEF Next
<1> QED BY <1>1, <1>2, Invariance, PTL DEF Spec

(* As long as Next has not failed and has returned a file, no call panics, *)
(* and until the trailer no Read finds the stream out of order: Seek is    *)
(* never given a negative offset and the window, the counting reader and   *)
(* nextPos do not drift apart (cpio.go ReadNextEntry, stream.go Read).     *)
THEOREM NoMisuse == Spec => MisuseOnlyAfterFailure
<1> DEFINE Step ==
      ~failed /\ seen > 0 =>
        /\ result'.err # "panic"
        /\ ~trailer => result'.err # "out of order"
<1>1. IInv /\ SyncInv /\ [Next]_vars => [Step]_vars
  <2> SUFFICES ASSUME IInv, SyncInv, Next PROVE Step
    OBVIOUS
  <2>1. CASE ReaderNext
    <3> DEFINE r == ReadNextEntry
    <3>1. r = ReadNextEntry
      OBVIOUS
    <3> HIDE DEF r
    <3>2. ~failed => result'.err # "panic"
      BY <2>1, SyncNext
    <3>3. result'.err # "out of order"
      <4>1. \/ result' = [op |-> "Next", err |-> r.err]
            \/ result' = [op |-> "Next", err |-> "EOF"]
            \/ result' = [op |-> "Next", err |-> "nil"]
        BY <2>1, <3>1, ReaderNextCases, Zenon
      <4>2. r.err # "out of order"
        BY <3>1, ReadNextEntryOutcome DEF ReadOutcome
      <4>3. CASE result' = [op |-> "Next", err |-> r.err]
        BY <4>2, <4>3
      <4>4. CASE result' = [op |-> "Next", err |-> "EOF"]
        BY <4>4
      <4>5. CASE result' = [op |-> "Next", err |-> "nil"]
        BY <4>5
      <4> QED BY <4>1, <4>3, <4>4, <4>5
    <3> QED BY <3>2, <3>3
  <2>2. CASE ReaderRead
    BY <2>2, SyncRead
  <2> QED BY <2>1, <2>2 DEF Next
<1> QED BY <1>1, Invariance, Synchronised, PTL DEF Spec, MisuseOnlyAfterFailure

(* A call of Next that fails or meets the trailer leaves the stream at its *)
(* end or behind the window, and later ones find it there.                 *)
LEMMA EndNext ==
  ASSUME IInv, SyncInv, EndInv, ReaderNext
  PROVE  EndInv' /\ (failed \/ trailer => UNCHANGED <<out, seen, trailer>>)
<1> DEFINE r == ReadNextEntry
<1>1. r = ReadNextEntry
  OBVIOUS
<1> HIDE DEF r
<1>2. /\ ReadOutcome(r) /\ curPos' = r.pos /\ nextPos' = r.nextPos /\ stream' = stream
      /\ curPos \in Nat /\ nextPos \in Nat /\ stream.len \in Nat
      /\ cur.start_pos \in Nat /\ cur.size \in Nat
  <2>1. ReadOutcome(r) /\ curPos' = r.pos /\ nextPos' = r.nextPos /\ stream' = stream
    BY <1>1, ReaderNextCases
  <2>2. /\ curPos \in 0..stream.len /\ nextPos \in Nat /\ stream.len \in Nat
        /\ cur.start_pos \in 0..stream.len /\ cur.size \in Nat
    BY StreamFacts DEF IInv, TypeOK
  <2> QED BY <2>1, <2>2
<1>3. r.pos \in Nat
  <2>1. r.pos \in 0..stream.len
    BY <1>2 DEF ReadOutcome
  <2> QED BY <1>2, <2>1
<1>4. CASE r.err # "nil"
  <2>1. UNCHANGED <<cur, out, seen, trailer>>
    BY <1>1, <1>4, ReaderNextCases
  <2>2. r.nextPos = nextPos /\ (r.pos = stream.len \/ r.pos > nextPos)
    BY <1>2, <1>4 DEF ReadOutcome
  <2>3. cur.start_pos + cur.size <= nextPos
    BY DEF SyncInv
  <2> QED BY <1>2, <1>3, <2>1, <2>2, <2>3 DEF EndInv
<1>5. CASE r.err = "nil"
  <2>1. /\ ~trailer /\ curPos <= nextPos /\ nextPos < stream.len /\ r.pos >= nextPos
    BY <1>2, <1>5 DEF ReadOutcome, IsNextFile
  <2>2. ~failed
    BY <1>2, <2>1 DEF EndInv
  <2>3. cur.start_pos + cur.size <= r.pos
    BY <1>2, <1>3, <2>1 DEF SyncInv
  <2>4. CASE entries[r.file.ent].trailer
    <3>1. trailer' = TRUE /\ cur' = cur
      BY <1>1, <1>5, <2>4, ReaderNextCases
    <3> QED BY <1>2, <2>1, <2>2, <2>3, <3>1 DEF EndInv
  <2>5. CASE ~entries[r.file.ent].trailer
    <3>1. UNCHANGED <<trailer, failed>>
      BY <1>1, <1>5, <2>5, ReaderNextCases
    <3> QED BY <2>1, <2>2, <3>1 DEF EndInv
  <2> QED BY <2>4, <2>5
<1> QED BY <1>4, <1>5

(* Read finds nothing there.                                               *)
LEMMA EndRead ==
  ASSUME IInv, EndInv, ReaderRead
  PROVE  EndInv' /\ (failed \/ trailer => UNCHANGED <<out, seen, trailer>>)
<1>1. CASE ReadNil \/ ReadNothing
  <2>1. UNCHANGED <<stream, curPos, nextPos, cur, out, seen, trailer, failed>>
    BY <1>1 DEF ReadNil, ReadNothing
  <2> QED BY <2>1 DEF EndInv
<1>2. ASSUME NEW n \in 1..MaxBuf, ReadBytes(n)
      PROVE  EndInv' /\ (failed \/ trailer => UNCHANGED <<out, seen, trailer>>)
  <2>1. /\ curPos \in Nat /\ cur.start_pos \in Nat /\ stream.len \in Nat
        /\ cur.curr_pos \in Nat /\ cur.size \in Nat /\ n \in Nat /\ out \in Seq(Nat)
    BY StreamFacts, MaxBufAssumption DEF IInv, TypeOK
  <2>2. PICK k \in 0..Trim(n, cur) :
          /\ curPos + k <= stream.len
          /\ curPos' = curPos + k
          /\ out' = out \o [i \in 1..k |-> curPos + i - 1]
    BY <1>2 DEF ReadBytes
  <2>3. /\ ~(cur.curr_pos >= cur.size) /\ cur.start_pos + cur.curr_pos = curPos
        /\ UNCHANGED <<stream, nextPos, seen, trailer, failed>>
    BY <1>2 DEF ReadBytes, AtEnd, InOrder
  <2>4. k \in Nat
    BY <2>1, <2>2 DEF Trim
  <2>5. CASE failed \/ trailer
    <3>1. curPos = stream.len
      BY <2>1, <2>3, <2>5 DEF EndInv
    <3>2. k = 0
      BY <2>1, <2>2, <2>4, <3>1
    <3>3. out' = out
      <4>1. [i \in 1..0 |-> curPos + i - 1] = <<>>
        OBVIOUS
      <4> QED BY <2>1, <2>2, <3>2, <4>1, ConcatEmptySeq
    <3> QED BY <2>1, <2>2, <2>3, <3>1, <3>2, <3>3 DEF EndInv
  <2>6. CASE ~(failed \/ trailer)
    BY <2>3, <2>6 DEF EndInv
  <2> QED BY <2>5, <2>6
<1> QED BY <1>1, <1>2 DEF ReaderRead

(* EndInv holds of every behaviour.                                        *)
THEOREM NothingAfterEnd == Spec => []EndInv
<1>1. Init => EndInv
  <2> SUFFICES ASSUME Init PROVE EndInv
    OBVIOUS
  <2> QED BY DEF Init, NewReaderWithSizes, EndInv
<1>2. IInv /\ SyncInv /\ EndInv /\ [Next]_vars => EndInv'
  <2> SUFFICES ASSUME IInv, SyncInv, EndInv, [Next]_vars PROVE EndInv'
    OBVIOUS
  <2>1. CASE UNCHANGED vars
    BY <2>1 DEF vars, EndInv
  <2> QED BY <2>1, EndNext, EndRead DEF Next
<1> QED BY <1>1, <1>2, Invariance, Synchronised, PTL DEF Spec

(* No call returns a file, meets the trailer or delivers a byte once Next  *)
(* has failed or met the trailer, wherever the failure left the stream     *)
(* (cpio.go ReadNextEntry, stream.go Read).                                *)
THEOREM FailureIsFinal == Spec => NothingAfterFailure
<1> DEFINE Step == failed \/ trailer => UNCHANGED <<out, seen, trailer>>
<1>1. IInv /\ SyncInv /\ EndInv /\ [Next]_vars => [Step]_vars
  <2> SUFFICES ASSUME IInv, SyncInv, EndInv, Next PROVE Step
    OBVIOUS
  <2> QED BY EndNext, EndRead DEF Next
<1> QED
  BY <1>1, Invariance, Synchronised, NothingAfterEnd, PTL DEF Spec, NothingAfterFailure

(* ReadableInv holds of every behaviour.                                   *)
THEOREM Readable == Spec => []ReadableInv
<1>1. Init => ReadableInv
  <2> SUFFICES ASSUME Init PROVE ReadableInv
    OBVIOUS
  <2>1. Len(entries) \in Nat \ {0} /\ entries[1].start = 0
    BY StreamFacts DEF Init
  <2> QED BY <2>1 DEF Init, NewReaderWithSizes, ReadableInv
<1>2. IInv /\ SyncInv /\ ReadableInv /\ [Next]_vars => ReadableInv'
  <2> SUFFICES ASSUME IInv, SyncInv, ReadableInv, [Next]_vars, WholeArchive'
               PROVE  /\ trailer' => seen' = Len(entries') - 1
                      /\ ~trailer' =>
                           /\ ~failed'
                           /\ seen' + 1 \in 1..Len(entries')
                           /\ nextPos' = entries'[seen' + 1].start
    BY DEF ReadableInv
  <2>1. stream' = stream
    BY DEF Next, ReaderNext, ReaderRead, ReadNil, ReadNothing, ReadBytes, vars
  <2>2. entries' = entries /\ WholeArchive
    BY <2>1 DEF entries, WholeArchive
  <2>3. CASE UNCHANGED <<nextPos, seen, trailer, failed>>
    BY <2>2, <2>3 DEF ReadableInv
  <2>4. CASE ReaderNext
    <3> DEFINE r == ReadNextEntry
    <3>1. r = ReadNextEntry
      OBVIOUS
    <3> HIDE DEF r
    <3>2. ReadOutcome(r) /\ nextPos' = r.nextPos
      BY <2>4, <3>1, ReaderNextCases
    <3>3. stream \in Streams /\ stream.len \in Nat /\ seen \in Nat /\ Len(entries) \in Nat \ {0}
      BY StreamFacts DEF IInv, TypeOK
    <3>4. CASE r.err # "nil"
      <4>1. trailer
        <5> SUFFICES ASSUME ~trailer PROVE FALSE
          BY DEF IInv, TypeOK
        <5>1. /\ ~failed /\ seen + 1 \in 1..Len(entries)
              /\ nextPos = entries[seen + 1].start
          BY <2>2 DEF ReadableInv
        <5>2. curPos <= nextPos
          BY <5>1 DEF SyncInv
        <5> QED BY <5>1, <5>2, <2>2, <3>1, <3>4, WholeArchiveNext
      <4>2. UNCHANGED <<seen, trailer>>
        BY <2>4, <3>1, <3>4, ReaderNextCases
      <4> QED BY <4>1, <4>2, <2>2 DEF ReadableInv
    <3>5. CASE r.err = "nil"
      <4>1. IsNextFile(r) /\ r.file.ent = seen + 1 /\ ~trailer
            /\ seen + 1 \in 1..Len(entries)
        BY <3>2, <3>5 DEF ReadOutcome, IsNextFile
      <4>2. entries[seen + 1].trailer <=> (seen + 1 = Len(entries))
        BY <3>3, <4>1, StreamFacts
      <4>3. CASE entries[seen + 1].trailer
        <5>1. trailer' = TRUE /\ seen' = seen
          BY <2>4, <3>1, <3>5, <4>1, <4>3, ReaderNextCases
        <5> QED BY <5>1, <4>2, <4>3, <2>2, <3>3
      <4>4. CASE ~entries[seen + 1].trailer
        <5>1. seen' = seen + 1 /\ trailer' = trailer /\ failed' = failed
          BY <2>4, <3>1, <3>5, <4>1, <4>4, ReaderNextCases
        <5>2. ~(stream.len < entries[seen + 1].data)
          <6>1. /\ entries[seen + 1].data <= entries[Len(entries)].data
                /\ entries[Len(entries)].data <= stream.len
            BY <2>2, <3>3, <4>1, DataBeforeTrailer DEF WholeArchive
          <6>2. /\ entries[seen + 1].data \in Nat /\ entries[Len(entries)].data \in Nat
            BY <3>3, <4>1, EntryFields
          <6> QED BY <6>1, <6>2, <3>3
        <5>3. seen + 1 < Len(entries) /\ r.nextPos = entries[(seen + 1) + 1].start
          BY <4>1, <4>2, <4>4, <5>2 DEF IsNextFile
        <5>4. ~failed
          BY <2>2, <4>1 DEF ReadableInv
        <5> QED BY <5>1, <5>3, <5>4, <4>1, <2>2, <3>2, <3>3
      <4> QED BY <4>3, <4>4
    <3> QED BY <3>4, <3>5
  <2>5. ReaderRead => UNCHANGED <<nextPos, seen, trailer, failed>>
    BY DEF ReaderRead, ReadNil, ReadNothing, ReadBytes
  <2> QED BY <2>3, <2>4, <2>5 DEF Next, vars
<1> QED BY <1>1, <1>2, Invariance, Synchronised, PTL DEF Spec

(* A complete archive is read without error up to its trailer, and by then *)
(* Next has returned every file (cpio.go ReadNextEntry, reader.go Next).   *)
THEOREM WholeArchiveRead == Spec => []WholeArchiveReadable
<1>1. IInv /\ ReadableInv => WholeArchiveReadable
  BY DEF ReadableInv, WholeArchiveReadable, IInv, TypeOK
<1> QED BY <1>1, Invariance, Readable, PTL
=============================================================================
