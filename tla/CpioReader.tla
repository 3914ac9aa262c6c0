----------------------------- MODULE CpioReader -----------------------------
(***************************************************************************)
(* The cpio archive reader of package cpio: CpioStream (cpio.go), the      *)
(* per-file window file_stream (stream.go), the header reader (header.go)  *)
(* and the tar-like interface Reader (reader.go).                          *)
(*                                                                         *)
(* A byte of the archive is identified by its offset in the stream, so     *)
(* what a Read call delivers is a sequence of offsets.  The archive is     *)
(* described by where its entries lie; the reader computes positions with  *)
(* its own arithmetic (pad, pad64, nextPos), and the properties say that   *)
(* the two agree however calls of Next and Read are interleaved, however   *)
(* short the underlying reads are and wherever the stream breaks off.      *)
(***************************************************************************)
EXTENDS Integers, Sequences

CONSTANTS
    Streams,  \* the input streams to read (see StreamOK)
    MaxBuf    \* bound on len(p), the buffer a caller passes to Read

newcHeaderLength == 110
magicLength      == 6
fieldLength      == 8
strippedLength   == magicLength + fieldLength
newcFields       == 13

(***************************************************************************)
(* The input (external: written by rpm or cpio).  stream.entries is the    *)
(* archive, its last element the TRAILER!!! entry; stream.len the number   *)
(* of bytes the underlying reader yields before it reports io.EOF, or, if  *)
(* stream.fault, another error; sizes the slice given to SetFileSizes, nil *)
(* unless hasSizes.  An entry occupies start .. data + len - 1, its file   *)
(* contents begin at data.  Entries of the newc format pad name and        *)
(* contents to 4 bytes; RPM's stripped entries carry only an index and     *)
(* have no padding between header and contents (testdata/stripped.cpio).   *)
(***************************************************************************)
EntryType ==
  [start : Nat, data : Nat, len : Nat, stripped : BOOLEAN,
   namesize : Nat \ {0}, index : Nat, trailer : BOOLEAN]

PaddedTo4(from, to) == to % 4 = 0 /\ to - from \in 0..3

EntryOK(e) ==
  IF e.stripped THEN e.data = e.start + strippedLength
                ELSE PaddedTo4(e.start + newcHeaderLength + e.namesize, e.data)

StreamOK(s) ==
  /\ s.entries \in Seq(EntryType) /\ Len(s.entries) > 0
  /\ s.len \in Nat /\ s.fault \in BOOLEAN
  /\ s.sizes \in Seq(Nat) /\ s.hasSizes \in BOOLEAN
  /\ s.entries[1].start = 0
  /\ \A i \in 1..Len(s.entries) :
       /\ EntryOK(s.entries[i])
       /\ s.entries[i].trailer <=> (i = Len(s.entries))
       /\ s.entries[i].trailer => s.entries[i].len = 0 /\ ~s.entries[i].stripped
       /\ s.entries[i].stripped /\ s.entries[i].index < Len(s.sizes)
            => s.sizes[s.entries[i].index + 1] = s.entries[i].len
       /\ i < Len(s.entries) =>
            PaddedTo4(s.entries[i].data + s.entries[i].len, s.entries[i + 1].start)
       /\ \A j \in 1..Len(s.entries) :
            i < j => s.entries[i].start < s.entries[j].start

ASSUME StreamsAssumption == \A s \in Streams : StreamOK(s)
ASSUME MaxBufAssumption  == MaxBuf \in Nat \ {0}

VARIABLES
    stream,   \* the io.Reader handed to NewReaderWithSizes
    curPos,   \* countingReader.curPos: bytes consumed from the stream
    nextPos,  \* CpioStream.nextPos: where the next header is expected
    cur,      \* Reader.cur: the file last returned by Next (ent = 0: nil)
    result,   \* what the last call returned
    \* observations, not state of the program:
    out,      \* offsets of the bytes Read delivered for the current file
    seen,     \* number of files Next has returned
    trailer,  \* Next has met the TRAILER!!! entry
    failed    \* Next has returned an error without meeting the trailer

vars == <<stream, curPos, nextPos, cur, result, out, seen, trailer, failed>>

NoFile == [ent |-> 0, start_pos |-> 0, curr_pos |-> 0, size |-> 0, size64 |-> 0]
entries == stream.entries

-----------------------------------------------------------------------------
(* io.ReadFull on the countingReader: n bytes from offset p.               *)
ReadFull(p, n) ==
  IF n <= stream.len - p THEN [pos |-> p + n, err |-> "nil"]
  ELSE [pos |-> stream.len,
        err |-> IF stream.fault THEN "fault"
                ELSE IF p = stream.len THEN "EOF" ELSE "UnexpectedEOF"]

(* countingReader.Seek(offset, 1): read and discard; an io.EOF met before  *)
(* the first byte is not an error, a negative offset panics in make.       *)
Seek(p, offset) ==
  LET r == ReadFull(p, offset) IN
  IF offset < 0 THEN [pos |-> p, err |-> "panic"]
  ELSE IF r.err = "EOF" THEN [r EXCEPT !.err = "nil"] ELSE r

(* n eight-digit header fields, one io.ReadFull each: io.EOF if the stream *)
(* ends between two fields, io.ErrUnexpectedEOF inside one.                *)
Read16s(p, n) ==
  LET avail == stream.len - p IN
  IF n * fieldLength <= avail THEN [pos |-> p + n * fieldLength, err |-> "nil"]
  ELSE [pos |-> stream.len,
        err |-> IF stream.fault THEN "fault"
                ELSE IF avail % fieldLength = 0 THEN "EOF" ELSE "UnexpectedEOF"]

EntryAt(p) == CHOOSE i \in 1..Len(entries) : entries[i].start = p

(* readHeader and readStrippedHeader; bytes that do not begin an entry do  *)
(* not carry a magic.                                                      *)
readHeader(p) ==
  LET magic  == ReadFull(p, magicLength)
      known  == \E i \in 1..Len(entries) : entries[i].start = p
      fields == Read16s(magic.pos,
                        IF entries[EntryAt(p)].stripped THEN 1 ELSE newcFields)
  IN  IF magic.err # "nil" THEN [pos |-> magic.pos, err |-> magic.err, ent |-> 0]
      ELSE IF ~known THEN [pos |-> magic.pos, err |-> "bad magic", ent |-> 0]
      ELSE [pos |-> fields.pos, err |-> fields.err, ent |-> EntryAt(p)]

pad(num) == (num + 3) - ((num + 3) % 4)

pad64Floor(num) == num - (num % 4)
pad64(num) == (num + 3) - ((num + 3) % 4)

(* What ReadNextEntry leaves behind and returns.                           *)
Failed(p, err) == [pos |-> p, nextPos |-> nextPos, err |-> err, file |-> NoFile]
Found(p, next, file) == [pos |-> p, nextPos |-> next, err |-> "nil", file |-> file]

(* newFileStream at offset p for entry i.                                  *)
newFileStream(i, p, size, size64) ==
  [ent |-> i, start_pos |-> p, curr_pos |-> 0, size |-> size, size64 |-> size64]

(* CpioStream.readStrippedEntry: the size comes from SetFileSizes.         *)
readStrippedEntry(hdr) ==
  LET e    == entries[hdr.ent]
      size == stream.sizes[e.index + 1]
  IN  IF ~stream.hasSizes THEN Failed(hdr.pos, "ErrStrippedHeader")
      ELSE IF e.index >= Len(stream.sizes) THEN Failed(hdr.pos, "invalid index")
      ELSE Found(hdr.pos, pad64(hdr.pos + size),
                 newFileStream(hdr.ent, hdr.pos, size, 0))

namePaddingNoHeader(namesize) == pad(namesize) - namesize
namePadding(namesize) ==
  pad(newcHeaderLength + namesize) - newcHeaderLength - namesize

(* The rest of ReadNextEntry for a newc header: the name, the padding that *)
(* follows it, then the window over the contents.                          *)
readNewcEntry(hdr) ==
  LET e    == entries[hdr.ent]
      name == ReadFull(hdr.pos, e.namesize)
      gap  == Seek(name.pos, namePadding(e.namesize))
  IN  IF name.err # "nil" THEN Failed(name.pos, name.err)
      ELSE IF gap.err # "nil" THEN Failed(gap.pos, gap.err)
      ELSE Found(gap.pos, pad64(gap.pos + e.len),
                 newFileStream(hdr.ent, gap.pos, e.len, e.len))

(* CpioStream.ReadNextEntry.                                               *)
ReadNextEntry ==
  LET skip == Seek(curPos, nextPos - curPos)
      hdr  == readHeader(skip.pos)
  IN  IF skip.err # "nil" THEN Failed(skip.pos, skip.err)
      ELSE IF hdr.err # "nil" THEN Failed(hdr.pos, hdr.err)
      ELSE IF entries[hdr.ent].stripped THEN readStrippedEntry(hdr)
      ELSE readNewcEntry(hdr)

-----------------------------------------------------------------------------
(* NewReaderWithSizes.                                                     *)
NewReaderWithSizes ==
  /\ curPos = 0 /\ nextPos = 0
  /\ cur = NoFile
  /\ result = [op |-> "new", err |-> "nil"]
  /\ out = <<>> /\ seen = 0 /\ trailer = FALSE /\ failed = FALSE

Init == stream \in Streams /\ NewReaderWithSizes

Running == result.err # "panic"

(* Reader.Next.                                                            *)
ReaderNext ==
  \E r \in {ReadNextEntry} :
  /\ Running
  /\ curPos' = r.pos /\ nextPos' = r.nextPos
  /\ \/ /\ r.err # "nil"
        /\ result' = [op |-> "Next", err |-> r.err]
        /\ failed' = TRUE
        /\ UNCHANGED <<cur, out, seen, trailer>>
     \/ /\ r.err = "nil" /\ entries[r.file.ent].trailer
        /\ result' = [op |-> "Next", err |-> "EOF"]
        /\ trailer' = TRUE
        /\ UNCHANGED <<cur, out, seen, failed>>
     \/ /\ r.err = "nil" /\ ~entries[r.file.ent].trailer
        /\ cur' = r.file
        /\ result' = [op |-> "Next", err |-> "nil"]
        /\ out' = <<>> /\ seen' = seen + 1
        /\ UNCHANGED <<trailer, failed>>
  /\ UNCHANGED stream

(* Reader.Read with no current file: a nil dereference.                    *)
ReadNil ==
  /\ Running /\ cur.ent = 0
  /\ result' = [op |-> "Read", err |-> "panic"]
  /\ UNCHANGED <<stream, curPos, nextPos, cur, out, seen, trailer, failed>>

AtEnd(f) == f.curr_pos >= f.size

InOrderUnchecked(f, p) == TRUE
InOrder(f, p) == f.start_pos + f.curr_pos = p

(* file_stream.Read without bytes: the window is exhausted, or the stream  *)
(* is not where the window left it.                                        *)
ReadNothing ==
  /\ Running /\ cur.ent # 0
  /\ \/ /\ AtEnd(cur)
        /\ result' = [op |-> "Read", err |-> "EOF"]
     \/ /\ ~AtEnd(cur) /\ ~InOrder(cur, curPos)
        /\ result' = [op |-> "Read", err |-> "out of order"]
  /\ UNCHANGED <<stream, curPos, nextPos, cur, out, seen, trailer, failed>>

EndErr == IF stream.fault THEN "fault" ELSE "EOF"

TrimNothing(n, f) == n
Trim(n, f) == IF n > f.size - f.curr_pos THEN f.size - f.curr_pos ELSE n

(* file_stream.Read that reaches the stream with a buffer of n bytes: the  *)
(* reader below may return any k of them, and may report the end of the    *)
(* stream together with its last bytes.                                    *)
ReadBytes(n) ==
  /\ Running /\ cur.ent # 0 /\ ~AtEnd(cur) /\ InOrder(cur, curPos)
  /\ \E k \in 0..Trim(n, cur), err \in {"nil", EndErr} :
       /\ curPos + k <= stream.len
       /\ k = 0 => curPos = stream.len
       /\ err # "nil" => curPos + k = stream.len
       /\ k = 0 => err # "nil"
       /\ curPos' = curPos + k
       /\ cur' = [cur EXCEPT !.curr_pos = @ + k]
       /\ out' = out \o [i \in 1..k |-> curPos + i - 1]
       /\ result' = [op |-> "Read", err |-> err]
  /\ UNCHANGED <<stream, nextPos, seen, trailer, failed>>

ReaderRead == ReadNil \/ ReadNothing \/ \E n \in 1..MaxBuf : ReadBytes(n)

Next == ReaderNext \/ ReaderRead

Spec == Init /\ [][Next]_vars

-----------------------------------------------------------------------------
Errors == {"nil", "EOF", "UnexpectedEOF", "fault", "bad magic", "panic",
           "ErrStrippedHeader", "invalid index", "out of order"}

(* The reader never consumes more than the stream holds and never moves    *)
(* past the end of the current file's window.                              *)
TypeOK ==
  /\ stream \in Streams
  /\ curPos \in 0..stream.len
  /\ nextPos \in Nat
  /\ cur \in [ent : 0..Len(entries), start_pos : 0..stream.len,
             curr_pos : Nat, size : Nat, size64 : Nat]
  /\ cur.curr_pos <= cur.size /\ cur.curr_pos = Len(out)
  /\ result \in [op : {"new", "Next", "Read"}, err : Errors]
  /\ out \in Seq(Nat)
  /\ seen \in Nat /\ trailer \in BOOLEAN /\ failed \in BOOLEAN

(* After the n-th file, Read delivers exactly that file's bytes: what was  *)
(* delivered so far is a prefix of the n-th entry's contents, whatever was *)
(* skipped, read in pieces or failed before (file_stream.Read's order      *)
(* check, pad64 and the skip in ReadNextEntry).                            *)
DeliversFilePrefix ==
  out # <<>> =>
    /\ seen \in 1..Len(entries)
    /\ Len(out) <= entries[seen].len
    /\ \A i \in 1..Len(out) : out[i] = entries[seen].data + i - 1

(* The stream holds the whole archive and the sizes of stripped entries.   *)
WholeArchive ==
  /\ stream.len >= entries[Len(entries)].data
  /\ \A i \in 1..Len(entries) :
       entries[i].stripped => stream.hasSizes /\ entries[i].index < Len(stream.sizes)

(* A complete archive is read without error up to its trailer, and by then *)
(* Next has returned every file (ReadNextEntry, Reader.Next).              *)
WholeArchiveReadable ==
  WholeArchive /\ (failed \/ trailer) => trailer /\ seen = Len(entries) - 1

(* Next's first failure is final: whether it failed at the trailer, at the *)
(* end of the stream or half way through an entry, with the stream behind  *)
(* nextPos and behind the window of the current file, no later call of     *)
(* Next or Read returns a file, meets the trailer or delivers a byte       *)
(* (ReadNextEntry's skip, file_stream.Read's order check).                 *)
NothingAfterFailure ==
  [][failed \/ trailer => UNCHANGED <<out, seen, trailer>>]_vars

(* reader.go:45: Next "Returns io.EOF upon encountering the archive        *)
(* trailer"; here asked only of a caller that has read the current file as *)
(* far as the stream goes, so that no call before has failed.  Read passes *)
(* on the io.EOF of a stream that ends inside the file, Seek drops that of *)
(* the skip, ReadNextEntry passes on that of the header it then looks for. *)
EofMeansTrailer ==
  result = [op |-> "Next", err |-> "EOF"] /\ InOrder(cur, curPos) => trailer

(* As long as Next has not failed and has returned a file, no call panics  *)
(* (Seek with a negative offset, Read of a nil entry), and until the       *)
(* trailer no Read finds the stream out of order: the window's position,   *)
(* the counting reader's and nextPos never drift apart.                    *)
MisuseOnlyAfterFailure ==
  [][~failed /\ seen > 0 =>
       /\ result'.err # "panic"
       /\ ~trailer => result'.err # "out of order"]_vars
=============================================================================
