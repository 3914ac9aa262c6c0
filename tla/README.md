# A verification project for go-rpmutils

TLA+ specifications of `go-rpmutils`: reading the cpio payload of an RPM package
and its files, extracting it, reading and writing its signature header, replacing
a package on disk by its signed version, signing and verifying it, and the pure
parts, comparing versions and reading metadata. The specifications are
model-checked with TLC on small instances. Every safety property the runs check is
also proved with TLAPS, for every value of the constants; two refinements are among
them. Liveness is checked with TLC only.

## 1. The system

| Component | Source | State it keeps | Operations |
|---|---|---|---|
| cpio reader | `cpio/cpio.go`, `stream.go`, `header.go`, `reader.go` | position of the counting reader, `nextPos`, window over the current file | `Reader.Next`, `Reader.Read` |
| extraction | `cpio/extract.go` | map of pending hard links, the file system | `Extract` |
| payload reader | `payload.go`, `fileinfo.go` | current index, table of hard links, the decompressor | `Next`, `Read`, `IsLink`, `Close` |
| header | `header.go`, `rpmutils.go`, `tags.go` | map of tags, bytes as read | `readHeader`, the `Get*` accessors |
| signature header writer | `writeheader.go` | map of tags, index and data being built | `WriteTo`, `DumpSignatureHeader` |
| signing, rewriting | `signatures.go`, `fileutil/` | the header in memory, the files on disk | `SignRpmStream`, `SignRpmFile`, `RewriteWithSignatures` |
| verification | `verify*.go`, `filesigs.go` | running digests | `Verify` |
| version comparison | `vercmp.go`, `nevra.go` | none | `Vercmp`, `NEVRAcmp` |
| decompression | `uncompress*.go` | the decompressor | `uncompressRpmPayloadReader` |

How they interact: `ReadRpm` reads lead, signature header and general header;
the payload is decompressed and handed to the cpio reader; `PayloadReader` and
`Extract` call `Reader.Next` and `Reader.Read`, and `PayloadReader` supplies the
sizes that stripped cpio entries lack. A signer reads the whole package, changes
the tag map of the signature header and lets `rewriteRpm` write it, in place if
`DumpSignatureHeader` can pad the header to its old size.

There are no goroutines in the package. What is hard about it is the order of
calls (`Next` at any point inside a file, `Next` after an error), streams that
break off anywhere, arithmetic on padding that two pieces of code do
independently, and the steps of rewriting a file, between which the process can
be killed, a system call can fail, or another process can sign the same file.
`PROJECT.json` lists these hazards at the lines where they bite.

What makes each component correct:

* cpio reader: after the n-th successful `Next`, `Read` delivers the n-th file's
  bytes, in order and no others; a whole archive is read to its trailer; positions
  never drift apart.
* signature header: what is written can be read back; the reader stops where the
  general header begins; padding restores the original size whenever it can.
* rewriting: outpath is old or new and whole at every moment; success means
  signed; the input is not harmed; nothing is left behind.
* payload reader: files are returned in archive order with the size and link
  information of the RPM header; the decompressor is closed in the end, and not before.
* extraction: nil means that every file, directory and symbolic link is on disk as it
  is in the archive, links share the contents that follow them, and nothing is made
  outside dest.
* verification: every digest and signature that is present is checked against the
  bytes it covers; a package just signed verifies.
* version comparison: a total preorder on versions, computed by a loop that ends.
* header accessors: the answer is what the package was built with, whichever tag,
  width and header it is stored in.

## 2. Modules

| Module | Models | Used by |
|---|---|---|
| `CpioReader` | the cpio reader | `MCCpioReader`, `CpioReader_proofs` |
| `CpioReader_proofs` | theorems about it | `PayloadReader_proofs` |
| `CpioLayout` | archives for the instances that are checked | `MCCpioReader`, `MCPayloadReader` |
| `PayloadReader` | `PayloadReaderExtended`, the choice of a decompressor, `payloadReader`; composes `CpioReader` | `MCPayloadReader`, `PayloadReader_proofs` |
| `PayloadReader_proofs` | theorems about it, from those about the cpio reader | |
| `PayloadFiles` | the sequence of files a caller should see | refined by `PayloadReader` |
| `SigHeader` | reading, signing and writing the signature header | `MCSigHeader`, `SigHeader_proofs` |
| `SigHeader_proofs` | theorems about it | |
| `RewriteRpm` | `SignRpmFile`/`rewriteRpm` on a file system | `MCRewriteRpm`, `RewriteRpm_proofs` |
| `RewriteRpm_proofs` | theorems about it | |
| `AtomicReplace` | what an observer of outpath should see | refined by `RewriteRpm` |
| `Extract` | `cpio.Extract` on a file system | `MCExtract`, `Extract_proofs` |
| `Extract_proofs` | theorems about it | |
| `Verify` | `Verify` and `SignRpmStream`: digests and signatures | `MCVerify`, `Verify_proofs` |
| `Verify_proofs` | theorems about it | |
| `Vercmp` | `Vercmp` and `NEVRAcmp` | `MCVercmp`, `Vercmp_proofs` |
| `Vercmp_proofs` | theorems about it and about the order of versions | |
| `HeaderTags` | the accessors of `RpmHeader` and `rpmHeader` | `MCHeaderTags`, `HeaderTags_proofs` |
| `HeaderTags_proofs` | theorems about it | |

### CpioReader

A byte is identified by its offset in the stream. The archive (`Streams`, an
input written by rpm) says where entries lie, relationally: contents begin where
`PaddedTo4` says, the next entry likewise. The reader has its own arithmetic
(`pad`, `pad64`, `namePadding`), and the properties say that the two agree.
State: `curPos` (`countingReader.curPos`), `nextPos` (`CpioStream.nextPos`),
`cur` (the entry held by `Reader`, with the `file_stream` window), and `result`,
what the last call returned. `out`, `seen`, `trailer`, `failed` only observe.

Actions: `ReaderNext` is `Reader.Next` with all of `ReadNextEntry`,
`readStrippedEntry` and `readHeader` in it; `ReadNil`, `ReadNothing` and
`ReadBytes` are the ways `Reader.Read` can go. The underlying reader may return
any number of bytes, and may report the end together with the last ones or on
its own. Panics (a negative `make` in `Seek`, a nil entry in `Read`) are results
after which nothing happens.

Header fields hold numbers that parse; an archive whose header fields are
nonsense is outside the model. File sizes given to `SetFileSizes` agree with the
archive, as they do when both come from the same package.

### PayloadReader

`Cpio == INSTANCE CpioReader` shares the cpio reader's variables; `NextError`,
`NextFile` and `NextUnknown` take a step of `Cpio!ReaderNext` and add what
`payloadReader.Next` does with its result, `ReadCall` is a step of
`Cpio!ReaderRead`. Own state: `phase` (what `PayloadReaderExtended` returned),
`dec` (the decompressor), `index` (`pr.index`); `named` observes whether the file
being read is the one `Next` returned last.

A package has two halves: the file table of the header (`files`) and the archive
(`archive`, with `names` and `owner`, which says what file an entry really is).
The reader only uses the first half and the bytes of the second (`linkFlags`,
`fileSizes`, `fileMap`, `Lookup`); the properties compare the result with
`owner`. The loop of `newPayloadReader` is written as what it computes: a regular
file is flagged if another one with its inode and device follows in the table. A
name is a path and its anchor (`"/"`, `"./"` or none), which is what `Next`
changes. `PayloadOK` says what rpm writes: links of a group in the order of the
table, the contents with the last one that is stored.

`ImplementsPayloadFiles` maps the state to `PayloadFiles`: files in the order of
the archive, each with its own table entry, link flag and bytes, and the trailer
only behind the last one; errors are stuttering steps, and an entry without a file
shows as file -1. What a closed decompressor would return is not modelled: the
stream goes on as before, and `NothingAfterClose` says that even so nothing more
is delivered.

### SigHeader

The block in the file has an intro, an index and data. Reading (`ReadHeader`,
`ParseTag`, `ParseEnd`) and writing (`DumpSignatureHeader`, `WriteTag`,
`SizeKnown`, `DumpDone`) advance one tag a step, as the loops do. Lengths,
offsets and alignment are exact; a byte is NUL or one of two other values, which
is what the scan for the end of a string tells apart. `Sign` is
`insertSignatures` with signatures of any of `SigSizes` bytes. `Replace` is the
caller of `DumpSignatureHeader` (its comment says what to do with the result),
after which the file is read again. The lead is always the 96 bytes that were
read, so the error for a missing lead cannot occur here; the digest check of
`readHeader` is not made for this header.

### RewriteRpm

Files are inodes: the input, another file, a pipe or standard output, a
temporary file per process. `out` is the inode outpath names. Contents are
abstracted to whose signature header the file begins with, how long that is and
whether the rest of the package follows it intact. Every system call is an
action, so crashes (`Crash`), failures (`FailAt`, `FailWriting` and the failure
disjuncts) and other processes come between any two. Whether the new header pads
to the old size (`fits`) is what `SigHeader` explores in detail. `HasLinks` is
modelled as the code behaves: its type assertion never succeeds.

The write in place is one system call and one step; a failing one may leave a
torn header. What a power failure does to data that was never synced is not
modelled. Reading the input (`Read`) is one step.

`ReplacesAtomically` is the specification `AtomicReplace` with `content` mapped
to what opening outpath shows: a step of `RewriteRpm` either leaves that alone
or puts a whole signed package there.

`failed` collects the calls that have failed. The properties name the failures
after which the code does not keep its promise, and hold after all others:
`OkMeansSigned` and `NoTempLeft` except when `Close` or `Rename` failed,
`BodyNeverLost` except when writing the file that is to replace the input failed.
`InputUntouched` lets the input change in one way, the write in place, and says what
every name of it then shows: the old body behind a header that fits, or a torn one
of the same length if that write failed. That a file with a second name is written
in place at all is against the purpose of `HasLinks` (section 4); through a symbolic
link anything may happen to the input, and `BodyNeverLost` and `InputUntouched` say
nothing then.

Outpath may be a symbolic link to the input; one that leads elsewhere, or nowhere, is
not modelled, nor is the error of closing a streamed output, which `rewriteRpm`
ignores (`signatures.go:245-252`).

### Extract

One round of the loop of `Extract` is one action, chosen by the kind of entry
(`MakeDir`, `MakeFifo`, `MakeSymlink`, `SaveLink`, `SkipDevice`, ...), except that
copying a file is many: `Create`, any number of `Copy`, `CopyEnd`, a `MakeLink` for
every waiting name. State: `pos` (how far the stream has been read), `linkMap`,
`file` and `written` (the copy), `links` (names still to be linked); and the file
system, a map `tree` from paths to inodes and the inodes' contents, so that links
share and `os.Create` truncates all names at once. Paths are sequences of
components; `Clean`, `stripDotDot` and `sanitize` are the code's treatment of
them, computed once per entry into `places`.

The archive comes as `CpioReader` shows that it does: entry by entry, contents in
reads of any length, cut off between entries or inside contents. A read of a
symbolic link's target that is shorter than the target leaves NUL bytes, which
`os.Symlink` refuses. `Again` extracts the archive once more over the result.
`CallFails` is any system call failing.

`OkMeansExtracted` asks of everything but device nodes and links without contents
that it is on disk with its type and all its contents, and of a link whose own
contents (same inode and device) follow in the archive that it shares their inode. A
link whose contents do not follow is not on disk (`extract_links`), or, as `linkMap`
knows inode numbers only, is a name of a file on another device that has its number;
the property says that no more can become of it.

Names of an archive are distinct and only directories have entries below them
(`InputOK`); `dest` is cleaned, and a relative one does not begin with `..`. A name
that leads through a symbolic link of the same archive is therefore outside the
model, and `InsideDest` is about paths as they are written.

### Verify

A package is its general header, its payload, the digests in either header and
up to four signatures. A digest is the pair of algorithm and bytes, a signature
the key and the digest it was made over: cryptography is ideal. `SignRpmStream`
and `VerifyCall` start a call, `ReadHeader`, `DigestAndVerify`,
`DigestForSigning`, `DigestPayload`, `CopyBlock`, `CompareDigest`, `Validate` and
`Insert` are its steps; between calls `Damage` changes the package. State: `sigs`
and `hashes`, which the code pairs by position, `hasher` (`payloadHasher` and what
it is compared with), `rest` (the stream). `built` and `fresh` only observe: what
was built, and who signed it last. `Blocks` are the pieces that header and payload
are made of, `Strangers` the keys that only old signatures were made with,
`OtherAlgos` algorithms the code does not know. `PackagesAssumption` says that a
package was built with digests of its own bytes, which need not be there.

### Vercmp

A string is a sequence of character codes, any but the newline, which `.` in the
regular expressions does not match (`Chars`); one action per way a round of the loop
can go. `VersionCmp` is the reference, and does not take strings apart from the left:
a token starts wherever the kind of character changes (`TokenStarts`), `TokensFrom`
collects the tokens of a string, and these are compared like words, with a tilde
before the end before letters before numbers. Values of numbers are compared as
integers there, by length and characters in the code. That this is a total preorder
is a theorem (`VersionsOrdered`); hence so is what `Vercmp` computes.
`InputsAssumption` says that the packages compared have the same fields.

### HeaderTags

`Encode` stores values as rpm does, big-endian, with `Base` values to a byte
instead of 256 so that 64-bit values fit into TLC's integers (`Power` and `Shifted`
are powers of `Base` and numbers without their last bytes); the accessors decode them
again (`getInts`, `GetInts`, `GetUint32s`, `GetUint64s`, `strings`, `spliced`,
`GetFiles`, `GetNEVRA`, the fallbacks). Every accessor of `RpmHeader` that reads tags is an action that leaves the header alone
and records its answer (`GetUint64Fallback` within `InstalledSize`; `GetRange` and
`IsSource` return a field). A package carries, besides its tags, what it
was built from (`files`, `nevra`, `installed`, `payload`), with which the answers are
compared. `PackagesAssumption` says how rpm builds one: a value fits its type
(`EntryOK`), files are parallel arrays with names and sizes in the old or the new way
(`FilesOK`), name, version, release and architecture have one value each, the epoch
may be missing, and sizes fit an int64 (`SummaryOK`). The tags of the general header
are between the two bases (`TagsOK`): the region tags below 1000 that rpm puts there
as well have no public number, `getHeader` looks for them in the signature header.

## 3. Runs

| Run | Shows | Bounds |
|---|---|---|
| `cpio_reader` | `TypeOK`, `DeliversFilePrefix`, `WholeArchiveReadable`, `NothingAfterFailure`, `MisuseOnlyAfterFailure` | archives of two or three files, newc, stripped and mixed, every amount of padding, empty files, block padding behind the trailer; cut off at every byte, with io.EOF or another error; sizes missing or too few; buffers of 1 to 6 bytes |
| `payload_reader` | `TypeOK`, `ImplementsPayloadFiles`, `CompletePackageReadable`, `LinkContentsFollow`, `NothingAfterClose`, and under fairness `DecompressorClosed` | tables of up to five files with link groups of two and three, the same inode on two devices, symbolic links, a directory, files without inode, source package names; newc and stripped; two packages cut off at every byte with io.EOF or another error; an unknown file; every way of opening a package; buffers of 1 to 3 bytes |
| `sig_header` | `TypeOK`, `IndexWellFormed`, `ReaderStopsAtGeneralHeader`, `RoundTrip`, `SameSizeWhenItFits` | thirteen blocks with all alignments and reserved space of 0 to 64 bytes, signatures of 3, 8 and 13 bytes, two signings |
| `rewrite` | `TypeOK`, `OkMeansSigned`, `BodyNeverLost`, `InputUntouched`, `NoTempLeft`, `Returns` | one process, all seven kinds of outpath, any two calls failing, a crash anywhere |
| `rewrite_two` | `OkMeansSigned`, `ReplacesAtomically` | two processes, headers that all fit or none of which does, crashes, calls failing before anything is written |
| `extract` | `TypeOK`, `OkMeansExtracted`, `InsideDest`, `ExtractableSucceeds`, `Terminates` | all archives of up to three entries of eleven kinds (sockets up to two), of four for link groups on two devices; every place to break off; seven names with dots, absolute or not, and four destinations; extracted twice |
| `verify` | `TypeOK`, `DamageIsFound`, `VerifiedMeansSigned`, `SignedVerifies` | all 32 combinations of digests, 41 packages with old signatures, two keys, four key rings, three options; any sequence of calls and damage |
| `vercmp` | `TypeOK`, `MatchesOrder`, `Terminates` | all pairs of strings of up to three of the characters `.`, `0`, `1`, `2`, `a`, `b`, `~`; 2500 pairs with three fields |
| `header_tags` | `IntsAsBuilt`, `StringsAsBuilt`, `FilesAsBuilt`, `SummaryAsBuilt` | four file lists, names and sizes in the old and in the new way, values at the limits of all five integer types |
| `rewrite_failedwrite`, `extract_links`, `cpio_cut` | violations, see below | one process, one failing call; the archives of `extract`; the archives of `cpio_reader` that are cut off |

Why the bounds are enough. In the cpio reader all arithmetic is modulo 4 and
relative to the current entry, so three entries with every remainder, and a cut
at every byte, meet every case; the proofs remove the bound. In the signature
header all arithmetic is modulo 8; the blocks and signature sizes cover the
remainders and the three cases of `DumpSignatureHeader`: no room, room for no
more than the 16 bytes of a tag, and more. A second signing starts from a header
the package wrote itself. In the rewriting module a process takes at most eleven
steps and two processes meet in all interleavings. In `Extract` entries meet only
through `linkMap` and the tree: two names and two members with contents, on two
devices, are four entries. `Verify` has four signature tags and two blocks of
payload, so that one can be lost or changed and another stay. In `Vercmp` three
characters give two tokens with junk between them, a number with a leading zero
against one of another length, and every order of kinds. In `HeaderTags` the widths
are the code's, and only the size of a byte is smaller.

Deadlock is not checked where a finished or crashed program has no next step,
which is so in all modules but `Verify`, whose calls always return.

Fairness is used in four properties. `DecompressorClosed`: weak fairness of
opening the package and of calling `Next`, that is, the caller goes on as the loop
in `uncompress_test.go` does; a caller that stops in between keeps the decompressor
open, as does a failing `GetFiles` (a hazard, since nothing is promised there).
`Returns`: weak fairness of every process's
next step, which says that system calls return and the process is scheduled. It
is not claimed for pipes and standard output, where a write may block for ever.
`Terminates` of `Extract`: weak fairness of the loop's next step, the same
assumption; a failing call and a second extraction are not forced. `Terminates` of
`Vercmp`: a running function is executed.

Every property of a passing run is paired, in `PROJECT.json`, with a mutant of
the code that breaks it.

## 4. Findings

* `rewrite_failedwrite`: the deferred function in `rewriteRpm` tests a shadowed
  `err`, so a partly written file replaces outpath.
* `extract_links`: members of a link group that come without contents and are not
  followed by one that has them are never created, and `Extract` returns nil.
  Groups of empty files are of that kind.
* `cpio_cut`: `Next` "Returns io.EOF upon encountering the archive trailer"
  (`cpio/reader.go:45`), and `Read` "when the current file has been read in its
  entirety" (`:59`). Of an archive cut off inside a file, `Read` returns the bytes
  there are and the stream's io.EOF, `Seek` drops that of the skip, and `Next` returns
  that of the missing header: the caller cannot tell it from a complete archive. What
  remains true is `NothingAfterFailure`: behind the end, real or not, nothing comes.

What remains true is in `rewrite`, `rewrite_two` and `extract`: as long as no call
fails after the output has been opened, a crash leaves outpath old or new and
whole; and links whose contents follow are always made.

What else showed while modelling. The models contain all of it, and where a property
makes an exception for it the property says so.

* An error of `Close` or `Rename` in `rewriteRpm` is lost, and success reported
  (`signatures.go:268`; the exception in `OkMeansSigned`).
* If outpath is a symbolic link to the input, the input is truncated before it is
  copied, though it "may be the same file" (`signatures.go:202`, `:247`; the
  exception in `BodyNeverLost`).
* `HasLinks` never reports a link, as `os.FileInfo.Sys` is a `*syscall.Stat_t`, so a
  file with several names is overwritten in place, and all its names change
  (`fileutil_unix.go:28`, `signatures.go:196`; `InputUntouched` allows it by name).
* `linkMap` is keyed by inode number alone: a link whose own contents do not follow is
  linked to contents with the same number on another device (`cpio/extract.go:105`;
  allowed by name in `OkMeansExtracted`).
* A symbolic link's target is read by one `Read` (`cpio/extract.go:96`), so an
  archive read through a reader that returns less than asked for is not extracted;
  the exception in `ExtractableSucceeds`.
* A second extraction over the first fails if there are fifos, symbolic links or hard
  links, where `cpio/extract_test.go:38` wants it to overwrite; its archive has none.
* `Extract` into `.` or `/` fails for every entry, since `dest` followed by a
  separator is no prefix of the cleaned target.
* `SignatureOptions` that leave `Hash` unset make `New` panic, against
  `signatures.go:35`; an unset `CreationTime` is likewise not the current time.
* `Verify` panics on a signature whose hash function is known but not linked in
  (`verify_digests.go:48`, `:63`), where a payload digest of that kind is an error.
* `KeyId` "will always be set" (`verify.go:33`) does not hold of a signature that
  only names a fingerprint, verified without keys.
* `Vercmp` returns 0 for a string with a newline inside and treats a caret as junk.
* `RpmHeader.GetUint64Fallback` takes the short tag also if the long one exists and
  has another type or several values; `rpmHeader.GetUint64Fallback` does not.
* `Filesize64` of a stripped entry is 0: `readStrippedEntry` uses the size from
  `SetFileSizes` for the window and does not store it in `size64`, which the comment
  at `cpio/header.go:198` promises.
* Link groups are formed over the whole file table: if the last file of a group is
  not stored in the payload (a ghost), `IsLink` is true of the stored file that has
  the contents, against `payload.go:119-121`; the packages of `payload_reader` store
  every link group whole.

Two processes that sign the same file, of which one renames while the other
writes in place, can damage it (the check of outpath and its opening are two
steps); the package makes no promise there, so this is recorded as a hazard only.

## 5. Proofs

Every theorem is about the same `Spec` that TLC checks, and holds for all values of
the constants that satisfy the assumptions of the module. TLC evaluates these for
the instances of the runs. The inductive invariants below were checked with TLC
before they were proved.

| Module | Theorems | Assumptions |
|---|---|---|
| `CpioReader_proofs` | `TypeCorrect`, `DeliveryCorrect`, `NoMisuse`, `WholeArchiveRead`, `FailureIsFinal` | archives laid out as rpm does (`StreamOK`), cut off anywhere |
| `PayloadReader_proofs` | `TypeCorrect`, `PackageRead`, `ClosedIsOver`, `LinkedContents`, `ShowsTheFiles` | packages as rpm writes them (`PayloadOK`) |
| `SigHeader_proofs` | `TypeCorrect`, `IndexOrdered`, `StopsAtGeneralHeader`, `SizeKept`, `ReadsWhatWasWritten` | blocks as long as they say, padded to 8 bytes (`BlockOK`) |
| `RewriteRpm_proofs` | `TypeCorrect`, `InputSafe`, `TempRemoved`, `BodySafe`, `OkCorrect`, `Atomic` | names of processes are no other names (`SignersAssumption`); the last three have hypotheses, see below |
| `Verify_proofs` | `TypeCorrect`, `DamageFound`, `VerifySound`, `SignThenVerify` | packages built with digests of their own bytes (`PackagesAssumption`) |
| `Extract_proofs` | `TypeCorrect`, `Inside`, `Extracted`, `Succeeds` | distinct names, only directories have entries below them (`InputOK`) |
| `Vercmp_proofs` | `TypeCorrect`, `OrderCorrect`, `VersionsOrdered` | two packages with the same fields, any strings without a newline (`InputsAssumption`) |
| `HeaderTags_proofs` | `HeadersKept`, `IntsCorrect`, `StringsCorrect`, `FilesCorrect`, `SummaryCorrect` | a byte has an even number of values (`BaseAssumption`), packages as rpm builds them (`PackagesAssumption`) |

None of the properties is inductive, and what is added to them is the argument.

**cpio reader.** `IInv` adds `NextPosInv`: `nextPos` is the start of the entry after
the last one returned, or at or past the end of the stream (the archive broke off
and `Seek` dropped the io.EOF), or past the trailer; and `WindowInv`: the window
belongs to the last file returned and begins where its contents do, unless the
stream ended before them, in which case nothing has been delivered.
`PadFindsMultiple` and `NamePaddingReachesData` show that the reader's arithmetic
finds the layout's offsets; `HeaderIsNextEntry` that a header is found only at the
next entry, since starts ascend; `ReadNextEntryOutcome` collects what
`ReadNextEntry` can return; the rest is one lemma per action. On top of it,
`SyncInv` relates `curPos` to the window and to `nextPos`, so that no `Seek` goes
backwards; `EndInv` says where the stream is after the trailer or a failure, such that
no further file or byte can come;
`ReadableInv` that in a whole archive nothing fails before the trailer.

**Payload reader.** A step of `PayloadReader` is one of `CpioReader` or leaves it
alone, so `Spec => CP!Spec` and all theorems about the cpio reader hold here
(`CP == INSTANCE CpioReader_proofs`), once `cpioInput` of every package is shown to
be a well-formed stream. `OwnInv` then relates `index`, `named` and `dec` to what the
cpio reader has seen: the file returned is the `owner` of the entry read, since names
in the table are distinct. `ShowsTheFiles` is the refinement of `PayloadFiles`, one
lemma per action. For links `PayloadOK` says that a group is stored in table order
and either all of it or none; with a ghost in the group the property is false
(section 4).

**Signature header.** `PassInv` describes a pass of `WriteTo`: the smallest tags are
written, in order, each at the first place its alignment allows. The length of a
block depends on alignment, hence on everything before a value, so `SizeKept` needs
more than lengths: `SizeInv` compares the second pass of `DumpSignatureHeader(true)`,
record by record, with the first (`Reserved`). The padding is a multiple of 8, so the
values behind it move without changing their alignment, and the second pass comes out
longer by exactly what was missing. `FileInv` says that the block in the file is as
long as its intro says. For `ReadsWhatWasWritten`, `TripInv` says that every record
points to the contents of its tag, in the data written and in the file, and that
reading back has restored every tag parsed so far. The scan for the end of a string
array counts NULs; that two byte sequences with the same contents have the same end
is shown by a bijection between the sets of places of their NULs.

**Rewriting.** `IInv` says who can write to which inode: a temporary file belongs to
its process, the input is open for writing only if outpath names it. That is enough
for `InputSafe` and `TempRemoved`, for any number of processes and any failures. The
other theorems are about processes that are alone (`Alone`) or all take the same
route (`Agree`: all headers fit or none does, and `Lstat` does not fail). The
hypothesis is needed: of two processes on different routes one may have opened the
old file, and write its header in place over a file renamed meanwhile whose header
has another length. `NoWriteFaults` is needed because a file that could not be
written is renamed anyway (the finding), `FileKinds` because a pipe or a file reached
through a symbolic link is not replaced at once. `RouteInv` says that nothing that was
renamed is written in place, that a temporary file is complete when it is renamed,
and what a return without an error stands for. `Atomic` is the refinement of
`AtomicReplace`.

**Verification.** `HashInv` says that every hash has absorbed the header, and the
payload as far as it has been read, if it is one for both; absorbed and `rest` make
up the payload. At the end a hash is over all of it, so a digest that agrees means the
bytes are those of the build, and a signature that validates was made over them.
`PkgInv` is needed besides: damage leaves header and payload no longer than they were, so
that a digest over both, which does not show where one ends, determines both.
`FreshInv` says that after signing the two new signatures are there, with a hash
function that is linked in, and the old ones are not, and `FreshVerifyInv` that verification then cannot fail.

**Extraction.** Three invariants, one above the other. `IInv`: a waiting name is that
of an entry whose path passed the check and whose parent directories were made, so
linking it stays inside `dest` (`Inside`). `DiskInv`: a name on disk leads to the
inode of its own entry, or of the entry whose contents it shares; so `os.Create` and
the copy, which write to every name of an inode, change no finished entry
(`OnlyWrites`), also in a second extraction. Only the name of a link without contents
may lead to an inode that is not that of its own file: `linkMap` is keyed by inode
number alone, so that a name can be linked to a file of another device. `LinkedInv`
says that what waited for a file shares its inode, `JoinedInv` that a link on disk
shares that of an entry with contents behind it and with its inode number. `SuccessInv`: a directory on disk is an entry or lies above one, in the first
pass only entries already read, and links whose contents have been, are there, and a
name waits once. So no call for an extractable archive finds something in its way.

**Version comparison.** `IInv` says that what is left of the two strings is left from
places where no token goes on (`Boundary`), and that the tokens from there on compare
like all of them (`PlaceOK`). A round keeps it: junk starts no token (`JunkStep`), a
tilde or a run of digits or letters is the next token (`TildeStep`, `SegmentStep`),
equal tokens may be taken off both words (`SameHead`), and different ones decide
(`DifferentHead`). That digits without leading zeros compare by length and then like
strings as their values do is `NumCmpIsValue`, from `LongerIsGreater` and
`FirstDigitDecides`. `VersionsOrdered` is about words over any strict total order,
twice: characters in strings, and tokens in versions. Since `End` is the last token
and no other is one (`WordOfString`), no version begins another, and `WordCmp` returns
1 only if the order is the other way round.

**Header accessors.** The headers never change (`HeadersKept`), so the properties are
about one answer each. `RoundTrip` says that `BigEndian` of the bytes `Encode` makes of
a number is the number, if that is less than `Power` of the width, and `ReadBack` that
the values are found where `getInts` looks for them. From there `getIntsIs` and `stringsIs` say
what the accessors return of encoded tags in terms of the tags. `getHeaderIs` and
`BuiltIs` show that `getHeader` finds the entry that was built under a public number
and that it is the only one. Base 2, in which the limit of an int is least, is
included: `SmallFits` shows that an INT8 or INT16 needs no check.

Recursive functions are reasoned about by sets of numbers that have a least element
(`LeastNumber` or `Induction`, from the well-foundedness of `<`): that a function with
the recursive equation exists, and what it computes.

Only model-checked, and why:

* `DecompressorClosed`, `Returns` and both `Terminates`: liveness under fairness.
* What `Clean` computes: the theorems about `Extract` use that its result is a path and
  what `sanitize` checks, not which path it is.

## 6. Plan

1. `CpioReader`, its runs and first theorems (done).
2. `SigHeader`, `RewriteRpm`, `AtomicReplace` and their runs (done).
3. `PayloadReader`, composing the cpio reader with the RPM header's file table,
   and the abstract `PayloadFiles` (done).
4. `Extract` against a file system (done).
5. `Verify` with `SignRpmStream` (done).
6. `Vercmp` against a reference order; `HeaderTags` (done).
7. Theorems about all eight modules: every safety property of the runs (done,
   section 5).

What could follow: a theorem about what `Clean` computes, headers whose offsets or
counts are wrong, and the groups of hard links with ghosts of section 4.

## 7. Not modelled

* Decompression libraries and OpenPGP are external: a decompressor is a stream that
  may fail, a signature validates if it was made over the bytes.
* `ExpandPayload` (open, `Extract`, close) and the deprecated `PayloadReader`, which
  never closes its decompressor, as callers of what is modelled.
* The Windows stubs of `fileutil`, which do nothing.
* Tables: the tags that no code here uses, `GetFileAlgoName`.
* Header fields that are not numbers, headers whose offsets or counts lie outside the
  data, and the 32-bit arithmetic on sizes of 4 GiB (`header.go:88`).
* `VersionSlice` and `NEVRASlice`, wrappers of `Vercmp` for `sort`.
* Permissions and times of extracted files; paths through symbolic links.
