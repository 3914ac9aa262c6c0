----------------------------- MODULE HeaderTags -----------------------------
(***************************************************************************)
(* Reading a package's metadata: the accessors of RpmHeader (rpmutils.go)  *)
(* and rpmHeader (header.go).  A caller asks for tags by their public      *)
(* number, of either header, in any type; the answers are compared with    *)
(* what the package was built from.                                        *)
(*                                                                         *)
(* A byte has Base values instead of 256, so that the widths of INT32 and  *)
(* INT64 and the limits derived from them fit into TLC's integers.  A      *)
(* string is a sequence; one that is a path has its components in it.      *)
(***************************************************************************)
EXTENDS Integers, Sequences

CONSTANTS
    Packages,  \* [sig, gen: raw tag -> [type, vals]; files, nevra, sizes: truth]
    Base       \* values of a byte

ASSUME BaseAssumption == Base \in Nat \ {0, 1} /\ Base % 2 = 0

GENERAL_TAG_BASE == 1000
SIGHEADER_TAG_BASE == 16384

Tags ==
  [NAME |-> 1000, VERSION |-> 1001, RELEASE |-> 1002, EPOCH |-> 1003, SIZE |-> 1009,
   ARCH |-> 1022, OLDFILENAMES |-> 1027, FILESIZES |-> 1028, FILEMODES |-> 1030,
   FILEMTIMES |-> 1034, FILEDIGESTS |-> 1035, FILELINKTOS |-> 1036, FILEFLAGS |-> 1037,
   FILEUSERNAME |-> 1039, FILEGROUPNAME |-> 1040, FILEDEVICES |-> 1095,
   FILEINODES |-> 1096, DIRINDEXES |-> 1116, BASENAMES |-> 1117, DIRNAMES |-> 1118,
   LONGFILESIZES |-> 5008, LONGSIZE |-> 5009, SIG_LONGARCHIVESIZE |-> 271,
   SIG_PAYLOADSIZE |-> SIGHEADER_TAG_BASE + 1007]

Width == [CHAR |-> 1, INT8 |-> 1, INT16 |-> 2, INT32 |-> 4, INT64 |-> 8]
IntTypes == DOMAIN Width
StringTypes == {"STRING", "STRING_ARRAY", "I18NSTRING"}

FileFields == <<"name", "size", "user", "group", "flags", "mtime", "digest", "mode",
                "linkto", "device", "inode">>
FieldNames == {FileFields[k] : k \in DOMAIN FileFields}

(* Base to the power of n: the number of values that fit in n bytes.       *)
Power[n \in 0..8] == IF n = 0 THEN 1 ELSE Base * Power[n - 1]

-----------------------------------------------------------------------------
(* How rpm builds a package: every value fits its type, and no number of   *)
(* the general header means a tag of the signature header.                 *)
IsSeq(v) == Len(v) \in Nat /\ v = [i \in 1..Len(v) |-> v[i]]
EntryOK(e) ==
  /\ IsSeq(e.vals)
  /\ e.type \in IntTypes =>
       \A i \in DOMAIN e.vals : e.vals[i] \in Nat /\ e.vals[i] < Power[Width[e.type]]
TagsOK(p) ==
  /\ DOMAIN p.sig \subseteq Nat /\ DOMAIN p.gen \subseteq GENERAL_TAG_BASE..SIGHEADER_TAG_BASE
  /\ \A t \in DOMAIN p.sig : EntryOK(p.sig[t])
  /\ \A t \in DOMAIN p.gen : EntryOK(p.gen[t])

Stored(tags, t, types, vals) ==
  t \in DOMAIN tags /\ tags[t].type \in types /\ tags[t].vals = vals
(* A long tag takes the place of the short one, which may remain.          *)
StoredEither(tags, short, long, vals) ==
  Stored(tags, IF long \in DOMAIN tags THEN long ELSE short, IntTypes, vals)

(* The attributes of the files are parallel arrays; devices and inodes may *)
(* be missing, and so may directories if the names are whole paths.        *)
Column(p, f) == [i \in DOMAIN p.files |-> p.files[i][f]]
Joined(p, dirs, idxs, base) ==
  /\ IsSeq(base) /\ DOMAIN base = DOMAIN p.files /\ Len(idxs) = Len(base)
  /\ \A i \in DOMAIN p.files :
       idxs[i] < Len(dirs) /\ p.files[i]["name"] = dirs[idxs[i] + 1] \o base[i]
NamesOK(p) ==
  IF p.files = <<>> THEN {Tags.OLDFILENAMES, Tags.DIRNAMES} \cap DOMAIN p.gen = {}
  ELSE IF Tags.OLDFILENAMES \in DOMAIN p.gen
       THEN Stored(p.gen, Tags.OLDFILENAMES, StringTypes, Column(p, "name"))
       ELSE LET dirs == p.gen[Tags.DIRNAMES].vals
                idxs == p.gen[Tags.DIRINDEXES].vals
                base == p.gen[Tags.BASENAMES].vals
            IN  /\ Stored(p.gen, Tags.DIRNAMES, StringTypes, dirs)
                /\ Stored(p.gen, Tags.DIRINDEXES, IntTypes \ {"INT64"}, idxs)
                /\ Stored(p.gen, Tags.BASENAMES, StringTypes, base)
                /\ Joined(p, dirs, idxs, base)
FilesOK(p) ==
  /\ IsSeq(p.files) /\ \A i \in DOMAIN p.files : p.files[i] = [f \in FieldNames |-> p.files[i][f]]
  /\ NamesOK(p)
  /\ p.files # <<>> =>
       /\ StoredEither(p.gen, Tags.FILESIZES, Tags.LONGFILESIZES, Column(p, "size"))
       /\ Stored(p.gen, Tags.FILEUSERNAME, StringTypes, Column(p, "user"))
       /\ Stored(p.gen, Tags.FILEGROUPNAME, StringTypes, Column(p, "group"))
       /\ Stored(p.gen, Tags.FILEFLAGS, IntTypes \ {"INT64"}, Column(p, "flags"))
       /\ Stored(p.gen, Tags.FILEMTIMES, IntTypes \ {"INT64"}, Column(p, "mtime"))
       /\ Stored(p.gen, Tags.FILEDIGESTS, StringTypes, Column(p, "digest"))
       /\ Stored(p.gen, Tags.FILEMODES, IntTypes \ {"INT64"}, Column(p, "mode"))
       /\ Stored(p.gen, Tags.FILELINKTOS, StringTypes, Column(p, "linkto"))
       /\ IF Tags.FILEDEVICES \in DOMAIN p.gen
          THEN Stored(p.gen, Tags.FILEDEVICES, IntTypes \ {"INT64"}, Column(p, "device"))
          ELSE \A i \in DOMAIN p.files : p.files[i]["device"] = 0
       /\ IF Tags.FILEINODES \in DOMAIN p.gen
          THEN Stored(p.gen, Tags.FILEINODES, IntTypes \ {"INT64"}, Column(p, "inode"))
          ELSE \A i \in DOMAIN p.files : p.files[i]["inode"] = 0

(* One value each; an epoch may be missing.  Sizes fit an int64.           *)
SummaryOK(p) ==
  /\ IsSeq(p.nevra) /\ Len(p.nevra) = 5
  /\ \A x \in {<<Tags.NAME, 1>>, <<Tags.VERSION, 3>>, <<Tags.RELEASE, 4>>, <<Tags.ARCH, 5>>} :
       Stored(p.gen, x[1], StringTypes, <<p.nevra[x[2]]>>)
  /\ IF Tags.EPOCH \in DOMAIN p.gen THEN Stored(p.gen, Tags.EPOCH, IntTypes, <<p.nevra[2]>>)
     ELSE p.nevra[2] = 0
  /\ p.installed < Power[8] \div 2 /\ p.payload < Power[8] \div 2
  /\ StoredEither(p.gen, Tags.SIZE, Tags.LONGSIZE, <<p.installed>>)
  /\ StoredEither(p.sig, Tags.SIG_PAYLOADSIZE - SIGHEADER_TAG_BASE, Tags.SIG_LONGARCHIVESIZE,
                  <<p.payload>>)

ASSUME PackagesAssumption ==
  \A p \in Packages : TagsOK(p) /\ FilesOK(p) /\ SummaryOK(p)

-----------------------------------------------------------------------------
VARIABLES
    pkg,   \* what the package was built from
    hdr,   \* its headers as readHeader leaves them: sig and gen, tag -> entry
    ret    \* the last call, its tag, error and value

vars == <<pkg, hdr, ret>>

(* How rpm stores values: integers big-endian, one after the other.        *)
(* Shifted(x)[n] is x without its last n bytes.                            *)
Shifted(x) ==
  LET q[n \in 0..8] == IF n = 0 THEN x ELSE q[n - 1] \div Base IN q
Encode(e) ==
  LET w == Width[e.type] IN
  [type |-> e.type, count |-> Len(e.vals),
   contents |-> IF e.type \notin IntTypes THEN e.vals
                ELSE [k \in 1..(w * Len(e.vals)) |->
                        Shifted(e.vals[((k - 1) \div w) + 1])[(w - 1) - ((k - 1) % w)] % Base]]
Encoded(tags) == [t \in DOMAIN tags |-> Encode(tags[t])]

Init ==
  /\ pkg \in Packages
  /\ hdr = [sig |-> Encoded(pkg.sig), gen |-> Encoded(pkg.gen)]
  /\ ret = [call |-> "none", tag |-> 0, err |-> "nil", val |-> <<>>]

-----------------------------------------------------------------------------
OK(v)  == [err |-> "nil", val |-> v]
Err(e) == [err |-> e, val |-> <<>>]
NoSuchTagError == Err("no such tag")

HasTag(h, t) == t \in DOMAIN h

(* binary.Read, big-endian, of one integer: the values of its beginnings.  *)
BigEndian(bytes) ==
  LET v[n \in 0..Len(bytes)] == IF n = 0 THEN 0 ELSE Base * v[n - 1] + bytes[n] IN v

getInts(h, t) ==
  LET w == Width[h[t].type]
      c == h[t].contents
  IN  IF ~HasTag(h, t) THEN NoSuchTagError
      ELSE IF h[t].type \notin IntTypes THEN Err("not an int type")
      ELSE OK([i \in 1..(Len(c) \div w) |-> BigEndian(SubSeq(c, (i - 1) * w + 1, i * w))[w]])

(* The largest value of a signed 32-bit integer.                           *)
MaxInt32 == Power[4] \div 2 - 1

GetInts(h, t) ==
  LET r == getInts(h, t) IN
  IF r.err # "nil" THEN r
  ELSE IF h[t].type = "INT64" THEN Err("too big")
  ELSE IF h[t].type = "INT32" /\ \E i \in DOMAIN r.val : r.val[i] > MaxInt32 THEN Err("out of range")
  ELSE r

GetUint32sTruncated(h, t) ==
  LET r == getInts(h, t) IN
  IF r.err # "nil" THEN r ELSE OK([i \in DOMAIN r.val |-> r.val[i] % Power[4]])
GetUint32s(h, t) ==
  LET r == getInts(h, t) IN
  IF r.err = "nil" /\ h[t].type = "INT64" THEN Err("too big") ELSE r

GetUint64s(h, t) == getInts(h, t)

GetBytes(h, t) ==
  IF ~HasTag(h, t) THEN NoSuchTagError
  ELSE IF h[t].type # "BIN" THEN Err("not bytes") ELSE OK(h[t].contents)

(* Split at the NUL behind every string, which leaves an empty one, and    *)
(* the first count of the pieces.                                          *)
strings(h, t) ==
  IF ~HasTag(h, t) THEN NoSuchTagError
  ELSE IF h[t].type \notin StringTypes THEN Err("not a string type")
  ELSE OK(SubSeq(Append(h[t].contents, <<>>), 1, h[t].count))

FirstError(rs) == rs[CHOOSE i \in DOMAIN rs : rs[i].err # "nil" /\ \A j \in 1..(i - 1) : rs[j].err = "nil"]
SomeError(rs) == \E i \in DOMAIN rs : rs[i].err # "nil"

(* OLDFILENAMES out of directories and base names; path.Join.              *)
spliced(h) ==
  LET dirs == strings(h, Tags.DIRNAMES)
      idxs == GetUint32s(h, Tags.DIRINDEXES)
      base == strings(h, Tags.BASENAMES)
      all  == <<dirs, idxs, base>>
  IN  IF SomeError(all) THEN FirstError(all)
      ELSE IF \E i \in DOMAIN base.val :
                i > Len(idxs.val) \/ idxs.val[i] >= Len(dirs.val) THEN Err("panic")
      ELSE OK([i \in DOMAIN base.val |-> dirs.val[idxs.val[i] + 1] \o base.val[i]])

GetStrings(h, t) ==
  IF t = Tags.OLDFILENAMES /\ ~HasTag(h, t) THEN spliced(h) ELSE strings(h, t)

(* rpmHeader.Get: the type the tag is stored in.                           *)
Get(h, t) ==
  IF ~HasTag(h, t) THEN IF t = Tags.OLDFILENAMES THEN GetStrings(h, t) ELSE NoSuchTagError
  ELSE CASE h[t].type \in StringTypes -> GetStrings(h, t)
         [] h[t].type \in IntTypes -> getInts(h, t)
         [] h[t].type = "BIN" -> GetBytes(h, t)
         [] OTHER -> Err("unsupported data type")

(* rpmHeader.GetUint64Fallback.                                            *)
uint64ShortFirst(h, intTag, longTag) ==
  GetUint64s(h, IF HasTag(h, intTag) THEN intTag ELSE longTag)
uint64Fallback(h, intTag, longTag) ==
  GetUint64s(h, IF HasTag(h, longTag) THEN longTag ELSE intTag)

-----------------------------------------------------------------------------
(* RpmHeader.getHeader: which header a public tag number means, and which  *)
(* raw number.                                                             *)
getHeaderClosed(tag) ==
  IF tag > SIGHEADER_TAG_BASE THEN [h |-> hdr.sig, t |-> tag - SIGHEADER_TAG_BASE]
  ELSE IF tag <= GENERAL_TAG_BASE THEN [h |-> hdr.sig, t |-> tag]
  ELSE [h |-> hdr.gen, t |-> tag]
getHeader(tag) ==
  IF tag > SIGHEADER_TAG_BASE THEN [h |-> hdr.sig, t |-> tag - SIGHEADER_TAG_BASE]
  ELSE IF tag < GENERAL_TAG_BASE THEN [h |-> hdr.sig, t |-> tag]
  ELSE [h |-> hdr.gen, t |-> tag]

(* GetString, GetInt, GetUint32, GetUint64: the only value of a tag.       *)
Only(r) ==
  IF r.err # "nil" THEN r ELSE IF Len(r.val) # 1 THEN Err("number of values") ELSE OK(r.val[1])

(* One call; there is nothing in the header that it could change.          *)
Answer(call, tag, r) ==
  /\ ret.call = "none"
  /\ ret' = [call |-> call, tag |-> tag, err |-> r.err, val |-> r.val]
  /\ UNCHANGED <<pkg, hdr>>

(* The public tags a caller may ask for.                                   *)
PublicTag(where, t) ==
  IF where = "gen" \/ t < GENERAL_TAG_BASE THEN t ELSE SIGHEADER_TAG_BASE + t
PublicTags ==
  {PublicTag("sig", t) : t \in DOMAIN pkg.sig} \cup DOMAIN pkg.gen \cup {Tags.OLDFILENAMES, Tags.EPOCH}

AskStrings(tag) ==
  LET g == getHeader(tag) IN
  \/ Answer("GetStrings", tag, GetStrings(g.h, g.t))
  \/ Answer("GetString", tag, Only(GetStrings(g.h, g.t)))
AskInts(tag) ==
  LET g == getHeader(tag) IN
  \/ Answer("GetInts", tag, GetInts(g.h, g.t))
  \/ Answer("GetInt", tag, Only(GetInts(g.h, g.t)))
AskUint32s(tag) ==
  LET g == getHeader(tag) IN
  \/ Answer("GetUint32s", tag, GetUint32s(g.h, g.t))
  \/ Answer("GetUint32", tag, Only(GetUint32s(g.h, g.t)))
AskUint64s(tag) ==
  LET g == getHeader(tag) IN
  \/ Answer("GetUint64s", tag, GetUint64s(g.h, g.t))
  \/ Answer("GetUint64", tag, Only(GetUint64s(g.h, g.t)))
Ask(tag) ==
  LET g == getHeader(tag) IN
  \/ Answer("Get", tag, Get(g.h, g.t))
  \/ Answer("GetBytes", tag, GetBytes(g.h, g.t))
  \/ Answer("HasTag", tag, OK(HasTag(g.h, g.t)))

(* int64(u).                                                               *)
Int64(u) == IF u < Power[8] \div 2 THEN u ELSE u - Power[8]

(* RpmHeader.GetUint64Fallback: the long tag if it has a value, else the   *)
(* short one.                                                              *)
shortFirst(intTag, longTag) ==
  LET s == getHeader(intTag)
      l == getHeader(longTag)
      r == Only(GetUint64s(s.h, s.t))
  IN  IF r.err = "nil" THEN r ELSE Only(GetUint64s(l.h, l.t))
GetUint64Fallback(intTag, longTag) ==
  LET l == getHeader(longTag)
      s == getHeader(intTag)
      r == Only(GetUint64s(l.h, l.t))
  IN  IF r.err = "nil" THEN r ELSE Only(GetUint64s(s.h, s.t))

AskInstalledSize ==
  LET r == GetUint64Fallback(Tags.SIZE, Tags.LONGSIZE) IN
  Answer("InstalledSize", Tags.SIZE, IF r.err = "nil" THEN OK(Int64(r.val)) ELSE r)

AskPayloadSize ==
  LET r == Only(uint64Fallback(hdr.sig, Tags.SIG_PAYLOADSIZE - SIGHEADER_TAG_BASE, Tags.SIG_LONGARCHIVESIZE))
  IN  Answer("PayloadSize", Tags.SIG_PAYLOADSIZE, IF r.err = "nil" THEN OK(Int64(r.val)) ELSE r)

(* rpmHeader.GetNEVRA: no epoch is epoch 0.                                *)
GetNEVRA(h) ==
  LET name == GetStrings(h, Tags.NAME)
      e    == GetUint64s(h, Tags.EPOCH)
      epoch == IF e = NoSuchTagError \/ (e.err = "nil" /\ e.val = <<>>) THEN OK(<<0>>) ELSE e
      version == GetStrings(h, Tags.VERSION)
      release == GetStrings(h, Tags.RELEASE)
      arch == GetStrings(h, Tags.ARCH)
      all  == <<name, epoch, version, release, arch>>
  IN  IF SomeError(all) THEN FirstError(all)
      ELSE OK([i \in 1..5 |-> all[i].val[1]])
AskNEVRA == Answer("GetNEVRA", Tags.NAME, GetNEVRA(hdr.gen))

(* rpmHeader.GetFiles: parallel arrays; devices and inodes may be missing, *)
(* and so may all names.  A shorter array would be indexed out of range.   *)
GetFiles(h) ==
  LET paths == GetStrings(h, Tags.OLDFILENAMES)
      orZeros(r) == IF r.err = "nil" THEN r ELSE OK([i \in DOMAIN paths.val |-> 0])
      all == <<paths, uint64Fallback(h, Tags.FILESIZES, Tags.LONGFILESIZES),
               GetStrings(h, Tags.FILEUSERNAME), GetStrings(h, Tags.FILEGROUPNAME),
               GetUint32s(h, Tags.FILEFLAGS), GetUint32s(h, Tags.FILEMTIMES),
               GetStrings(h, Tags.FILEDIGESTS), GetUint32s(h, Tags.FILEMODES),
               GetStrings(h, Tags.FILELINKTOS), orZeros(GetUint32s(h, Tags.FILEDEVICES)),
               orZeros(GetUint32s(h, Tags.FILEINODES))>>
  IN  IF paths = NoSuchTagError THEN OK(<<>>)
      ELSE IF SomeError(all) THEN FirstError(all)
      ELSE IF \E k \in DOMAIN all : Len(all[k].val) < Len(paths.val) THEN Err("panic")
      ELSE OK([i \in DOMAIN paths.val |->
                 [f \in FieldNames |->
                    all[CHOOSE k \in DOMAIN FileFields : FileFields[k] = f].val[i]]])
AskFiles == Answer("GetFiles", Tags.OLDFILENAMES, GetFiles(hdr.gen))

Next ==
  \/ \E tag \in PublicTags :
       AskStrings(tag) \/ AskInts(tag) \/ AskUint32s(tag) \/ AskUint64s(tag) \/ Ask(tag)
  \/ AskInstalledSize \/ AskPayloadSize \/ AskNEVRA \/ AskFiles

Spec == Init /\ [][Next]_vars

-----------------------------------------------------------------------------
(* What the package was built with under a public tag, in its own header.  *)
Built(tag) ==
  LET in(where, t) == IF t \in DOMAIN pkg[where] /\ PublicTag(where, t) = tag THEN {pkg[where][t]} ELSE {}
  IN  UNION ({in("sig", t) : t \in DOMAIN pkg.sig} \cup {in("gen", t) : t \in DOMAIN pkg.gen})

(* An accessor that asks for integers returns those the package was built  *)
(* with, all of them and unchanged, whatever width they were stored in; it *)
(* fails only if the tag is not there, is no integer, or does not fit      *)
(* (header.go:240-328).                                                    *)
Fits(call, e) ==
  /\ e.type \in IntTypes
  /\ CASE call = "GetInts" -> e.type # "INT64" /\ \A i \in DOMAIN e.vals : e.vals[i] <= MaxInt32
       [] call = "GetUint32s" -> e.type # "INT64"
       [] call = "GetUint64s" -> TRUE
IntsAsBuilt ==
  /\ ret.call \in {"GetInts", "GetUint32s", "GetUint64s"} =>
       \/ \E e \in Built(ret.tag) : Fits(ret.call, e) /\ ret.err = "nil" /\ ret.val = e.vals
       \/ (\A e \in Built(ret.tag) : ~Fits(ret.call, e)) /\ ret.err # "nil"
  /\ ret.call \in {"GetInt", "GetUint32", "GetUint64"} /\ ret.err = "nil" =>
       \E e \in Built(ret.tag) : e.vals = <<ret.val>>

(* Strings and bytes likewise: what is returned is from the header the tag *)
(* belongs to, though raw numbers from 1000 on occur in both               *)
(* (rpmutils.go:276-288).                                                  *)
StringsAsBuilt ==
  ret.call \in {"GetStrings", "GetBytes"} /\ ret.tag # Tags.OLDFILENAMES =>
    LET types == IF ret.call = "GetBytes" THEN {"BIN"} ELSE StringTypes IN
    \/ \E e \in Built(ret.tag) : e.type \in types /\ ret.err = "nil" /\ ret.val = e.vals
    \/ (\A e \in Built(ret.tag) : e.type \notin types) /\ ret.err # "nil"

(* GetFiles returns the files the package was built from, whether names    *)
(* and sizes are stored in the old or the new way, and GetStrings their    *)
(* names under OLDFILENAMES; no index is out of range (header.go:179-212,  *)
(* 383-455).                                                               *)
FilesAsBuilt ==
  /\ ret.call = "GetFiles" => ret.err = "nil" /\ ret.val = pkg.files
  /\ ret.call = "GetStrings" /\ ret.tag = Tags.OLDFILENAMES /\ pkg.files # <<>> =>
       ret.err = "nil" /\ ret.val = [i \in DOMAIN pkg.files |-> pkg.files[i]["name"]]

(* The sizes of the package are its real ones, beyond 32 bits as well, and *)
(* its NEVRA has an epoch even if the header has not (rpmutils.go:300-319, *)
(* header.go:349-381).                                                     *)
SummaryAsBuilt ==
  /\ ret.call = "InstalledSize" => ret.err = "nil" /\ ret.val = pkg.installed
  /\ ret.call = "PayloadSize" => ret.err = "nil" /\ ret.val = pkg.payload
  /\ ret.call = "GetNEVRA" => ret.err = "nil" /\ ret.val = pkg.nevra
=============================================================================
