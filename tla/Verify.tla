------------------------------- MODULE Verify -------------------------------
(***************************************************************************)
(* Verify (verify.go, verify_digests.go, verify_v3.go, verify_v4.go) and   *)
(* SignRpmStream (signatures.go): which bytes of a package are digested,   *)
(* against what the digests are checked, and which signature is validated  *)
(* over which of them.  Calls follow each other on one package, which may  *)
(* be damaged in between.                                                  *)
(*                                                                         *)
(* Bytes are sequences of blocks.  A digest is the pair of its algorithm   *)
(* and the bytes, that is, digests of different bytes differ; a signature  *)
(* names the key that made it and the digest it was made over.             *)
(***************************************************************************)
EXTENDS Integers, Sequences

CONSTANTS
    Blocks,     \* what bytes are made of
    Packages,   \* packages as built, with the signatures they came with
    Keys,       \* private keys that sign
    Strangers,  \* keys that made other signatures
    Rings,      \* values of knownKeys: sequences of entities, or Nil
    Nil,        \* knownKeys = nil
    Options,    \* values of opts.Hash, "nil opts" and "unset"
    Algorithms, \* hash functions linked into the program
    OtherAlgos, \* other hash functions that packages were built with
    V3Support   \* build tag pgp3

(* PAYLOADDIGESTALGO values getPayloadDigest knows.                        *)
PayloadAlgos == {"MD5", "SHA1", "SHA256", "SHA384", "SHA512", "SHA224"}

Digest(algo, bytes) == [algo |-> algo, bytes |-> bytes]
None == Digest("none", <<>>)                     \* no such tag

(* A signature blob: key and digest it was made with, the packet's version *)
(* and what it says of its issuer ("id", "fingerprint", "both", "none").   *)
NoSig == [key |-> Nil, over |-> None, version |-> 4, issuer |-> "none"]
SigTags == {"RSA", "DSA", "PGP", "GPG"}

Tags == SigTags \cup {"sha1", "sha256", "md5"}

ASSUME HashAssumption == {"MD5", "SHA1", "SHA256"} \subseteq Algorithms
ASSUME KeysAssumption == Nil \notin Keys \cup Strangers /\ V3Support \in BOOLEAN

AlgoNames == Algorithms \cup OtherAlgos \cup {"none"}
DigestType == [algo : AlgoNames, bytes : Seq(Blocks)]
SigType == [key : Keys \cup Strangers \cup {Nil}, over : DigestType,
            version : Nat, issuer : {"id", "fingerprint", "both", "none"}]
PackageType == [header : Seq(Blocks), payload : Seq(Blocks), digest : DigestType,
                tags : [Tags -> DigestType \cup SigType]]
TagsOK(tags) ==
  /\ \A t \in SigTags : tags[t] \in SigType
  /\ \A t \in Tags \ SigTags : tags[t] \in DigestType

(* The digests a package is built with are of its own header and payload;  *)
(* the header is never empty.  "x" is a block damaged.                     *)
ASSUME PackagesAssumption ==
  /\ "x" \in Blocks
  /\ \A p \in Packages :
       /\ p \in PackageType /\ TagsOK(p.tags) /\ p.header # <<>>
       /\ p.digest.algo \in PayloadAlgos => p.digest.bytes = p.payload
       /\ \A t \in {"sha1", "sha256"} : p.tags[t] # None => p.tags[t].bytes = p.header
       /\ p.tags.md5 # None => p.tags.md5.bytes = p.header \o p.payload

VARIABLES
    pkg,      \* the package: digests and signatures of the signature header
              \* (tags), general header and its payload digest, payload
    built,    \* what was built: its header and payload
    fresh,    \* the key that signed the package last, nothing having
              \* happened to it since; Nil if there is none
    op,       \* the call: "sign", "verify" or "none"
    arg,      \* its key and options, or its knownKeys
    pc,       \* where it is
    sigs,     \* sigs: [sig, headerOnly]
    hashes,   \* hashes: [algo, bytes, payload], the latter if a payloadWriter
    hasher,   \* payloadHasher: a digest so far, and the one expected
    rest,     \* payload not yet read
    valid,    \* signatures validated
    ret       \* "none", or what the call returned

fileVars == <<pkg, built, fresh>>
callVars == <<op, arg>>
vars == <<pkg, built, fresh, op, arg, pc, sigs, hashes, hasher, rest, valid, ret>>

NoHasher == [algo |-> "none", bytes |-> <<>>, want |-> None]

Init ==
  /\ pkg \in Packages
  /\ built = [header |-> pkg.header, payload |-> pkg.payload]
  /\ fresh = Nil /\ op = "none" /\ arg = Nil /\ pc = "idle"
  /\ sigs = <<>> /\ hashes = <<>> /\ hasher = NoHasher /\ rest = <<>> /\ valid = 0
  /\ ret = "none"

-----------------------------------------------------------------------------
Call(name, a) ==
  /\ pc = "idle" /\ op' = name /\ arg' = a /\ pc' = "header"
  /\ sigs' = <<>> /\ hashes' = <<>> /\ hasher' = NoHasher /\ valid' = 0
  /\ rest' = pkg.payload /\ ret' = "running"
  /\ UNCHANGED fileVars

Goto(label) == pc' = label /\ ret' = ret
Return(err) == pc' = "idle" /\ ret' = err

getHashAndType(tags) == IF tags.sha256 # None THEN tags.sha256 ELSE tags.sha1

(* readHeader of the general header: its digest, if there is one.          *)
ReadHeader ==
  LET want == getHashAndType(pkg.tags) IN
  /\ pc = "header"
  /\ IF want # None /\ Digest(want.algo, pkg.header) # want
     THEN Return("header mismatch")
     ELSE Goto("setup")
  /\ UNCHANGED <<fileVars, callVars, sigs, hashes, hasher, rest, valid>>

(* parseSignature, parseSignatureMaybeV3, parseSignatureV4.                *)
Parses(sig) ==
  IF sig.version = 3 THEN V3Support ELSE sig.version = 4 /\ sig.issuer # "none"

Present(tag) == IF pkg.tags[tag] # NoSig THEN <<tag>> ELSE <<>>
headerSigTags == Present("RSA") \o Present("DSA")
payloadSigTags == Present("PGP") \o Present("GPG")

HashWithoutHeader(algo, payload) ==
  [algo |-> algo, bytes |-> IF payload THEN <<>> ELSE pkg.header, payload |-> payload]
Hash(algo, payload) == [algo |-> algo, bytes |-> pkg.header, payload |-> payload]

allSigTags == headerSigTags \o payloadSigTags
headerOnly(i) == i <= Len(headerSigTags)
payloadHashes == [i \in DOMAIN payloadSigTags |-> Hash(pkg.tags[payloadSigTags[i]].over.algo, TRUE)]
sigHashes ==
  [i \in DOMAIN allSigTags |-> Hash(pkg.tags[allSigTags[i]].over.algo, ~headerOnly(i))]

Usable(tag) == Parses(pkg.tags[tag]) /\ pkg.tags[tag].over.algo \in Algorithms

(* digestAndVerify up to digestPayload: one hash per signature, header     *)
(* signatures first, each with the general header in it.  The first one    *)
(* that is no good ends it, with a panic of New if only its hash function  *)
(* is missing.                                                             *)
DigestAndVerify ==
  /\ pc = "setup" /\ op = "verify"
  /\ IF \E i \in DOMAIN allSigTags : ~Usable(allSigTags[i])
     THEN /\ \E i \in DOMAIN allSigTags :
               /\ ~Usable(allSigTags[i]) /\ \A j \in 1..(i - 1) : Usable(allSigTags[j])
               /\ Return(IF Parses(pkg.tags[allSigTags[i]]) THEN "panic" ELSE "bad signature")
          /\ UNCHANGED <<sigs, hashes>>
     ELSE /\ sigs' = [i \in DOMAIN allSigTags |->
                        [sig |-> pkg.tags[allSigTags[i]], headerOnly |-> headerOnly(i)]]
          /\ hashes' = sigHashes
          /\ Goto("digest")
  /\ UNCHANGED <<fileVars, callVars, hasher, rest, valid>>

(* SignatureOptions.hash: the default is for nil options only.             *)
optsHash(o) == IF o = "nil opts" THEN "SHA256" ELSE o

(* digestForSigning up to digestPayload: genHash and combinedHash.  A hash *)
(* function that was not set, or is not linked, panics.                    *)
DigestForSigning ==
  LET algo == optsHash(arg.opts) IN
  /\ pc = "setup" /\ op = "sign"
  /\ IF algo \in Algorithms
     THEN hashes' = <<Hash(algo, FALSE), Hash(algo, TRUE)>> /\ Goto("digest")
     ELSE UNCHANGED hashes /\ Return("panic")
  /\ UNCHANGED <<fileVars, callVars, sigs, hasher, rest, valid>>

(* digestPayload: the general header's payload digest covers the payload,  *)
(* the legacy MD5 of the signature header the general header as well.  A   *)
(* payload digest of an unknown kind counts as none.                       *)
getPayloadDigest == IF pkg.digest.algo \in PayloadAlgos THEN pkg.digest ELSE None

DigestPayload ==
  LET want == getPayloadDigest IN
  /\ pc = "digest"
  /\ IF want # None /\ want.algo \notin Algorithms
     THEN Return("unknown payload digest") /\ UNCHANGED hasher
     ELSE IF want # None
     THEN hasher' = [algo |-> want.algo, bytes |-> <<>>, want |-> want] /\ Goto("copy")
     ELSE IF pkg.tags.md5 # None
     THEN hasher' = [algo |-> "MD5", bytes |-> pkg.header, want |-> pkg.tags.md5] /\ Goto("copy")
     ELSE Return("no usable payload digest") /\ UNCHANGED hasher
  /\ UNCHANGED <<fileVars, callVars, sigs, hashes, rest, valid>>

(* io.Copy to the MultiWriter, a block at a time.                          *)
CopyBlock ==
  /\ pc = "copy" /\ rest # <<>>
  /\ hashes' = [i \in DOMAIN hashes |->
                  IF hashes[i].payload THEN [hashes[i] EXCEPT !.bytes = Append(@, Head(rest))]
                  ELSE hashes[i]]
  /\ hasher' = [hasher EXCEPT !.bytes = Append(@, Head(rest))]
  /\ rest' = Tail(rest)
  /\ UNCHANGED <<fileVars, callVars, pc, sigs, valid, ret>>

(* Reading the headers or the payload fails, or makeSignature does.        *)
Fail(label, err) ==
  /\ pc = label /\ Return(err)
  /\ UNCHANGED <<fileVars, callVars, sigs, hashes, hasher, rest, valid>>
ReadFails == Fail("header", "read error") \/ Fail("copy", "read error")
SignFails == Fail("insert", "signing failed")

CompareAnyway ==
  /\ pc = "copy" /\ rest = <<>>
  /\ Goto(IF op = "sign" THEN "insert" ELSE "validate")
  /\ UNCHANGED <<fileVars, callVars, sigs, hashes, hasher, rest, valid>>
CompareDigest ==
  /\ pc = "copy" /\ rest = <<>>
  /\ IF Digest(hasher.algo, hasher.bytes) # hasher.want
     THEN Return("payload mismatch")
     ELSE Goto(IF op = "sign" THEN "insert" ELSE "validate")
  /\ UNCHANGED <<fileVars, callVars, sigs, hashes, hasher, rest, valid>>

(* findKey, KeysById: the key among the primary keys and subkeys of the    *)
(* entities.  A version 3 signature names its key by id only.              *)
KeysOf(entity) == {entity.primary} \cup entity.subkeys
findKey(key) == \E i \in DOMAIN arg : key \in KeysOf(arg[i])

(* sig.validate(hashes[i]) for one signature after the other.              *)
Validate ==
  LET s == sigs[valid + 1].sig
      h == hashes[valid + 1]
  IN  /\ pc = "validate"
      /\ IF valid = Len(sigs) THEN Return("ok") /\ UNCHANGED valid
         ELSE IF arg = Nil THEN Goto("validate") /\ valid' = valid + 1
         ELSE IF ~findKey(s.key) THEN Return("key not found") /\ UNCHANGED valid
         ELSE IF s.over # Digest(h.algo, h.bytes) THEN Return("bad signature") /\ UNCHANGED valid
         ELSE Goto("validate") /\ valid' = valid + 1
      /\ UNCHANGED <<fileVars, callVars, sigs, hashes, hasher, rest>>

(* makeSignature twice and insertSignatures; the caller writes the result  *)
(* into the package.                                                       *)
makeSignature(h) ==
  [key |-> arg.key, over |-> Digest(h.algo, h.bytes), version |-> 4, issuer |-> "id"]
keepOldSignatures(tags) ==
  [tags EXCEPT !["PGP"] = makeSignature(hashes[2]), !["RSA"] = makeSignature(hashes[1])]
insertSignatures(tags) ==
  [tags EXCEPT !["PGP"] = makeSignature(hashes[2]), !["RSA"] = makeSignature(hashes[1]),
               !["GPG"] = NoSig, !["DSA"] = NoSig]

Insert ==
  /\ pc = "insert"
  /\ pkg' = [pkg EXCEPT !.tags = insertSignatures(@)]
  /\ fresh' = arg.key
  /\ Return("ok")
  /\ UNCHANGED <<built, callVars, sigs, hashes, hasher, rest, valid>>

(* Between calls a block of the package is changed or its end is lost.     *)
Damage ==
  /\ pc = "idle"
  /\ \/ pkg' = [pkg EXCEPT !.header = <<"x">>]
     \/ \E i \in DOMAIN pkg.payload : pkg' = [pkg EXCEPT !.payload[i] = "x"]
     \/ pkg.payload # <<>> /\ pkg' = [pkg EXCEPT !.payload = SubSeq(@, 1, Len(@) - 1)]
  /\ fresh' = Nil /\ op' = "none" /\ ret' = "none"
  /\ UNCHANGED <<built, arg, pc, sigs, hashes, hasher, rest, valid>>

Step ==
  \/ ReadHeader \/ DigestAndVerify \/ DigestForSigning \/ DigestPayload
  \/ CopyBlock \/ CompareDigest \/ Validate \/ Insert

SignRpmStream == \E k \in Keys, o \in Options : Call("sign", [key |-> k, opts |-> o])
VerifyCall == \E r \in Rings : Call("verify", r)

Next == SignRpmStream \/ VerifyCall \/ Step \/ ReadFails \/ SignFails \/ Damage

Spec == Init /\ [][Next]_vars

-----------------------------------------------------------------------------
TypeOK ==
  /\ op \in {"none", "sign", "verify"} /\ valid \in 0..Len(sigs)
  /\ pc \in {"idle", "header", "setup", "digest", "copy", "validate", "insert"}
  /\ op = "verify" /\ pc \in {"digest", "copy", "validate"} => Len(hashes) = Len(sigs)
  /\ fresh \in Keys \cup {Nil}
  /\ ret = "running" <=> pc # "idle"

Succeeded(name) == op = name /\ ret = "ok"

(* What the package's digests cover is as it was built, or neither Verify  *)
(* nor SignRpmStream succeeds; a damaged package is never signed.  The     *)
(* payload is always covered (verify_digests.go:73-111), the header unless *)
(* its only digest is the payload's.                                       *)
DamageIsFound ==
  Succeeded("sign") \/ Succeeded("verify") =>
    /\ pkg.payload = built.payload
    /\ pkg.header = built.header \/ (getHashAndType(pkg.tags) = None /\ getPayloadDigest # None)

(* If Verify succeeds with keys, every signature it returns was made by a  *)
(* known key over the header as it is and, unless HeaderOnly, the whole    *)
(* payload as it is; and no signature in the package was passed over       *)
(* (verify.go:54-88).                                                      *)
VerifiedMeansSigned ==
  Succeeded("verify") /\ arg # Nil =>
    /\ \A i \in DOMAIN sigs :
         /\ \E e \in DOMAIN arg : sigs[i].sig.key \in KeysOf(arg[e])
         /\ sigs[i].sig.over.bytes =
              IF sigs[i].headerOnly THEN pkg.header ELSE pkg.header \o pkg.payload
    /\ {sigs[i].sig : i \in DOMAIN sigs} = {pkg.tags[t] : t \in SigTags} \ {NoSig}

(* A package that was just signed verifies with the key that signed it, or *)
(* without keys: two signatures, over the header and over all of it, both  *)
(* by that key, whatever signatures it had before and whatever options     *)
(* were used (signatures.go:84-89, 126-159).                               *)
SignedVerifies ==
  /\ fresh # Nil /\ op = "verify" /\ ret \notin {"running", "read error"}
  /\ arg = Nil \/ \E i \in DOMAIN arg : fresh \in KeysOf(arg[i])
  => /\ ret = "ok" /\ Len(sigs) = 2
     /\ sigs[1].headerOnly /\ ~sigs[2].headerOnly
     /\ \A i \in 1..2 : sigs[i].sig.key = fresh
=============================================================================
