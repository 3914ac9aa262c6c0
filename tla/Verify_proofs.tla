---------------------------- MODULE Verify_proofs ----------------------------
(***************************************************************************)
(* Proofs about Verify for every set of packages whose digests are their   *)
(* own, every set of keys and every sequence of calls and damages.         *)
(*                                                                         *)
(* The argument: while the payload is copied, what a hash has been given   *)
(* and what is still to be read make up the header and the payload.  So    *)
(* the digest that is compared at the end covers all of it, and a          *)
(* signature is validated over all of it.                                  *)
(***************************************************************************)
EXTENDS Verify, SequenceTheorems, TLAPS

HashType == [algo : AlgoNames, bytes : Seq(Blocks), payload : BOOLEAN]
HasherType == [algo : AlgoNames, bytes : Seq(Blocks), want : DigestType]

(* The package: damage never makes it longer, and nothing changes the      *)
(* digests it was built with.                                              *)
PkgInv ==
  /\ pkg \in PackageType /\ TagsOK(pkg.tags)
  /\ built \in [header : Seq(Blocks), payload : Seq(Blocks)]
  /\ built.header # <<>>
  /\ Len(pkg.header) <= Len(built.header) /\ Len(pkg.payload) <= Len(built.payload)
  /\ pkg.digest.algo \in PayloadAlgos => pkg.digest.bytes = built.payload
  /\ \A t \in {"sha1", "sha256"} :
       pkg.tags[t] # None => pkg.tags[t].bytes = built.header
  /\ pkg.tags.md5 # None => pkg.tags.md5.bytes = built.header \o built.payload

(* The call in progress, or the last one.                                  *)
CallInv ==
  /\ op = "sign" => arg \in [key : Keys, opts : Options]
  /\ op = "verify" => arg \in Rings
  /\ pc # "idle" => op # "none"
  /\ pc = "validate" => op = "verify"
  /\ pc = "insert" => op = "sign"
  /\ rest \in Seq(Blocks) /\ hashes \in Seq(HashType) /\ hasher \in HasherType
  /\ pc \in {"header", "setup", "digest"} => rest = pkg.payload
  /\ pc \in {"validate", "insert"} \/ ret = "ok" => rest = <<>>

(* The header's digest has been checked.                                   *)
HeaderMatches ==
  LET want == getHashAndType(pkg.tags) IN want # None => Digest(want.algo, pkg.header) = want
HeaderInv ==
  pc \in {"setup", "digest", "copy", "validate", "insert"} \/ ret = "ok" => HeaderMatches

(* What a hash has been given and what is still to be read.                *)
Covers(h) ==
  IF h.payload THEN h.bytes \o rest = pkg.header \o pkg.payload ELSE h.bytes = pkg.header
ExpectedSigs ==
  [i \in DOMAIN allSigTags |->
     [sig |-> pkg.tags[allSigTags[i]], headerOnly |-> headerOnly(i)]]
HashInv ==
  pc \in {"digest", "copy", "validate", "insert"} \/ ret = "ok" =>
    /\ \A i \in 1..Len(hashes) : Covers(hashes[i])
    /\ op = "sign" => /\ Len(hashes) = 2 /\ ~hashes[1].payload /\ hashes[2].payload
                      /\ hashes[1].algo \in Algorithms /\ hashes[2].algo \in Algorithms
    /\ op = "verify" =>
         /\ sigs = ExpectedSigs /\ Len(hashes) = Len(sigs)
         /\ \A i \in 1..Len(hashes) :
              /\ hashes[i].algo = sigs[i].sig.over.algo
              /\ hashes[i].payload = ~sigs[i].headerOnly

(* The same of the payload's hash, and what it is compared with.           *)
HasherInv ==
  pc = "copy" =>
    IF getPayloadDigest # None
    THEN /\ hasher.want = getPayloadDigest /\ hasher.algo = getPayloadDigest.algo
         /\ hasher.algo \in Algorithms
         /\ hasher.bytes \o rest = pkg.payload
    ELSE /\ hasher.want = pkg.tags.md5 /\ pkg.tags.md5 # None /\ hasher.algo = "MD5"
         /\ hasher.bytes \o rest = pkg.header \o pkg.payload

(* The payload's digest has been checked.                                  *)
PayloadMatches ==
  IF getPayloadDigest # None
  THEN /\ getPayloadDigest.algo \in Algorithms
       /\ Digest(getPayloadDigest.algo, pkg.payload) = getPayloadDigest
  ELSE pkg.tags.md5 # None /\ Digest("MD5", pkg.header \o pkg.payload) = pkg.tags.md5
PayloadInv == pc \in {"validate", "insert"} \/ ret = "ok" => PayloadMatches

(* The signatures validated so far.                                        *)
ValidInv ==
  /\ pc \in {"header", "setup", "digest", "copy"} => valid = 0
  /\ op = "verify" /\ (pc = "validate" \/ ret = "ok") =>
       /\ valid \in 0..Len(sigs) /\ (ret = "ok" => valid = Len(sigs))
       /\ arg # Nil => \A j \in 1..valid :
            /\ findKey(sigs[j].sig.key)
            /\ sigs[j].sig.over = Digest(hashes[j].algo, hashes[j].bytes)

(* A package just signed: its digests are right and it has two signatures. *)
FreshInv ==
  fresh # Nil =>
    /\ fresh \in Keys /\ HeaderMatches /\ PayloadMatches
    /\ pkg.tags["DSA"] = NoSig /\ pkg.tags["GPG"] = NoSig
    /\ \A t \in {"RSA", "PGP"} :
         /\ pkg.tags[t].key = fresh /\ pkg.tags[t].version = 4 /\ pkg.tags[t].issuer = "id"
         /\ pkg.tags[t].over.algo \in Algorithms
         /\ pkg.tags[t].over.bytes = IF t = "RSA" THEN pkg.header ELSE pkg.header \o pkg.payload

(* Verifying it only fails if the key is not known or reading fails.       *)
Known == arg = Nil \/ \E i \in DOMAIN arg : fresh \in KeysOf(arg[i])
FreshVerifyInv ==
  fresh # Nil /\ op = "verify" /\ Known => ret \in {"running", "read error", "ok"}

IInv ==
  /\ TypeOK /\ PkgInv /\ CallInv /\ HeaderInv /\ HashInv /\ HasherInv
  /\ PayloadInv /\ ValidInv /\ FreshInv /\ FreshVerifyInv
-----------------------------------------------------------------------------
(* A digest is its algorithm and the bytes.                                *)
LEMMA Digests ==
  /\ \A a, b, c, d : Digest(a, b) = Digest(c, d) <=> a = c /\ b = d
  /\ \A a, b : Digest(a, b).algo = a /\ Digest(a, b).bytes = b
  /\ \A a \in AlgoNames, b \in Seq(Blocks) : Digest(a, b) \in DigestType
  /\ \A d \in DigestType :
       d.algo \in AlgoNames /\ d.bytes \in Seq(Blocks) /\ d = Digest(d.algo, d.bytes)
  /\ None \in DigestType /\ None.algo = "none" /\ NoSig \in SigType /\ NoSig.key = Nil
<1>1. <<>> \in Seq(Blocks)
  OBVIOUS
<1>2. \A a, b, c, d : Digest(a, b) = Digest(c, d) <=> a = c /\ b = d
  BY DEF Digest
<1>3. \A a, b : Digest(a, b).algo = a /\ Digest(a, b).bytes = b
  BY DEF Digest
<1>4. \A a \in AlgoNames, b \in Seq(Blocks) : Digest(a, b) \in DigestType
  BY DEF Digest, DigestType
<1>5. \A d \in DigestType :
        d.algo \in AlgoNames /\ d.bytes \in Seq(Blocks) /\ d = Digest(d.algo, d.bytes)
  BY DEF Digest, DigestType
<1>6. None \in DigestType /\ None.algo = "none"
  BY <1>1 DEF None, Digest, DigestType, AlgoNames
<1>7. NoSig \in SigType /\ NoSig.key = Nil
  BY <1>6 DEF NoSig, SigType
<1> QED
  BY <1>2, <1>3, <1>4, <1>5, <1>6, <1>7

(* Copying a block moves it from what is to be read to what was hashed.    *)
LEMMA CopyOne ==
  ASSUME NEW b \in Seq(Blocks), NEW r \in Seq(Blocks), r # <<>>
  PROVE  Append(b, Head(r)) \o Tail(r) = b \o r
<1>1. Head(r) \in Blocks /\ Tail(r) \in Seq(Blocks) /\ r = <<Head(r)>> \o Tail(r)
  OBVIOUS
<1>2. Append(b, Head(r)) = b \o <<Head(r)>> /\ <<Head(r)>> \in Seq(Blocks)
  BY <1>1
<1>3. (b \o <<Head(r)>>) \o Tail(r) = b \o (<<Head(r)>> \o Tail(r))
  BY <1>1, <1>2, ConcatAssociative
<1> QED
  BY <1>1, <1>2, <1>3

(* The elements of a sequence.                                             *)
El(q) == {q[i] : i \in 1..Len(q)}

(* The elements of a concatenation.                                        *)
LEMMA ConcatElements ==
  ASSUME NEW S, NEW a \in Seq(S), NEW b \in Seq(S)
  PROVE  a \o b \in Seq(S) /\ El(a \o b) = El(a) \cup El(b)
<1>1. /\ a \o b \in Seq(S) /\ Len(a \o b) = Len(a) + Len(b)
      /\ Len(a) \in Nat /\ Len(b) \in Nat
  OBVIOUS
<1>2. ASSUME NEW i \in 1..Len(a)
      PROVE  i \in 1..Len(a \o b) /\ (a \o b)[i] = a[i]
  BY <1>1
<1>3. ASSUME NEW i \in 1..Len(b)
      PROVE  Len(a) + i \in 1..Len(a \o b) /\ (a \o b)[Len(a) + i] = b[i]
  BY <1>1
<1>4. ASSUME NEW i \in 1..Len(a \o b)
      PROVE  \/ i \in 1..Len(a) /\ (a \o b)[i] = a[i]
             \/ i - Len(a) \in 1..Len(b) /\ (a \o b)[i] = b[i - Len(a)]
  BY <1>1
<1> QED
  BY <1>1, <1>2, <1>3, <1>4 DEF El

(* The signatures that are there, header signatures first.                 *)
LEMMA SigTagsThere ==
  ASSUME PkgInv
  PROVE  /\ allSigTags \in Seq(SigTags) /\ headerSigTags \in Seq(SigTags)
         /\ El(allSigTags) = {t \in SigTags : pkg.tags[t] # NoSig}
<1>1. ASSUME NEW t \in SigTags
      PROVE  Present(t) \in Seq(SigTags) /\ El(Present(t)) = {u \in {t} : pkg.tags[u] # NoSig}
  BY <1>1 DEF Present, El
<1>2. /\ headerSigTags \in Seq(SigTags)
      /\ El(headerSigTags) = {u \in {"RSA", "DSA"} : pkg.tags[u] # NoSig}
  <2>1. "RSA" \in SigTags /\ "DSA" \in SigTags
    BY DEF SigTags
  <2>2. El(headerSigTags) = El(Present("RSA")) \cup El(Present("DSA"))
    BY <1>1, <2>1, ConcatElements DEF headerSigTags
  <2> QED
    BY <1>1, <2>1, <2>2, ConcatElements DEF headerSigTags
<1>3. /\ payloadSigTags \in Seq(SigTags)
      /\ El(payloadSigTags) = {u \in {"PGP", "GPG"} : pkg.tags[u] # NoSig}
  <2>1. "PGP" \in SigTags /\ "GPG" \in SigTags
    BY DEF SigTags
  <2>2. El(payloadSigTags) = El(Present("PGP")) \cup El(Present("GPG"))
    BY <1>1, <2>1, ConcatElements DEF payloadSigTags
  <2> QED
    BY <1>1, <2>1, <2>2, ConcatElements DEF payloadSigTags
<1>4. El(allSigTags) = El(headerSigTags) \cup El(payloadSigTags)
  BY <1>2, <1>3, ConcatElements DEF allSigTags
<1>5. allSigTags \in Seq(SigTags)
  BY <1>2, <1>3 DEF allSigTags
<1>6. El(allSigTags) = {t \in SigTags : pkg.tags[t] # NoSig}
  BY <1>2, <1>3, <1>4 DEF SigTags
<1> QED
  BY <1>2, <1>5, <1>6

(* One entry per signature that is there.                                  *)
LEMMA ExpectedFacts ==
  ASSUME PkgInv
  PROVE  /\ DOMAIN ExpectedSigs = 1..Len(allSigTags) /\ Len(allSigTags) \in Nat
         /\ Len(ExpectedSigs) = Len(allSigTags)
         /\ \A i \in 1..Len(allSigTags) :
              /\ ExpectedSigs[i].sig = pkg.tags[allSigTags[i]]
              /\ ExpectedSigs[i].sig \in SigType
              /\ ExpectedSigs[i].headerOnly = headerOnly(i)
              /\ headerOnly(i) \in BOOLEAN
         /\ {ExpectedSigs[i].sig : i \in 1..Len(allSigTags)} =
              {pkg.tags[t] : t \in SigTags} \ {NoSig}
<1>1. DOMAIN allSigTags = 1..Len(allSigTags) /\ Len(allSigTags) \in Nat
  BY SigTagsThere
<1>2. DOMAIN ExpectedSigs = 1..Len(allSigTags) /\ Len(ExpectedSigs) = Len(allSigTags)
  BY <1>1 DEF ExpectedSigs
<1>3. ASSUME NEW i \in 1..Len(allSigTags)
      PROVE  /\ ExpectedSigs[i].sig = pkg.tags[allSigTags[i]]
             /\ ExpectedSigs[i].headerOnly = headerOnly(i)
             /\ headerOnly(i) \in BOOLEAN /\ allSigTags[i] \in SigTags
  BY <1>1, <1>3, SigTagsThere DEF ExpectedSigs, headerOnly
<1>4. \A i \in 1..Len(allSigTags) : ExpectedSigs[i].sig \in SigType
  BY <1>3 DEF PkgInv, TagsOK
<1>5. {ExpectedSigs[i].sig : i \in 1..Len(allSigTags)} =
        {pkg.tags[t] : t \in El(allSigTags)}
  BY <1>3 DEF El
<1> QED
  BY <1>1, <1>2, <1>3, <1>4, <1>5, SigTagsThere

-----------------------------------------------------------------------------
(* The parts of a package and of what was built.                           *)
LEMMA PkgFields ==
  ASSUME PkgInv
  PROVE  /\ pkg.header \in Seq(Blocks) /\ pkg.payload \in Seq(Blocks)
         /\ pkg.digest \in DigestType /\ pkg.tags \in [Tags -> DigestType \cup SigType]
         /\ built.header \in Seq(Blocks) /\ built.payload \in Seq(Blocks)
         /\ \A t \in {"sha1", "sha256", "md5"} : pkg.tags[t] \in DigestType
         /\ \A t \in SigTags : pkg.tags[t] \in SigType
         /\ getHashAndType(pkg.tags) \in DigestType /\ getPayloadDigest \in DigestType
<1>1. /\ pkg.header \in Seq(Blocks) /\ pkg.payload \in Seq(Blocks)
      /\ pkg.digest \in DigestType /\ pkg.tags \in [Tags -> DigestType \cup SigType]
      /\ built.header \in Seq(Blocks) /\ built.payload \in Seq(Blocks)
  BY DEF PkgInv, PackageType
<1>2. /\ \A t \in {"sha1", "sha256", "md5"} : pkg.tags[t] \in DigestType
      /\ \A t \in SigTags : pkg.tags[t] \in SigType
  BY DEF PkgInv, TagsOK, Tags, SigTags
<1>3. getHashAndType(pkg.tags) \in DigestType /\ getPayloadDigest \in DigestType
  BY <1>1, <1>2, Digests DEF getHashAndType, getPayloadDigest
<1> QED
  BY <1>1, <1>2, <1>3

(* Steps that leave the package alone.                                     *)
LEMMA Frame ==
  ASSUME IInv, UNCHANGED fileVars
  PROVE  /\ PkgInv' /\ FreshInv'
         /\ HeaderMatches' <=> HeaderMatches
         /\ PayloadMatches' <=> PayloadMatches
         /\ ExpectedSigs' = ExpectedSigs
         /\ getPayloadDigest' = getPayloadDigest
<1> USE DEF fileVars
<1>1. PkgInv'
  BY DEF IInv, PkgInv
<1>2. HeaderMatches' <=> HeaderMatches
  BY DEF HeaderMatches
<1>3. getPayloadDigest' = getPayloadDigest
  BY DEF getPayloadDigest
<1>4. PayloadMatches' <=> PayloadMatches
  BY <1>3 DEF PayloadMatches
<1>5. ExpectedSigs' = ExpectedSigs
  BY DEF ExpectedSigs, allSigTags, headerOnly, headerSigTags, payloadSigTags, Present
<1>6. FreshInv'
  BY <1>2, <1>4 DEF IInv, FreshInv
<1> QED
  BY <1>1, <1>2, <1>3, <1>4, <1>5, <1>6

(* Initially no call has been made and the package is as built.            *)
LEMMA InitIInv == Init => IInv
<1> SUFFICES ASSUME Init PROVE IInv
  OBVIOUS
<1> USE DEF Init
<1>1. TypeOK
  BY DEF TypeOK
<1>2. PkgInv
  <2>1. /\ pkg \in PackageType /\ TagsOK(pkg.tags) /\ pkg.header # <<>>
        /\ pkg.digest.algo \in PayloadAlgos => pkg.digest.bytes = pkg.payload
        /\ \A t \in {"sha1", "sha256"} : pkg.tags[t] # None => pkg.tags[t].bytes = pkg.header
        /\ pkg.tags.md5 # None => pkg.tags.md5.bytes = pkg.header \o pkg.payload
    BY PackagesAssumption
  <2>2. pkg.header \in Seq(Blocks) /\ pkg.payload \in Seq(Blocks)
    BY <2>1 DEF PackageType
  <2>3. built.header = pkg.header /\ built.payload = pkg.payload
    OBVIOUS
  <2>4. built \in [header : Seq(Blocks), payload : Seq(Blocks)]
    BY <2>2
  <2> HIDE DEF Init
  <2>5. Len(pkg.header) \in Nat /\ Len(pkg.payload) \in Nat
    BY <2>2
  <2>6. Len(pkg.header) <= Len(built.header) /\ Len(pkg.payload) <= Len(built.payload)
    BY <2>3, <2>5
  <2> QED
    BY <2>1, <2>3, <2>4, <2>6, Zenon DEF PkgInv
<1>3. CallInv
  <2>1. hasher \in HasherType
    BY Digests DEF NoHasher, HasherType, AlgoNames
  <2> QED
    BY <2>1 DEF CallInv
<1>4. HeaderInv /\ HashInv /\ HasherInv /\ PayloadInv /\ ValidInv
  BY DEF HeaderInv, HashInv, HasherInv, PayloadInv, ValidInv
<1>5. FreshInv /\ FreshVerifyInv
  BY DEF FreshInv, FreshVerifyInv
<1> QED
  BY <1>1, <1>2, <1>3, <1>4, <1>5 DEF IInv

(* A call starts from nothing, with all of the payload to be read.         *)
LEMMA CallIInv ==
  ASSUME IInv, NEW name \in {"sign", "verify"}, NEW a, Call(name, a),
         name = "sign" => a \in [key : Keys, opts : Options],
         name = "verify" => a \in Rings
  PROVE  IInv'
<1> USE DEF Call
<1>1. PkgInv' /\ FreshInv'
  BY Frame
<1>2. TypeOK'
  BY DEF IInv, TypeOK, fileVars
<1>3. CallInv'
  <2>1. hasher' \in HasherType
    BY Digests DEF NoHasher, HasherType, AlgoNames
  <2>2. rest' \in Seq(Blocks) /\ rest' = pkg'.payload
    BY PkgFields DEF IInv, fileVars
  <2> QED
    BY <2>1, <2>2 DEF CallInv
<1>4. HeaderInv' /\ HashInv' /\ HasherInv' /\ PayloadInv' /\ ValidInv'
  BY DEF HeaderInv, HashInv, HasherInv, PayloadInv, ValidInv
<1>5. FreshVerifyInv'
  BY DEF FreshVerifyInv
<1> QED
  BY <1>1, <1>2, <1>3, <1>4, <1>5 DEF IInv

(* ReadHeader: a package just signed has the right digest.                 *)
LEMMA ReadHeaderIInv ==
  ASSUME IInv, ReadHeader
  PROVE  IInv'
<1> USE DEF ReadHeader, Return, Goto
<1>1. PkgInv' /\ FreshInv'
  BY Frame
<1>2. TypeOK'
  BY DEF IInv, TypeOK, fileVars, callVars
<1>3. CallInv'
  BY DEF IInv, CallInv, fileVars, callVars
<1>4. HeaderInv'
  <2>1. pc' # "setup" \/ HeaderMatches
    BY DEF HeaderMatches
  <2> QED
    BY <2>1, Frame DEF IInv, TypeOK, HeaderInv
<1>5. HashInv' /\ HasherInv' /\ PayloadInv' /\ ValidInv'
  BY DEF IInv, TypeOK, HashInv, HasherInv, PayloadInv, ValidInv
<1>6. FreshVerifyInv'
  BY DEF IInv, TypeOK, FreshInv, HeaderMatches, FreshVerifyInv, Known, fileVars, callVars
<1> QED
  BY <1>1, <1>2, <1>3, <1>4, <1>5, <1>6 DEF IInv

(* A call that fails reading or signing.                                   *)
LEMMA FailIInv ==
  ASSUME IInv, ReadFails \/ SignFails
  PROVE  IInv'
<1> USE DEF ReadFails, SignFails, Fail, Return
<1>1. PkgInv' /\ FreshInv'
  BY Frame
<1>2. TypeOK'
  BY DEF IInv, TypeOK, fileVars, callVars
<1>3. CallInv'
  BY DEF IInv, CallInv, fileVars, callVars
<1>4. HeaderInv' /\ HashInv' /\ HasherInv' /\ PayloadInv' /\ ValidInv'
  BY DEF HeaderInv, HashInv, HasherInv, PayloadInv, ValidInv
<1>5. FreshVerifyInv'
  BY DEF IInv, CallInv, FreshVerifyInv, Known, fileVars, callVars
<1> QED
  BY <1>1, <1>2, <1>3, <1>4, <1>5 DEF IInv

(* A new hash has been given the header, and all of the payload is to be   *)
(* read.                                                                   *)
LEMMA HashFields ==
  ASSUME PkgInv, NEW a \in AlgoNames, NEW p \in BOOLEAN
  PROVE  /\ Hash(a, p) \in HashType
         /\ Hash(a, p).algo = a /\ Hash(a, p).payload = p /\ Hash(a, p).bytes = pkg.header
BY PkgFields DEF Hash, HashType

(* DigestAndVerify: one hash per signature; a package just signed has only *)
(* signatures that parse, with hash functions that are linked in.          *)
LEMMA DigestAndVerifyIInv ==
  ASSUME IInv, DigestAndVerify
  PROVE  IInv'
<1>0. /\ PkgInv /\ op = "verify" /\ pc = "setup" /\ rest = pkg.payload
      /\ UNCHANGED <<pkg, built, fresh, op, arg, hasher, rest, valid>>
      /\ UNCHANGED fileVars
  BY DEF DigestAndVerify, IInv, CallInv, fileVars, callVars
<1>1. PkgInv' /\ FreshInv'
  BY <1>0, Frame
<1>2. CASE /\ \E i \in DOMAIN allSigTags : ~Usable(allSigTags[i])
           /\ pc' = "idle" /\ ret' \in {"bad signature", "panic"} /\ UNCHANGED <<sigs, hashes>>
  <2>1. TypeOK'
    BY <1>0, <1>2 DEF IInv, TypeOK
  <2>2. CallInv'
    BY <1>0, <1>2 DEF IInv, CallInv
  <2>3. HeaderInv' /\ HashInv' /\ HasherInv' /\ PayloadInv' /\ ValidInv'
    BY <1>2 DEF HeaderInv, HashInv, HasherInv, PayloadInv, ValidInv
  <2>4. fresh = Nil
    <3> SUFFICES ASSUME fresh # Nil PROVE FALSE
      OBVIOUS
    <3>1. PICK i \in DOMAIN allSigTags : ~Usable(allSigTags[i])
      BY <1>2
    <3>2. allSigTags[i] \in {t \in SigTags : pkg.tags[t] # NoSig}
      <4>1. i \in 1..Len(allSigTags)
        BY <1>0, <3>1, SigTagsThere
      <4> QED
        BY <1>0, <4>1, SigTagsThere DEF El
    <3>3. allSigTags[i] \in {"RSA", "PGP"}
      BY <3>2 DEF IInv, FreshInv, SigTags
    <3>4. /\ pkg.tags[allSigTags[i]].version = 4 /\ pkg.tags[allSigTags[i]].issuer = "id"
          /\ pkg.tags[allSigTags[i]].over.algo \in Algorithms
      BY <3>3 DEF IInv, FreshInv
    <3> QED
      BY <3>1, <3>4 DEF Usable, Parses
  <2>5. FreshVerifyInv'
    BY <1>0, <2>4 DEF FreshVerifyInv
  <2> QED
    BY <1>1, <2>1, <2>2, <2>3, <2>5 DEF IInv
<1>3. CASE /\ sigs' = ExpectedSigs /\ hashes' = sigHashes /\ pc' = "digest" /\ ret' = ret
  <2>1. /\ DOMAIN allSigTags = 1..Len(allSigTags) /\ Len(allSigTags) \in Nat
        /\ DOMAIN ExpectedSigs = 1..Len(allSigTags) /\ Len(ExpectedSigs) = Len(allSigTags)
    BY <1>0, SigTagsThere, ExpectedFacts
  <2>2. ASSUME NEW i \in 1..Len(allSigTags)
        PROVE  /\ hashes'[i] \in HashType
               /\ hashes'[i].algo = ExpectedSigs[i].sig.over.algo
               /\ hashes'[i].payload = ~ExpectedSigs[i].headerOnly
               /\ hashes'[i].bytes = pkg.header
    <3>1. /\ ExpectedSigs[i].sig = pkg.tags[allSigTags[i]]
          /\ ExpectedSigs[i].sig \in SigType
          /\ ExpectedSigs[i].headerOnly = headerOnly(i) /\ headerOnly(i) \in BOOLEAN
      BY <1>0, ExpectedFacts
    <3>0. pkg.tags[allSigTags[i]].over.algo \in AlgoNames
      BY <3>1 DEF SigType, DigestType
    <3>2. hashes'[i] = Hash(pkg.tags[allSigTags[i]].over.algo, ~headerOnly(i))
      BY <1>3, <2>1 DEF sigHashes
    <3> DEFINE a == pkg.tags[allSigTags[i]].over.algo
               p == ~headerOnly(i)
    <3>3. a \in AlgoNames /\ p \in BOOLEAN
      BY <3>0, Zenon
    <3>4. hashes'[i] = Hash(a, p)
      BY <3>2
    <3> HIDE DEF a, p
    <3>5. /\ hashes'[i] \in HashType /\ hashes'[i].algo = a /\ hashes'[i].payload = p
          /\ hashes'[i].bytes = pkg.header
      BY <1>0, <3>3, <3>4, HashFields
    <3> QED
      BY <3>1, <3>5, Zenon DEF a, p
  <2>3. hashes' \in Seq(HashType) /\ Len(hashes') = Len(allSigTags)
    <3>1. DOMAIN hashes' = 1..Len(allSigTags) /\ hashes' = [i \in 1..Len(allSigTags) |-> hashes'[i]]
      BY <1>3, <2>1 DEF sigHashes
    <3>2. \A i \in 1..Len(allSigTags) : hashes'[i] \in HashType
      BY <2>2
    <3> QED
      BY <2>1, <3>1, <3>2
  <2>4. TypeOK'
    BY <1>0, <1>3, <2>1, <2>3 DEF IInv, TypeOK, CallInv, ValidInv
  <2>5. CallInv'
    BY <1>0, <1>3, <2>3 DEF IInv, TypeOK, CallInv
  <2>6. HeaderInv'
    BY <1>0, <1>3, Frame DEF IInv, TypeOK, HeaderInv
  <2>7. HashInv'
    <3>1. ASSUME NEW i \in 1..Len(hashes')
          PROVE  Covers(hashes[i])'
      BY <1>0, <2>2, <2>3 DEF Covers
    <3>2. sigs' = ExpectedSigs' /\ Len(hashes') = Len(sigs')
      BY <1>0, <1>3, <2>1, <2>3, Frame
    <3> QED
      BY <1>0, <1>3, <2>2, <2>3, <3>1, <3>2 DEF HashInv
  <2>8. HasherInv' /\ PayloadInv' /\ ValidInv'
    BY <1>0, <1>3 DEF IInv, TypeOK, HasherInv, PayloadInv, ValidInv
  <2>9. FreshVerifyInv'
    BY <1>0, <1>3 DEF IInv, TypeOK, FreshVerifyInv
  <2> QED
    BY <1>1, <2>4, <2>5, <2>6, <2>7, <2>8, <2>9 DEF IInv
<1> QED
  BY <1>2, <1>3 DEF ExpectedSigs, DigestAndVerify, Return, Goto

(* DigestForSigning: a hash of the header and one of all of it.            *)
LEMMA DigestForSigningIInv ==
  ASSUME IInv, DigestForSigning
  PROVE  IInv'
<1>0. /\ PkgInv /\ op = "sign" /\ pc = "setup" /\ rest = pkg.payload
      /\ UNCHANGED <<pkg, built, fresh, op, arg, sigs, hasher, rest, valid>>
      /\ UNCHANGED fileVars
  BY DEF DigestForSigning, IInv, CallInv, fileVars, callVars
<1>1. PkgInv' /\ FreshInv' /\ FreshVerifyInv'
  BY <1>0, Frame DEF FreshVerifyInv
<1>2. CASE pc' = "idle" /\ ret' = "panic" /\ UNCHANGED hashes
  <2>1. TypeOK' /\ CallInv'
    BY <1>0, <1>2 DEF IInv, TypeOK, CallInv
  <2>2. HeaderInv' /\ HashInv' /\ HasherInv' /\ PayloadInv' /\ ValidInv'
    BY <1>2 DEF HeaderInv, HashInv, HasherInv, PayloadInv, ValidInv
  <2> QED
    BY <1>1, <2>1, <2>2 DEF IInv
<1>3. CASE \E a \in Algorithms :
             hashes' = <<Hash(a, FALSE), Hash(a, TRUE)>> /\ pc' = "digest" /\ ret' = ret
  <2>1. PICK a \in Algorithms : hashes' = <<Hash(a, FALSE), Hash(a, TRUE)>>
    BY <1>3
  <2>2. /\ \A p \in BOOLEAN : Hash(a, p) \in HashType /\ Hash(a, p).payload = p
        /\ \A p \in BOOLEAN : Hash(a, p).algo \in Algorithms
        /\ \A p \in BOOLEAN : Hash(a, p).bytes = pkg.header
    BY <1>0, HashFields DEF AlgoNames
  <2>3. /\ hashes' \in Seq(HashType) /\ Len(hashes') = 2
        /\ hashes'[1] = Hash(a, FALSE) /\ hashes'[2] = Hash(a, TRUE)
    <3> DEFINE g == Hash(a, FALSE)
               c == Hash(a, TRUE)
    <3>1. hashes' = <<g, c>> /\ g \in HashType /\ c \in HashType
      BY <2>1, <2>2
    <3> HIDE DEF g, c
    <3>2. hashes' \in Seq(HashType) /\ Len(hashes') = 2 /\ hashes'[1] = g /\ hashes'[2] = c
      BY <3>1
    <3> QED
      BY <3>2 DEF g, c
  <2>4. TypeOK' /\ CallInv'
    BY <1>0, <1>3, <2>3 DEF IInv, TypeOK, CallInv
  <2>5. HeaderInv'
    BY <1>0, <1>3, Frame DEF IInv, TypeOK, HeaderInv
  <2>6. HashInv'
    <3>1. Covers(hashes[1])' /\ Covers(hashes[2])'
      BY <1>0, <2>2, <2>3 DEF Covers
    <3> QED
      <4>1. /\ ~hashes'[1].payload /\ hashes'[2].payload
            /\ hashes'[1].algo \in Algorithms /\ hashes'[2].algo \in Algorithms
        BY <2>2, <2>3, Zenon
      <4>2. \A i \in 1..2 : Covers(hashes[i])'
        BY <3>1
      <4> QED
        BY <1>0, <2>3, <4>1, <4>2 DEF HashInv
  <2>7. HasherInv' /\ PayloadInv' /\ ValidInv'
    BY <1>0, <1>3 DEF IInv, TypeOK, HasherInv, PayloadInv, ValidInv
  <2> QED
    BY <1>1, <2>4, <2>5, <2>6, <2>7 DEF IInv
<1> QED
  BY <1>2, <1>3 DEF DigestForSigning, Return, Goto

(* DigestPayload: nothing has been copied yet.                             *)
LEMMA DigestPayloadIInv ==
  ASSUME IInv, DigestPayload
  PROVE  IInv'
<1>0. /\ PkgInv /\ pc = "digest" /\ rest = pkg.payload /\ rest \in Seq(Blocks)
      /\ UNCHANGED <<pkg, built, fresh, op, arg, sigs, hashes, rest, valid>>
      /\ UNCHANGED fileVars /\ hasher \in HasherType
  BY DEF DigestPayload, IInv, CallInv, fileVars, callVars
<1>1. PkgInv' /\ FreshInv'
  BY <1>0, Frame
<1>2. CASE pc' = "idle" /\ ret' \notin {"ok", "running"} /\ UNCHANGED hasher /\ ~PayloadMatches
  <2>1. TypeOK' /\ CallInv'
    BY <1>0, <1>2 DEF IInv, TypeOK, CallInv
  <2>2. HeaderInv' /\ HashInv' /\ HasherInv' /\ PayloadInv' /\ ValidInv'
    BY <1>2 DEF HeaderInv, HashInv, HasherInv, PayloadInv, ValidInv
  <2>3. FreshVerifyInv'
    BY <1>0, <1>2 DEF IInv, FreshInv, FreshVerifyInv
  <2> QED
    BY <1>1, <2>1, <2>2, <2>3 DEF IInv
<1>3. CASE /\ pc' = "copy" /\ ret' = ret /\ hasher' \in HasherType /\ HasherInv'
  <2>1. TypeOK' /\ CallInv'
    BY <1>0, <1>3 DEF IInv, TypeOK, CallInv
  <2>2. HeaderInv'
    BY <1>0, <1>3, Frame DEF IInv, TypeOK, HeaderInv
  <2>3. HashInv'
    BY <1>0, <1>3, Frame DEF IInv, TypeOK, HashInv, Covers
  <2>4. PayloadInv' /\ ValidInv'
    BY <1>0, <1>3 DEF IInv, TypeOK, PayloadInv, ValidInv
  <2>5. FreshVerifyInv'
    BY <1>0, <1>3 DEF IInv, TypeOK, FreshVerifyInv
  <2> QED
    BY <1>1, <1>3, <2>1, <2>2, <2>3, <2>4, <2>5 DEF IInv
<1>4. getPayloadDigest \in DigestType /\ pkg.tags.md5 \in DigestType /\ pkg.header \in Seq(Blocks)
  BY <1>0, PkgFields
<1>5. CASE getPayloadDigest # None /\ getPayloadDigest.algo \notin Algorithms
  BY <1>2, <1>5 DEF DigestPayload, Return, PayloadMatches
<1>6. CASE getPayloadDigest = None /\ pkg.tags.md5 = None
  BY <1>2, <1>6 DEF DigestPayload, Return, PayloadMatches
<1>7. CASE getPayloadDigest # None /\ getPayloadDigest.algo \in Algorithms
  <2> DEFINE w == getPayloadDigest
  <2>1. /\ pc' = "copy" /\ ret' = ret
        /\ hasher' = [algo |-> w.algo, bytes |-> <<>>, want |-> w]
    BY <1>7 DEF DigestPayload, Goto
  <2>2. hasher' \in HasherType
    BY <1>4, <1>7, <2>1 DEF HasherType, AlgoNames
  <2>3. hasher'.algo = w.algo /\ hasher'.bytes = <<>> /\ hasher'.want = w
    BY <2>1
  <2>4. hasher'.bytes \o rest' = pkg'.payload
    BY <1>0, <2>3
  <2>5. HasherInv'
    BY <1>0, <1>7, <2>3, <2>4, Frame DEF HasherInv
  <2> QED
    BY <1>3, <2>1, <2>2, <2>5
<1>8. CASE getPayloadDigest = None /\ pkg.tags.md5 # None
  <2>1. /\ pc' = "copy" /\ ret' = ret
        /\ hasher' = [algo |-> "MD5", bytes |-> pkg.header, want |-> pkg.tags.md5]
    BY <1>8 DEF DigestPayload, Goto
  <2>2. hasher' \in HasherType
    BY <1>4, <2>1, HashAssumption DEF HasherType, AlgoNames
  <2>3. hasher'.algo = "MD5" /\ hasher'.bytes = pkg.header /\ hasher'.want = pkg.tags.md5
    BY <2>1
  <2>4. hasher'.bytes \o rest' = pkg'.header \o pkg'.payload
    BY <1>0, <2>3
  <2>5. HasherInv'
    BY <1>0, <1>8, <2>3, <2>4, Frame DEF HasherInv
  <2> QED
    BY <1>3, <2>1, <2>2, <2>5
<1> QED
  BY <1>5, <1>6, <1>7, <1>8

(* A block is written to a hash.                                           *)
LEMMA HashWrite ==
  ASSUME NEW h \in HashType, NEW b \in Blocks
  PROVE  LET w == [h EXCEPT !.bytes = Append(@, b)] IN
         /\ w \in HashType /\ w.algo = h.algo /\ w.payload = h.payload
         /\ w.bytes = Append(h.bytes, b)
<1>1. h.bytes \in Seq(Blocks) /\ Append(h.bytes, b) \in Seq(Blocks)
  BY DEF HashType
<1> DEFINE c == Append(h.bytes, b)
<1> HIDE DEF c
<1>2. c \in Seq(Blocks)
  BY <1>1 DEF c
<1>3. LET w == [h EXCEPT !.bytes = c] IN
      w \in HashType /\ w.algo = h.algo /\ w.payload = h.payload /\ w.bytes = c
  BY <1>2 DEF HashType
<1> QED
  BY <1>3 DEF c

(* What a hash has absorbed after one more write.                          *)
LEMMA HasherWrite ==
  ASSUME NEW h \in HasherType, NEW b \in Blocks
  PROVE  LET w == [h EXCEPT !.bytes = Append(@, b)] IN
         /\ w \in HasherType /\ w.algo = h.algo /\ w.want = h.want
         /\ w.bytes = Append(h.bytes, b)
<1>1. h.bytes \in Seq(Blocks) /\ Append(h.bytes, b) \in Seq(Blocks)
  BY DEF HasherType
<1> DEFINE c == Append(h.bytes, b)
<1> HIDE DEF c
<1>2. c \in Seq(Blocks)
  BY <1>1 DEF c
<1>3. LET w == [h EXCEPT !.bytes = c] IN
      w \in HasherType /\ w.algo = h.algo /\ w.want = h.want /\ w.bytes = c
  BY <1>2 DEF HasherType
<1> QED
  BY <1>3 DEF c

(* CopyBlock: the block goes to the payload's hash and to every hash that  *)
(* covers the payload.                                                     *)
LEMMA CopyBlockIInv ==
  ASSUME IInv, CopyBlock
  PROVE  IInv'
<1>0. /\ PkgInv /\ pc = "copy" /\ rest # <<>> /\ rest \in Seq(Blocks) /\ rest' = Tail(rest)
      /\ UNCHANGED <<pkg, built, fresh, op, arg, pc, sigs, valid, ret>>
      /\ UNCHANGED fileVars /\ hashes \in Seq(HashType) /\ hasher \in HasherType
  BY DEF CopyBlock, IInv, CallInv, fileVars, callVars
<1>1. Head(rest) \in Blocks /\ rest' \in Seq(Blocks)
  BY <1>0
<1>2. PkgInv' /\ FreshInv' /\ FreshVerifyInv'
  <2>1. FreshVerifyInv'
    BY <1>0 DEF IInv, FreshVerifyInv, Known
  <2> QED
    BY <1>0, <2>1, Frame
<1>3. /\ hasher' \in HasherType /\ hasher'.algo = hasher.algo /\ hasher'.want = hasher.want
      /\ hasher'.bytes = Append(hasher.bytes, Head(rest))
  <2>1. hasher' = [hasher EXCEPT !.bytes = Append(@, Head(rest))]
    BY DEF CopyBlock
  <2> QED
    BY <1>0, <1>1, <2>1, HasherWrite
<1>4. ASSUME NEW i \in 1..Len(hashes)
      PROVE  /\ hashes'[i] \in HashType /\ hashes'[i].algo = hashes[i].algo
             /\ hashes'[i].payload = hashes[i].payload
             /\ hashes'[i].bytes = IF hashes[i].payload THEN Append(hashes[i].bytes, Head(rest))
                                   ELSE hashes[i].bytes
  <2>1. hashes[i] \in HashType
    BY <1>0
  <2>2. hashes'[i] = IF hashes[i].payload
                     THEN [hashes[i] EXCEPT !.bytes = Append(@, Head(rest))] ELSE hashes[i]
    <3>1. i \in DOMAIN hashes
      BY <1>0
    <3>2. hashes' = [j \in DOMAIN hashes |->
                       IF hashes[j].payload
                       THEN [hashes[j] EXCEPT !.bytes = Append(@, Head(rest))]
                       ELSE hashes[j]]
      BY DEF CopyBlock
    <3> QED
      BY <3>1, <3>2, Zenon
  <2>3. CASE hashes[i].payload
    <3>1. hashes'[i] = [hashes[i] EXCEPT !.bytes = Append(@, Head(rest))]
      BY <2>2, <2>3
    <3> QED
      BY <1>1, <2>1, <2>3, <3>1, HashWrite
  <2>4. CASE ~hashes[i].payload
    BY <2>1, <2>2, <2>4
  <2> QED
    BY <2>3, <2>4
<1>5. hashes' \in Seq(HashType) /\ Len(hashes') = Len(hashes)
  <2>1. DOMAIN hashes' = 1..Len(hashes) /\ hashes' = [i \in 1..Len(hashes) |-> hashes'[i]]
    BY <1>0 DEF CopyBlock
  <2>2. Len(hashes) \in Nat /\ \A i \in 1..Len(hashes) : hashes'[i] \in HashType
    BY <1>0, <1>4
  <2> QED
    BY <2>1, <2>2
<1>6. TypeOK' /\ CallInv'
  BY <1>0, <1>1, <1>3, <1>5 DEF IInv, TypeOK, CallInv
<1>7. HeaderInv' /\ PayloadInv' /\ ValidInv'
  BY <1>0, Frame DEF IInv, TypeOK, HeaderInv, PayloadInv, ValidInv
<1>8. HashInv'
  <2>1. ASSUME NEW i \in 1..Len(hashes')
        PROVE  Covers(hashes[i])'
    <3>1. /\ i \in 1..Len(hashes) /\ hashes[i] \in HashType /\ hashes[i].bytes \in Seq(Blocks)
          /\ Covers(hashes[i])
      <4>1. i \in 1..Len(hashes) /\ hashes[i] \in HashType
        BY <1>0, <1>5
      <4>2. Covers(hashes[i])
        BY <1>0, <4>1 DEF IInv, HashInv
      <4> QED
        BY <4>1, <4>2 DEF HashType
    <3>2. CASE hashes[i].payload
      <4>1. hashes'[i].bytes \o rest' = hashes[i].bytes \o rest
        BY <1>0, <1>4, <3>1, <3>2, CopyOne
      <4> QED
        BY <1>0, <1>4, <3>1, <3>2, <4>1 DEF Covers
    <3>3. CASE ~hashes[i].payload
      BY <1>0, <1>4, <3>1, <3>3 DEF Covers
    <3> QED
      BY <3>2, <3>3
  <2>2. /\ op' = op /\ sigs' = sigs /\ ExpectedSigs' = ExpectedSigs
    BY <1>0, Frame
  <2> QED
    BY <1>0, <1>4, <1>5, <2>1, <2>2 DEF IInv, HashInv
<1>9. HasherInv'
  <2>1. hasher.bytes \in Seq(Blocks)
    BY <1>0 DEF HasherType
  <2>2. hasher'.bytes \o rest' = hasher.bytes \o rest
    BY <1>0, <1>3, <2>1, CopyOne
  <2> QED
    BY <1>0, <1>3, <2>2, Frame DEF IInv, HasherInv
<1> QED
  BY <1>2, <1>6, <1>7, <1>8, <1>9 DEF IInv

(* CompareDigest: the digest that is compared is of all of the payload.    *)
LEMMA CompareDigestIInv ==
  ASSUME IInv, CompareDigest
  PROVE  IInv'
<1>0. /\ PkgInv /\ pc = "copy" /\ rest = <<>> /\ hasher \in HasherType
      /\ UNCHANGED <<pkg, built, fresh, op, arg, sigs, hashes, hasher, rest, valid>>
      /\ UNCHANGED fileVars /\ op \in {"sign", "verify"} /\ ret = "running"
  BY DEF CompareDigest, IInv, TypeOK, CallInv, fileVars, callVars
<1>1. PkgInv' /\ FreshInv'
  BY <1>0, Frame
<1>2. Digest(hasher.algo, hasher.bytes) = hasher.want <=> PayloadMatches
  <2>1. hasher.bytes \o rest = hasher.bytes
    BY <1>0 DEF HasherType
  <2> QED
    BY <1>0, <2>1, Digests DEF IInv, HasherInv, PayloadMatches
<1>3. CASE ~PayloadMatches /\ pc' = "idle" /\ ret' = "payload mismatch"
  <2>1. TypeOK' /\ CallInv'
    BY <1>0, <1>3 DEF IInv, TypeOK, CallInv
  <2>2. HeaderInv' /\ HashInv' /\ HasherInv' /\ PayloadInv' /\ ValidInv'
    BY <1>3 DEF HeaderInv, HashInv, HasherInv, PayloadInv, ValidInv
  <2>3. FreshVerifyInv'
    BY <1>0, <1>3 DEF IInv, FreshInv, FreshVerifyInv
  <2> QED
    BY <1>1, <2>1, <2>2, <2>3 DEF IInv
<1>4. CASE /\ PayloadMatches /\ ret' = ret
           /\ pc' = (IF op = "sign" THEN "insert" ELSE "validate")
  <2>1. TypeOK'
    BY <1>0, <1>4 DEF IInv, TypeOK, HashInv
  <2>2. CallInv'
    BY <1>0, <1>4 DEF IInv, CallInv
  <2>3. HeaderInv' /\ PayloadInv'
    BY <1>0, <1>4, Frame DEF IInv, HeaderInv, PayloadInv
  <2>4. HashInv'
    BY <1>0, <1>4, Frame DEF IInv, HashInv, Covers
  <2>5. HasherInv'
    BY <1>4 DEF HasherInv
  <2>6. ValidInv'
    BY <1>0, <1>4 DEF IInv, TypeOK, ValidInv
  <2>7. FreshVerifyInv'
    BY <1>0, <1>4 DEF FreshVerifyInv
  <2> QED
    BY <1>1, <2>1, <2>2, <2>3, <2>4, <2>5, <2>6, <2>7 DEF IInv
<1> QED
  BY <1>2, <1>3, <1>4 DEF CompareDigest, Return, Goto

(* A package just signed has one signature over the header and one over    *)
(* all of it, both by the key that signed it.                              *)
LEMMA FreshSigs ==
  ASSUME PkgInv, FreshInv, fresh # Nil
  PROVE  /\ allSigTags = <<"RSA", "PGP">> /\ Len(allSigTags) = 2
         /\ ExpectedSigs[1].headerOnly /\ ~ExpectedSigs[2].headerOnly
         /\ \A i \in 1..2 :
              /\ ExpectedSigs[i].sig.key = fresh
              /\ ExpectedSigs[i].sig.over \in DigestType
              /\ ExpectedSigs[i].sig.over.bytes =
                   IF ExpectedSigs[i].headerOnly THEN pkg.header ELSE pkg.header \o pkg.payload
<1>1. pkg.tags["RSA"] # NoSig /\ pkg.tags["PGP"] # NoSig
  BY Digests DEF FreshInv
<1>2. headerSigTags = <<"RSA">> /\ payloadSigTags = <<"PGP">>
  <2>1. /\ Present("RSA") = <<"RSA">> /\ Present("DSA") = <<>>
        /\ Present("PGP") = <<"PGP">> /\ Present("GPG") = <<>>
    BY <1>1 DEF FreshInv, Present
  <2>2. <<"RSA">> \in Seq(SigTags) /\ <<"PGP">> \in Seq(SigTags)
    BY DEF SigTags
  <2> QED
    BY <2>1, <2>2, ConcatEmptySeq DEF headerSigTags, payloadSigTags
<1>3. allSigTags = <<"RSA", "PGP">> /\ Len(headerSigTags) = 1
  <2>1. <<"RSA">> \in Seq(SigTags) /\ "PGP" \in SigTags
    BY DEF SigTags
  <2>2. Append(<<"RSA">>, "PGP") = <<"RSA">> \o <<"PGP">>
    BY <2>1, AppendIsConcat
  <2>3. Append(<<"RSA">>, "PGP") = <<"RSA", "PGP">>
    <3> DEFINE q == Append(<<"RSA">>, "PGP")
               r == <<"RSA", "PGP">>
    <3>1. q \in Seq(SigTags) /\ Len(q) = 2 /\ q[1] = "RSA" /\ q[2] = "PGP"
      BY <2>1
    <3>2. r \in Seq(SigTags) /\ Len(r) = 2 /\ r[1] = "RSA" /\ r[2] = "PGP"
      BY <2>1
    <3> HIDE DEF q, r
    <3>3. q = r
      BY <3>1, <3>2, SeqEqual
    <3> QED
      BY <3>3 DEF q, r
  <2> QED
    BY <1>2, <2>2, <2>3 DEF allSigTags
<1>4. Len(allSigTags) = 2 /\ allSigTags[1] = "RSA" /\ allSigTags[2] = "PGP"
  BY <1>3
<1>5. \A i \in 1..2 :
        /\ ExpectedSigs[i].sig = pkg.tags[allSigTags[i]]
        /\ ExpectedSigs[i].sig \in SigType
        /\ ExpectedSigs[i].headerOnly = headerOnly(i)
  BY <1>4, ExpectedFacts
<1>6. headerOnly(1) /\ ~headerOnly(2)
  BY <1>3 DEF headerOnly
<1>7. ExpectedSigs[1].sig = pkg.tags["RSA"] /\ ExpectedSigs[2].sig = pkg.tags["PGP"]
  BY <1>4, <1>5
<1>8. ExpectedSigs[1].headerOnly /\ ~ExpectedSigs[2].headerOnly
  BY <1>5, <1>6
<1>9. \A i \in 1..2 : ExpectedSigs[i].sig.over \in DigestType
  BY <1>5 DEF SigType
<1>10. /\ ExpectedSigs[1].sig.key = fresh /\ ExpectedSigs[2].sig.key = fresh
       /\ ExpectedSigs[1].sig.over.bytes = pkg.header
       /\ ExpectedSigs[2].sig.over.bytes = pkg.header \o pkg.payload
  BY <1>7 DEF FreshInv
<1>11. \A i \in 1..2 : i = 1 \/ i = 2
  OBVIOUS
<1> QED
  BY <1>3, <1>4, <1>8, <1>9, <1>10, <1>11

(* When all has been read, a hash is of the header, or of all of it.       *)
LEMMA HashComplete ==
  ASSUME IInv, pc \in {"validate", "insert"} \/ ret = "ok", NEW i \in 1..Len(hashes)
  PROVE  hashes[i].bytes = IF hashes[i].payload THEN pkg.header \o pkg.payload ELSE pkg.header
<1>1. hashes \in Seq(HashType) /\ rest = <<>> /\ Covers(hashes[i])
  BY DEF IInv, CallInv, HashInv
<1>2. hashes[i] \in HashType
  BY <1>1
<1>3. hashes[i].bytes \in Seq(Blocks)
  BY <1>2 DEF HashType
<1>4. hashes[i].bytes \o rest = hashes[i].bytes
  BY <1>1, <1>3
<1> QED
  BY <1>1, <1>4 DEF Covers

(* Validate: signatures are validated in order; those of a package just    *)
(* signed are right.                                                       *)
LEMMA ValidateIInv ==
  ASSUME IInv, Validate
  PROVE  IInv'
<1>0. /\ PkgInv /\ pc = "validate" /\ op = "verify" /\ ret = "running"
      /\ sigs = ExpectedSigs /\ Len(hashes) = Len(sigs) /\ valid \in 0..Len(sigs)
      /\ UNCHANGED <<pkg, built, fresh, op, arg, sigs, hashes, hasher, rest>>
      /\ UNCHANGED fileVars
  BY DEF Validate, IInv, TypeOK, CallInv, HashInv, fileVars, callVars
<1>a. Len(sigs) = Len(allSigTags) /\ Len(sigs) \in Nat /\ DOMAIN sigs = 1..Len(sigs)
  BY <1>0, ExpectedFacts
<1>1. PkgInv' /\ FreshInv'
  BY <1>0, Frame
<1>2. CASE pc' = "idle" /\ ret' \in {"key not found", "bad signature"} /\ UNCHANGED valid
           /\ arg # Nil /\ valid # Len(sigs)
           /\ \/ ~findKey(sigs[valid + 1].sig.key)
              \/ sigs[valid + 1].sig.over # Digest(hashes[valid + 1].algo, hashes[valid + 1].bytes)
  <2>1. TypeOK' /\ CallInv'
    BY <1>0, <1>2 DEF IInv, TypeOK, CallInv
  <2>2. HeaderInv' /\ HashInv' /\ HasherInv' /\ PayloadInv' /\ ValidInv'
    BY <1>2 DEF HeaderInv, HashInv, HasherInv, PayloadInv, ValidInv
  <2>3. FreshVerifyInv'
    <3> SUFFICES ASSUME fresh # Nil, Known PROVE FALSE
      BY <1>0 DEF FreshVerifyInv, Known
    <3> DEFINE i == valid + 1
    <3>1. i \in 1..2 /\ i \in 1..Len(hashes) /\ Len(hashes) = 2
      <4>1. Len(allSigTags) = 2
        BY <1>0, FreshSigs DEF IInv
      <4>2. Len(sigs) = 2 /\ Len(hashes) = 2
        BY <1>0, <1>a, <4>1
      <4>3. valid \in 0..2 /\ valid # 2
        BY <1>0, <1>2, <4>2
      <4> QED
        BY <4>2, <4>3
    <3>2. findKey(sigs[i].sig.key)
      BY <1>0, <1>2, <3>1, FreshSigs DEF IInv, Known, findKey
    <3>3. hashes[i].bytes = IF hashes[i].payload THEN pkg.header \o pkg.payload ELSE pkg.header
      BY <1>0, <3>1, HashComplete
    <3>4. /\ hashes[i].algo = sigs[i].sig.over.algo
          /\ hashes[i].payload = ~sigs[i].headerOnly
      BY <1>0, <3>1 DEF IInv, HashInv
    <3>5. sigs[i].sig.over.bytes = hashes[i].bytes
      BY <1>0, <3>1, <3>3, <3>4, FreshSigs DEF IInv
    <3>6. sigs[i].sig.over \in DigestType
      BY <1>0, <3>1, FreshSigs DEF IInv
    <3>7. sigs[i].sig.over = Digest(hashes[i].algo, hashes[i].bytes)
      BY <3>4, <3>5, <3>6, Digests
    <3> QED
      BY <1>2, <3>2, <3>7
  <2> QED
    BY <1>1, <2>1, <2>2, <2>3 DEF IInv
<1>3. CASE \/ /\ valid = Len(sigs) /\ valid' = valid /\ pc' = "idle" /\ ret' = "ok"
           \/ /\ valid # Len(sigs) /\ valid' = valid + 1 /\ pc' = pc /\ ret' = ret
              /\ arg # Nil =>
                   /\ findKey(sigs[valid + 1].sig.key)
                   /\ sigs[valid + 1].sig.over =
                        Digest(hashes[valid + 1].algo, hashes[valid + 1].bytes)
  <2>1. TypeOK'
    BY <1>0, <1>a, <1>3 DEF IInv, TypeOK
  <2>2. CallInv'
    BY <1>0, <1>3 DEF IInv, CallInv
  <2>3. HeaderInv' /\ PayloadInv'
    BY <1>0, <1>3, Frame DEF IInv, HeaderInv, PayloadInv
  <2>4. HashInv'
    BY <1>0, <1>3, Frame DEF IInv, HashInv, Covers
  <2>5. HasherInv'
    BY <1>0, <1>3 DEF HasherInv
  <2>6. ValidInv'
    <3>1. arg # Nil => \A j \in 1..valid' :
                         /\ findKey(sigs[j].sig.key)
                         /\ sigs[j].sig.over = Digest(hashes[j].algo, hashes[j].bytes)
      BY <1>0, <1>a, <1>3 DEF IInv, ValidInv
    <3>2. \A k : findKey(k)' <=> findKey(k)
      BY <1>0 DEF findKey
    <3>3. valid' \in 0..Len(sigs) /\ (ret' = "ok" => valid' = Len(sigs))
      BY <1>0, <1>a, <1>3
    <3> QED
      BY <1>0, <1>3, <3>1, <3>2, <3>3 DEF ValidInv
  <2>7. FreshVerifyInv'
    BY <1>0, <1>3 DEF FreshVerifyInv
  <2> QED
    BY <1>1, <2>1, <2>2, <2>3, <2>4, <2>5, <2>6, <2>7 DEF IInv
<1> QED
  BY <1>0, <1>2, <1>3 DEF Validate, Return, Goto

(* The signature that is made over what a hash was given.                  *)
LEMMA SignatureFields ==
  ASSUME NEW h \in HashType, arg.key \in Keys
  PROVE  /\ makeSignature(h) \in SigType
         /\ makeSignature(h).key = arg.key /\ makeSignature(h).version = 4
         /\ makeSignature(h).issuer = "id" /\ makeSignature(h).over.bytes = h.bytes
         /\ makeSignature(h).over.algo = h.algo
<1> DEFINE d == Digest(h.algo, h.bytes)
<1>1. h.algo \in AlgoNames /\ h.bytes \in Seq(Blocks)
  BY DEF HashType
<1>2. d \in DigestType /\ d.bytes = h.bytes /\ d.algo = h.algo
  BY <1>1, Digests
<1> HIDE DEF d
<1>3. makeSignature(h) = [key |-> arg.key, over |-> d, version |-> 4, issuer |-> "id"]
  BY DEF makeSignature, d
<1> QED
  BY <1>2, <1>3 DEF SigType

(* insertSignatures leaves the digests alone.                              *)
LEMMA InsertedTags ==
  ASSUME IInv, pc = "insert"
  PROVE  LET tags == insertSignatures(pkg.tags) IN
         /\ tags \in [Tags -> DigestType \cup SigType]
         /\ tags["RSA"] = makeSignature(hashes[1]) /\ tags["PGP"] = makeSignature(hashes[2])
         /\ tags["DSA"] = NoSig /\ tags["GPG"] = NoSig
         /\ \A t \in Tags \ SigTags : tags[t] = pkg.tags[t]
         /\ hashes[1] \in HashType /\ hashes[2] \in HashType /\ arg.key \in Keys
<1>1. /\ Len(hashes) = 2 /\ hashes \in Seq(HashType) /\ arg.key \in Keys
  BY DEF IInv, CallInv, HashInv
<1>2. hashes[1] \in HashType /\ hashes[2] \in HashType
  BY <1>1
<1>3. makeSignature(hashes[1]) \in SigType /\ makeSignature(hashes[2]) \in SigType
  BY <1>1, <1>2, SignatureFields
<1>4. pkg.tags \in [Tags -> DigestType \cup SigType] /\ NoSig \in SigType
  BY PkgFields, Digests DEF IInv
<1>5. {"RSA", "PGP", "DSA", "GPG"} = SigTags /\ SigTags \subseteq Tags
  BY DEF SigTags, Tags
<1> QED
  BY <1>1, <1>2, <1>3, <1>4, <1>5 DEF insertSignatures

(* Insert: a package whose digests are right is signed over all of it.     *)
LEMMA InsertIInv ==
  ASSUME IInv, Insert
  PROVE  IInv'
<1> DEFINE tags == insertSignatures(pkg.tags)
<1>0. /\ PkgInv /\ pc = "insert" /\ op = "sign" /\ pc' = "idle" /\ ret' = "ok"
      /\ fresh' = arg.key /\ pkg' = [pkg EXCEPT !.tags = tags]
      /\ UNCHANGED <<built, op, arg, sigs, hashes, hasher, rest, valid>>
  BY DEF Insert, Return, IInv, CallInv, callVars
<1>1. /\ tags \in [Tags -> DigestType \cup SigType]
      /\ tags["RSA"] = makeSignature(hashes[1]) /\ tags["PGP"] = makeSignature(hashes[2])
      /\ tags["DSA"] = NoSig /\ tags["GPG"] = NoSig
      /\ \A t \in Tags \ SigTags : tags[t] = pkg.tags[t]
      /\ hashes[1] \in HashType /\ hashes[2] \in HashType /\ arg.key \in Keys
  BY <1>0, InsertedTags
<1> HIDE DEF tags
<1>2. /\ pkg' \in PackageType /\ pkg'.tags = tags /\ pkg'.header = pkg.header
      /\ pkg'.payload = pkg.payload /\ pkg'.digest = pkg.digest
  BY <1>0, <1>1 DEF PkgInv, PackageType
<1>3. /\ pkg'.tags.sha1 = pkg.tags.sha1 /\ pkg'.tags.sha256 = pkg.tags.sha256
      /\ pkg'.tags.md5 = pkg.tags.md5
  BY <1>1, <1>2 DEF Tags, SigTags
<1>4. PkgInv'
  <2>1. TagsOK(pkg'.tags)
    <3>1. \A t \in SigTags : tags[t] \in SigType
      BY <1>1, SignatureFields, Digests DEF SigTags
    <3>2. \A t \in Tags \ SigTags : tags[t] \in DigestType
      BY <1>0, <1>1 DEF PkgInv, TagsOK
    <3> QED
      BY <1>2, <3>1, <3>2 DEF TagsOK
  <2>2. \A t \in {"sha1", "sha256"} : pkg'.tags[t] = pkg.tags[t]
    BY <1>3
  <2> QED
    BY <1>0, <1>2, <1>3, <2>1, <2>2 DEF PkgInv
<1>5. HeaderMatches' <=> HeaderMatches
  BY <1>2, <1>3 DEF HeaderMatches, getHashAndType
<1>6. PayloadMatches' <=> PayloadMatches
  BY <1>2, <1>3 DEF PayloadMatches, getPayloadDigest
<1>7. HeaderInv' /\ PayloadInv'
  BY <1>0, <1>5, <1>6 DEF IInv, HeaderInv, PayloadInv
<1>8. TypeOK'
  BY <1>0, <1>1 DEF IInv, TypeOK
<1>9. CallInv'
  BY <1>0 DEF IInv, CallInv
<1>10. HashInv'
  BY <1>0, <1>2 DEF IInv, HashInv, Covers
<1>11. HasherInv' /\ ValidInv' /\ FreshVerifyInv'
  BY <1>0 DEF HasherInv, ValidInv, FreshVerifyInv
<1>12. FreshInv'
  <2>1. /\ hashes[1].bytes = pkg.header /\ hashes[2].bytes = pkg.header \o pkg.payload
        /\ hashes[1].algo \in Algorithms /\ hashes[2].algo \in Algorithms
    <3>1. /\ Len(hashes) = 2 /\ ~hashes[1].payload /\ hashes[2].payload
          /\ hashes[1].algo \in Algorithms /\ hashes[2].algo \in Algorithms
      BY <1>0 DEF IInv, HashInv
    <3>2. 1 \in 1..Len(hashes) /\ 2 \in 1..Len(hashes)
      BY <3>1
    <3>3. \A k \in 1..Len(hashes) :
            hashes[k].bytes = IF hashes[k].payload THEN pkg.header \o pkg.payload ELSE pkg.header
      BY <1>0, HashComplete
    <3> QED
      BY <3>1, <3>2, <3>3, Zenon
  <2>2. \A t \in {"RSA", "PGP"} :
          /\ tags[t].key = arg.key /\ tags[t].version = 4 /\ tags[t].issuer = "id"
          /\ tags[t].over.algo \in Algorithms
          /\ tags[t].over.bytes = IF t = "RSA" THEN pkg.header ELSE pkg.header \o pkg.payload
    BY <1>1, <2>1, SignatureFields
  <2>3. HeaderMatches' /\ PayloadMatches'
    BY <1>0, <1>5, <1>6 DEF IInv, HeaderInv, PayloadInv
  <2> QED
    BY <1>0, <1>1, <1>2, <2>2, <2>3 DEF FreshInv
<1> QED
  BY <1>4, <1>7, <1>8, <1>9, <1>10, <1>11, <1>12 DEF IInv

(* Damage: the package does not grow, and its digests stay.                *)
LEMMA DamageIInv ==
  ASSUME IInv, Damage
  PROVE  IInv'
<1>0. /\ PkgInv /\ pc = "idle" /\ fresh' = Nil /\ op' = "none" /\ ret' = "none"
      /\ UNCHANGED <<built, arg, pc, sigs, hashes, hasher, rest, valid>>
  BY DEF Damage, IInv
<1>1. /\ pkg.header \in Seq(Blocks) /\ pkg.payload \in Seq(Blocks) /\ "x" \in Blocks
      /\ Len(pkg.header) \in Nat /\ Len(pkg.payload) \in Nat
      /\ Len(built.header) \in Nat \ {0} /\ Len(built.payload) \in Nat
  BY <1>0, PkgFields, PackagesAssumption DEF PkgInv
<1> DEFINE Damaged ==
             /\ pkg' \in PackageType /\ pkg'.tags = pkg.tags /\ pkg'.digest = pkg.digest
             /\ Len(pkg'.header) <= Len(built.header)
             /\ Len(pkg'.payload) <= Len(built.payload)
<1>2. Damaged
  <2>1. ASSUME NEW h \in Seq(Blocks), pkg' = [pkg EXCEPT !.header = h], Len(h) <= Len(built.header)
        PROVE  Damaged
    <3>1. /\ pkg' \in PackageType /\ pkg'.tags = pkg.tags /\ pkg'.digest = pkg.digest
          /\ pkg'.header = h /\ pkg'.payload = pkg.payload
      BY <1>0, <2>1 DEF PkgInv, PackageType
    <3> QED
      BY <1>0, <2>1, <3>1 DEF PkgInv
  <2>2. ASSUME NEW p \in Seq(Blocks), pkg' = [pkg EXCEPT !.payload = p],
               Len(p) <= Len(built.payload)
        PROVE  Damaged
    <3>1. /\ pkg' \in PackageType /\ pkg'.tags = pkg.tags /\ pkg'.digest = pkg.digest
          /\ pkg'.header = pkg.header /\ pkg'.payload = p
      BY <1>0, <2>2 DEF PkgInv, PackageType
    <3> QED
      BY <1>0, <2>2, <3>1 DEF PkgInv
  <2>3. CASE pkg' = [pkg EXCEPT !.header = <<"x">>]
    <3>1. <<"x">> \in Seq(Blocks) /\ Len(<<"x">>) <= Len(built.header)
      BY <1>1
    <3> QED
      BY <2>1, <2>3, <3>1
  <2>4. ASSUME NEW i \in DOMAIN pkg.payload, pkg' = [pkg EXCEPT !.payload[i] = "x"]
        PROVE  Damaged
    <3> DEFINE p == [pkg.payload EXCEPT ![i] = "x"]
    <3>1. p \in Seq(Blocks) /\ Len(p) = Len(pkg.payload)
      BY <1>1, ExceptSeq
    <3>2. pkg' = [pkg EXCEPT !.payload = p]
      BY <2>4
    <3>3. Len(p) <= Len(built.payload)
      BY <1>0, <3>1 DEF PkgInv
    <3> HIDE DEF p
    <3> QED
      BY <2>2, <3>1, <3>2, <3>3
  <2>5. CASE pkg.payload # <<>> /\ pkg' = [pkg EXCEPT !.payload = SubSeq(@, 1, Len(@) - 1)]
    <3> DEFINE p == SubSeq(pkg.payload, 1, Len(pkg.payload) - 1)
    <3>1. p \in Seq(Blocks) /\ Len(p) <= Len(pkg.payload)
      BY <1>1, <2>5
    <3>2. pkg' = [pkg EXCEPT !.payload = p]
      BY <2>5
    <3>3. Len(p) \in Nat /\ Len(p) <= Len(built.payload)
      BY <1>0, <1>1, <3>1 DEF PkgInv
    <3> HIDE DEF p
    <3> QED
      BY <2>2, <3>1, <3>2, <3>3
  <2> QED
    BY <2>3, <2>4, <2>5 DEF Damage
<1>3. PkgInv'
  BY <1>0, <1>2 DEF PkgInv
<1>4. TypeOK' /\ CallInv'
  BY <1>0 DEF IInv, TypeOK, CallInv
<1>5. HeaderInv' /\ HashInv' /\ HasherInv' /\ PayloadInv' /\ ValidInv'
  BY <1>0 DEF HeaderInv, HashInv, HasherInv, PayloadInv, ValidInv
<1>6. FreshInv' /\ FreshVerifyInv'
  BY <1>0 DEF FreshInv, FreshVerifyInv
<1> QED
  BY <1>3, <1>4, <1>5, <1>6 DEF IInv
(* Nothing changes.                                                        *)
LEMMA StutterIInv ==
  ASSUME IInv, UNCHANGED vars
  PROVE  IInv'
<1> USE DEF vars
<1>1. PkgInv' /\ FreshInv'
  BY Frame DEF fileVars
<1>2. TypeOK' /\ CallInv'
  BY DEF IInv, TypeOK, CallInv
<1>3. HeaderInv' /\ HashInv' /\ HasherInv' /\ PayloadInv'
  BY Frame DEF IInv, HeaderInv, HashInv, HasherInv, PayloadInv, Covers, fileVars
<1>4. ValidInv' /\ FreshVerifyInv'
  BY DEF IInv, ValidInv, findKey, FreshVerifyInv, Known
<1> QED
  BY <1>1, <1>2, <1>3, <1>4 DEF IInv

(* The invariant is inductive.                                             *)
THEOREM Invariance == Spec => []IInv
<1>1. ASSUME IInv, Next
      PROVE  IInv'
  <2>1. CASE SignRpmStream
    <3>1. PICK k \in Keys, o \in Options : Call("sign", [key |-> k, opts |-> o])
      BY <2>1 DEF SignRpmStream
    <3> QED
      BY <1>1, <3>1, CallIInv
  <2>2. CASE VerifyCall
    <3>1. PICK r \in Rings : Call("verify", r)
      BY <2>2 DEF VerifyCall
    <3> QED
      BY <1>1, <3>1, CallIInv
  <2>3. CASE Step
    BY <1>1, <2>3, ReadHeaderIInv, DigestAndVerifyIInv, DigestForSigningIInv,
       DigestPayloadIInv, CopyBlockIInv, CompareDigestIInv, ValidateIInv, InsertIInv
       DEF Step
  <2>4. CASE ReadFails \/ SignFails \/ Damage
    BY <1>1, <2>4, FailIInv, DamageIInv
  <2> QED
    BY <1>1, <2>1, <2>2, <2>3, <2>4 DEF Next
<1>2. IInv /\ [Next]_vars => IInv'
  BY <1>1, StutterIInv
<1> QED
  BY InitIInv, <1>2, PTL DEF Spec

-----------------------------------------------------------------------------
(* A call is in one of its stages, has a hash for every signature and has  *)
(* returned exactly if none is under way (verify.go:58-88,                 *)
(* verify_digests.go:33-71).                                               *)
THEOREM TypeCorrect == Spec => []TypeOK
BY Invariance, PTL DEF IInv

(* Two parts that are no longer than two others, and make up the same      *)
(* bytes, are the others.                                                  *)
LEMMA SameParts ==
  ASSUME NEW a \in Seq(Blocks), NEW b \in Seq(Blocks),
         NEW c \in Seq(Blocks), NEW d \in Seq(Blocks),
         Len(a) <= Len(c), Len(b) <= Len(d), a \o b = c \o d
  PROVE  a = c /\ b = d
<1>1. Len(a) = Len(c) /\ Len(b) = Len(d)
  <2>1. Len(a \o b) = Len(a) + Len(b) /\ Len(c \o d) = Len(c) + Len(d)
    BY ConcatProperties
  <2>2. Len(a) \in Nat /\ Len(b) \in Nat /\ Len(c) \in Nat /\ Len(d) \in Nat
    OBVIOUS
  <2> QED
    BY <2>1, <2>2
<1>2. a = c
  <2>1. ASSUME NEW i \in 1..Len(a)
        PROVE  a[i] = c[i]
    <3>1. (a \o b)[i] = a[i] /\ (c \o d)[i] = c[i]
      BY <1>1
    <3> QED
      BY <3>1
  <2> QED
    BY <1>1, <2>1, SeqEqual
<1>3. b = d
  BY <1>2, ConcatSimplifications
<1> QED
  BY <1>2, <1>3

(* Neither Verify nor SignRpmStream succeeds on a package whose payload is *)
(* not as it was built, nor on one whose header is not, unless its only    *)
(* digest is the payload's (verify_digests.go:73-111, header.go).          *)
THEOREM DamageFound == Spec => []DamageIsFound
<1>1. ASSUME IInv, ret = "ok"
      PROVE  /\ pkg.payload = built.payload
             /\ pkg.header = built.header \/ (getHashAndType(pkg.tags) = None /\ getPayloadDigest # None)
  <2>1. PkgInv /\ HeaderMatches /\ PayloadMatches
    BY <1>1 DEF IInv, HeaderInv, PayloadInv
  <2>2. /\ pkg.header \in Seq(Blocks) /\ pkg.payload \in Seq(Blocks)
        /\ built.header \in Seq(Blocks) /\ built.payload \in Seq(Blocks)
    BY <2>1, PkgFields
  <2>3. ASSUME getHashAndType(pkg.tags) # None
        PROVE  pkg.header = built.header
    <3>1. getHashAndType(pkg.tags).bytes = built.header
      BY <2>1, <2>3 DEF PkgInv, getHashAndType
    <3>2. getHashAndType(pkg.tags).bytes = pkg.header
      BY <2>1, <2>3, Digests DEF HeaderMatches
    <3> QED
      BY <3>1, <3>2
  <2>4. CASE getPayloadDigest # None
    <3>1. getPayloadDigest = pkg.digest /\ pkg.digest.bytes = built.payload
      BY <2>1, <2>4 DEF getPayloadDigest, PkgInv
    <3>2. pkg.digest.bytes = pkg.payload
      BY <2>1, <2>4, <3>1, Digests DEF PayloadMatches
    <3> QED
      BY <2>3, <2>4, <3>1, <3>2
  <2>5. CASE getPayloadDigest = None
    <3>1. pkg.tags.md5.bytes = built.header \o built.payload
      BY <2>1, <2>5 DEF PayloadMatches, PkgInv
    <3>2. Digest("MD5", pkg.header \o pkg.payload) = pkg.tags.md5
      BY <2>1, <2>5 DEF PayloadMatches
    <3>3. pkg.tags.md5.bytes = pkg.header \o pkg.payload
      <4> DEFINE all == pkg.header \o pkg.payload
      <4>1. Digest("MD5", all) = pkg.tags.md5
        BY <3>2
      <4> HIDE DEF all
      <4>2. pkg.tags.md5.bytes = all
        BY <4>1 DEF Digest
      <4> QED
        BY <4>2 DEF all
    <3> QED
      BY <2>1, <2>2, <3>1, <3>3, SameParts DEF PkgInv
  <2> QED
    BY <2>4, <2>5
<1>2. IInv => DamageIsFound
  BY <1>1 DEF DamageIsFound, Succeeded
<1> QED
  BY <1>2, Invariance, PTL

(* If Verify succeeds with keys, every signature in the package was made   *)
(* by a known key over the header, or over the header and all of the       *)
(* payload, as they are (verify.go:54-88).                                 *)
THEOREM VerifySound == Spec => []VerifiedMeansSigned
<1>1. ASSUME IInv, op = "verify", ret = "ok", arg # Nil
      PROVE  /\ \A i \in DOMAIN sigs :
                  /\ \E e \in DOMAIN arg : sigs[i].sig.key \in KeysOf(arg[e])
                  /\ sigs[i].sig.over.bytes =
                       IF sigs[i].headerOnly THEN pkg.header ELSE pkg.header \o pkg.payload
             /\ {sigs[i].sig : i \in DOMAIN sigs} = {pkg.tags[t] : t \in SigTags} \ {NoSig}
  <2>1. /\ sigs = ExpectedSigs /\ Len(hashes) = Len(sigs) /\ valid = Len(sigs) /\ PkgInv
        /\ \A i \in 1..Len(hashes) : hashes[i].payload = ~sigs[i].headerOnly
    BY <1>1 DEF IInv, HashInv, ValidInv
  <2>2. /\ DOMAIN sigs = 1..Len(sigs) /\ Len(sigs) = Len(allSigTags)
        /\ \A i \in 1..Len(sigs) : sigs[i].headerOnly \in BOOLEAN
    BY <2>1, ExpectedFacts
  <2>3. ASSUME NEW i \in DOMAIN sigs
        PROVE  /\ \E e \in DOMAIN arg : sigs[i].sig.key \in KeysOf(arg[e])
               /\ sigs[i].sig.over.bytes =
                    IF sigs[i].headerOnly THEN pkg.header ELSE pkg.header \o pkg.payload
    <3>1. i \in 1..Len(hashes) /\ i \in 1..valid
      BY <2>1, <2>2
    <3>2. /\ findKey(sigs[i].sig.key)
          /\ sigs[i].sig.over = Digest(hashes[i].algo, hashes[i].bytes)
      BY <1>1, <3>1 DEF IInv, ValidInv
    <3>3. sigs[i].sig.over.bytes = hashes[i].bytes
      BY <3>2, Digests
    <3>4. hashes[i].bytes = IF hashes[i].payload THEN pkg.header \o pkg.payload ELSE pkg.header
      BY <1>1, <3>1, HashComplete
    <3>5. hashes[i].payload = ~sigs[i].headerOnly
      BY <2>1, <3>1
    <3>6. sigs[i].sig.over.bytes =
            IF sigs[i].headerOnly THEN pkg.header ELSE pkg.header \o pkg.payload
      BY <3>3, <3>4, <3>5
    <3> QED
      BY <3>2, <3>6 DEF findKey
  <2>4. {sigs[i].sig : i \in DOMAIN sigs} = {pkg.tags[t] : t \in SigTags} \ {NoSig}
    BY <2>1, <2>2, ExpectedFacts
  <2> QED
    BY <2>3, <2>4
<1>2. IInv => VerifiedMeansSigned
  BY <1>1 DEF VerifiedMeansSigned, Succeeded
<1> QED
  BY <1>2, Invariance, PTL

(* A package that was just signed verifies with the key that signed it, or *)
(* without keys, and shows that key's two signatures, whatever signatures  *)
(* it had before (signatures.go:84-89, 126-159).                           *)
THEOREM SignThenVerify == Spec => []SignedVerifies
<1>1. ASSUME IInv, fresh # Nil, op = "verify", ret \notin {"running", "read error"}, Known
      PROVE  /\ ret = "ok" /\ Len(sigs) = 2
             /\ sigs[1].headerOnly /\ ~sigs[2].headerOnly
             /\ \A i \in 1..2 : sigs[i].sig.key = fresh
  <2>1. ret = "ok"
    BY <1>1 DEF IInv, FreshVerifyInv
  <2>2. sigs = ExpectedSigs
    BY <1>1, <2>1 DEF IInv, HashInv
  <2>3. Len(ExpectedSigs) = Len(allSigTags)
    BY <1>1, ExpectedFacts DEF IInv
  <2> QED
    BY <1>1, <2>1, <2>2, <2>3, FreshSigs DEF IInv
<1>2. IInv => SignedVerifies
  BY <1>1 DEF SignedVerifies, Known
<1> QED
  BY <1>2, Invariance, PTL

=============================================================================
