------------------------------ MODULE MCVerify ------------------------------
(* Small packages for Verify.                                              *)
EXTENDS Verify

Header  == <<"h">>
Payload == <<"p", "q">>
Other   == <<"o">>

Sig(k, algo, bytes, version, issuer) ==
  [key |-> k, over |-> Digest(algo, bytes), version |-> version, issuer |-> issuer]

(* Digests a package can come with: either, both or neither of the header, *)
(* the payload's by a known, an unknown and an algorithm not linked in.    *)
Or(d) == {d, None}
Built ==
  {[header |-> Header, payload |-> Payload, digest |-> d,
    tags |-> [t \in Tags |->
                IF t = "sha1" THEN s1 ELSE IF t = "sha256" THEN s256
                ELSE IF t = "md5" THEN m ELSE NoSig]] :
     s1 \in Or(Digest("SHA1", Header)), s256 \in Or(Digest("SHA256", Header)),
     m \in Or(Digest("MD5", Header \o Payload)),
     d \in {None, Digest("SHA256", Payload), Digest("SHA384", Payload), Digest("TIGER192", Payload)}}

(* With old signatures: of a stranger, a subkey, another package, version  *)
(* 3, without an issuer, by a hash not linked in, or all tags taken.       *)
Signed(p, h, c) ==
  [p EXCEPT !.tags["DSA"] = h, !.tags["GPG"] = c]
Full == CHOOSE p \in Built : p.tags.sha256 # None /\ p.tags.sha1 = None /\ p.tags.md5 = None
                               /\ p.digest.algo = "SHA256"
Bare == CHOOSE p \in Built : p.tags.sha256 = None /\ p.tags.sha1 = None /\ p.tags.md5 # None /\ p.digest = None
OldSignatures ==
  {Signed(p, Sig(k, "SHA1", Header, v, i), Sig(k, "SHA1", Header \o Payload, v, i)) :
     p \in {Full, Bare}, k \in {"k1", "sub", "stranger"}, v \in {3, 4}, i \in {"id", "fingerprint", "none"}}
  \cup {Signed(Full, Sig("k1", "SHA1", Other, 4, "id"), NoSig),
        Signed(Full, NoSig, Sig("k1", "SHA1", Header, 4, "id")),
        Signed(Full, NoSig, Sig("k1", "SHA1", Header \o Payload, 5, "id")),
        Signed(Full, Sig("k1", "SHA384", Header, 4, "id"), NoSig),
        Signed(Full, Sig("k1", "SHA384", Header, 4, "id"),
                     Sig("k1", "SHA1", Header \o Payload, 5, "id"))}

MCPackages == Built \cup OldSignatures

Entity(k, subs) == [primary |-> k, subkeys |-> subs]
MCRings == {<<>>, <<Entity("k2", {}), Entity("k1", {"sub"})>>, <<Entity("k2", {"s2"})>>, Nil}
=============================================================================
