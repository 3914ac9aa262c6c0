---------------------------- MODULE MCRewriteRpm ----------------------------
(* Instances of RewriteRpm: one process against crashes and failing calls, *)
(* and two processes against each other.                                   *)
EXTENDS RewriteRpm

OneSigner  == {"s1"}
TwoSigners == {"s1", "s2"}

AnyFit == [Signers -> BOOLEAN]
(* Two processes whose headers all fit or none of which does: if one       *)
(* renames while the other is about to write in place, the latter writes a *)
(* header of the old size over one of another size, and the package makes  *)
(* no promise about that.                                                  *)
SameFit == {[s \in Signers |-> b] : b \in BOOLEAN}

FileKinds == {"same", "absent", "other"}
(* Failures after which a process gives up before it has written anything. *)
EarlyCalls == {"read", "stat", "open", "createTemp"}
=============================================================================
