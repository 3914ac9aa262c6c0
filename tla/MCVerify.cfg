CONSTANTS
  Packages <- MCPackages
  Blocks = {"h", "p", "q", "o", "x"}
  Keys = {"k1", "sub"}
  Strangers = {"stranger"}
  Rings <- MCRings
  Nil = Nil
  Options = {"nil opts", "SHA512", "unset"}
  Algorithms = {"MD5", "SHA1", "SHA256", "SHA512"}
  OtherAlgos = {"SHA384", "TIGER192"}
  V3Support = TRUE
SPECIFICATION Spec
INVARIANTS
  TypeOK
  DamageIsFound
  VerifiedMeansSigned
  SignedVerifies
