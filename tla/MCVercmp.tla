------------------------------ MODULE MCVercmp ------------------------------
(* Versions of up to three characters out of ".", "0", "1", "2", "a", "b"  *)
(* and "~", and packages with all three fields.                            *)
EXTENDS Vercmp

MCChars == {46, 48, 49, 50, 97, 98, 126}
StringsUpTo(n) == UNION {[1..m -> MCChars] : m \in 0..n}
Long == {<<49, 48>>, <<50>>, <<48, 49>>, <<49>>, <<49, 126, 97>>}

MCInputs ==
  {<<<<s>>, <<t>>>> : s, t \in StringsUpTo(3)}
    \cup {<<<<e, v, r>>, <<f, w, q>>>> : e, f \in {<<48>>, <<49>>}, v, w, r, q \in Long}
=============================================================================
