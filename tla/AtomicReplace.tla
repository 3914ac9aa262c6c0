---------------------------- MODULE AtomicReplace ----------------------------
(***************************************************************************)
(* What a caller of SignRpmFile would like to observe at outpath: the path *)
(* changes only by a whole, signed package taking the place of what was    *)
(* there, whatever else happens (signatures.go, "write-rename").           *)
(***************************************************************************)
CONSTANTS
    Signers,     \* who signs
    Unsigned,    \* what outpath may hold at first
    Signed(_)    \* the package as signed by one of them

VARIABLE content   \* what opening outpath would show

Init == content \in Unsigned

Replace(s) == content' = Signed(s)

Next == \E s \in Signers : Replace(s)

Spec == Init /\ [][Next]_content
=============================================================================
