---------------------------- MODULE PayloadFiles ----------------------------
(***************************************************************************)
(* What PayloadReader promises its caller (payload.go): the files of the   *)
(* package come one after the other, each under its own FileInfo, Read     *)
(* delivers its bytes in order, and the end is reported only after the     *)
(* last of them.  A call that fails changes nothing of this.               *)
(***************************************************************************)
EXTENDS Integers, Sequences

VARIABLES
    archive,   \* the files stored in the package: file, link, bytes
    done,      \* how many of them Next has passed
    file,      \* the FileInfo returned for the last one
    link,      \* what IsLink says of it
    got,       \* the bytes Read has delivered of it
    ended      \* Next has reported the end

vars == <<archive, done, file, link, got, ended>>

Init ==
  /\ done = 0 /\ file = -1 /\ link = FALSE /\ got = <<>> /\ ended = FALSE

NextFile ==
  /\ done < Len(archive)
  /\ done' = done + 1
  /\ file' = archive[done + 1].file /\ link' = archive[done + 1].link
  /\ got' = <<>>
  /\ UNCHANGED <<archive, ended>>

ReadBytes ==
  /\ done > 0
  /\ \E n \in Len(got)..Len(archive[done].bytes) :
       got' = SubSeq(archive[done].bytes, 1, n)
  /\ UNCHANGED <<archive, done, file, link, ended>>

End ==
  /\ done = Len(archive)
  /\ ended' = TRUE
  /\ UNCHANGED <<archive, done, file, link, got>>

Next == NextFile \/ ReadBytes \/ End

Spec == Init /\ [][Next]_vars
=============================================================================
