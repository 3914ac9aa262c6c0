-------------------------- MODULE RewriteRpm_proofs --------------------------
(***************************************************************************)
(* Proofs about RewriteRpm for every number of signers, every kind of      *)
(* outpath and every choice of failing calls.                              *)
(*                                                                         *)
(* The argument: what a process may still do is fixed by its route.  A     *)
(* process about to write in place has found outpath to be the input and   *)
(* its header to fit; a process with a temporary file writes to that file  *)
(* and to nothing else until it renames it; a process that writes to what  *)
(* os.Create opened reaches the input only through a symbolic link.  Hence *)
(* the input never loses its general header and payload, except through    *)
(* such a link.                                                            *)
(***************************************************************************)
EXTENDS RewriteRpm, TLAPS

(* outpath names what it named at first, or a temporary file.              *)
OutInv == out \in {OutOf(kind)} \cup Signers

(* The kinds of outpath that lead to writing in place or to renaming.      *)
FileKinds == {"same", "linked", "absent", "other"}

(* The route that writes in place.                                         *)
InPlaceInv ==
  \A s \in Signers :
    /\ pc[s] \in {"dump", "open", "write"} => kind \in {"same", "linked"}
    /\ pc[s] \in {"open", "write"} => fits[s]
    /\ pc[s] = "write" => target[s] \in {"in"} \cup Signers

(* The routes that write the whole package.                                *)
StreamInv ==
  \A s \in Signers :
    /\ pc[s] = "create" => kind \in {"symlink", "pipe", "stdout"}
    /\ pc[s] \in {"lead", "header", "body"} =>
         /\ target[s] = "in" => kind = "symlink"
         /\ kind \in FileKinds => temp[s]

(* The temporary file is there from CreateTemp to Rename.                  *)
TempInv ==
  \A s \in Signers :
    /\ pc[s] \in {"close", "rename"} => temp[s]
    /\ temp[s] =>
         /\ target[s] = s
         /\ \/ pc[s] \in {"lead", "header", "body", "close", "rename", "crashed"}
            \/ pc[s] = "done" /\ failed \cap {"close", "rename"} # {}

(* The input keeps its body, and its signature header its size.            *)
InputInv ==
  kind # "symlink" =>
    file["in"].head # "none" /\ file["in"].size = "orig" /\ file["in"].body = "rpm"

IInv == TypeOK /\ OutInv /\ InPlaceInv /\ StreamInv /\ TempInv /\ InputInv /\ InputUntouched

(***************************************************************************)
(* What is promised beyond that depends on the signers not meeting on      *)
(* different routes: a header written in place over a package that another *)
(* signer renamed would have the wrong length.                             *)
(***************************************************************************)
Alone == \A s, t \in Signers : s = t
Agree ==
  /\ FitChoices \subseteq {[s \in Signers |-> b] : b \in BOOLEAN}
  /\ "lstat" \notin FaultPoints

(* Nothing that was renamed is written in place: a process alone renames   *)
(* last, and processes that agree all write in place or none does.         *)
ApartInv ==
  /\ Alone => \A s \in Signers : pc[s] # "done" => out = OutOf(kind)
  /\ Agree /\ kind \in {"same", "linked"} /\ (\E s \in Signers : fits[s]) =>
       /\ out = "in"
       /\ \A s \in Signers :
            pc[s] \notin {"createTemp", "lead", "header", "body", "close", "rename"}
  /\ Alone \/ Agree => \A s \in Signers : pc[s] = "write" => target[s] = "in"

(* The temporary file is complete, or the error was returned.              *)
Written(s) ==
  \/ file[s].head = s /\ file[s].body = "rpm" /\ ret[s] = "ok"
  \/ ret[s] = "error" /\ failed \cap {"lead", "header", "body"} # {}

(* A temporary file is complete when it is renamed, and stays so.          *)
WrittenInv ==
  (Alone \/ Agree) /\ kind \in FileKinds =>
    \A s \in Signers :
      /\ pc[s] = "body" => file[s].head = s
      /\ pc[s] \in {"close", "rename"} \/ (pc[s] = "done" /\ temp[s]) => Written(s)
      /\ out = s => pc[s] = "done" /\ Written(s)

(* What a return without an error stands for.                              *)
NoWriteFaults == FaultPoints \cap {"write", "lead", "header", "body"} = {}
OkInv ==
  (Alone \/ (Agree /\ NoWriteFaults)) /\ kind \in FileKinds =>
    \A s \in Signers : pc[s] = "done" /\ ret[s] = "ok" =>
      out \in Signers \/ temp[s] \/ (out = "in" /\ file["in"].head \in Signers)

(* One process and a symbolic link, a pipe, a device or standard output:   *)
(* the package goes to the pipe or to a temporary file, or the input was   *)
(* truncated and its lead is not there any more.                           *)
StreamOk(s) ==
  /\ pc[s] \in {"read", "stat", "lstat", "create", "createTemp"} \/ temp[s] =>
       file["in"] = Original
  /\ pc[s] \in {"lead", "header", "body"} =>
       /\ temp[s] \/ target[s] = (IF kind = "symlink" THEN "in" ELSE "pipe")
       /\ target[s] = "in" => pc[s] = "lead" /\ file["in"].head = "none"
       /\ target[s] = "pipe" => file["in"] = Original
  /\ pc[s] = "body" => file[target[s]].head = s
  /\ pc[s] \in {"close", "rename"} \/ (pc[s] = "done" /\ temp[s]) => Written(s)
  /\ pc[s] = "done" /\ ret[s] = "ok" =>
       \/ temp[s]
       \/ out = s /\ Written(s)
       \/ out = "pipe" /\ IsSigned(file["pipe"])

StreamOkInv ==
  Alone /\ kind \notin FileKinds => \A s \in Signers : StreamOk(s)

RouteInv == ApartInv /\ WrittenInv /\ OkInv /\ StreamOkInv

-----------------------------------------------------------------------------
(* The names of temporary files are no other file's names.                 *)
LEMMA Names ==
  ASSUME NEW s \in Signers
  PROVE  s \notin {"in", "other", "pipe", "none", "symlink", "orig", "torn"}
BY SignersAssumption

(* What outpath names tells what it was at first, and the other way round. *)
LEMMA OutNames ==
  ASSUME TypeOK, OutInv
  PROVE  /\ out = "in" => kind \in {"same", "linked"}
         /\ out = "symlink" => kind = "symlink"
         /\ out = "pipe" => kind \in {"pipe", "stdout"}
         /\ kind \in {"same", "linked"} => out \in {"in"} \cup Signers
         /\ kind \in {"symlink", "pipe", "stdout"} => out \in {"symlink", "pipe"} \cup Signers
         /\ kind \in FileKinds => out \notin {"symlink", "pipe"}
BY OutKindsAssumption, SignersAssumption DEF TypeOK, OutInv, OutOf, Kinds, FileKinds

(* Contents that the actions write.                                        *)
LEMMA Contents ==
  /\ Empty \in ContentType /\ Original \in ContentType /\ OtherRpm \in ContentType
  /\ Empty.head = "none" /\ Empty.size = "none" /\ Empty.body = "none"
  /\ Original.head = "orig" /\ Original.size = "orig" /\ Original.body = "rpm"
BY DEF Empty, Original, OtherRpm, ContentType

(* A content is made of its three fields.                                  *)
Content(h, z, b) == [head |-> h, size |-> z, body |-> b]

(* The fields of what a file holds.                                        *)
LEMMA ContentFields ==
  ASSUME NEW h \in Signers \cup {"orig", "none", "other", "torn"},
         NEW z \in Signers \cup {"orig", "none"},
         NEW b \in {"rpm", "part", "none", "other", "corrupt"}
  PROVE  /\ Content(h, z, b) \in ContentType
         /\ Content(h, z, b).head = h
         /\ Content(h, z, b).size = z
         /\ Content(h, z, b).body = b
BY DEF Content, ContentType

(* Writing in place replaces the signature header.  The body survives if   *)
(* the header has the length of the one that was there.                    *)
LEMMA OverwrittenFields ==
  ASSUME NEW c \in ContentType, NEW s \in Signers
  PROVE  /\ Overwritten(c, s) \in ContentType
         /\ Overwritten(c, s).head = s
         /\ Overwritten(c, s).size = c.size
         /\ fits[s] /\ c.size = "orig" => Overwritten(c, s).body = c.body
BY DEF ContentType, Overwritten

(* A partial write of the header.                                          *)
LEMMA TornHeader ==
  ASSUME file \in [Inodes -> ContentType], NEW i \in Inodes
  PROVE  [file EXCEPT ![i].head = "torn"] =
           [file EXCEPT ![i] = Content("torn", file[i].size, file[i].body)]
<1>1. file[i] \in ContentType
  OBVIOUS
<1>2. [file[i] EXCEPT !.head = "torn"] = Content("torn", file[i].size, file[i].body)
  BY <1>1 DEF ContentType, Content
<1> QED
  BY <1>2, Zenon

(* The header is written, with its own length.                             *)
LEMMA NewHeader ==
  ASSUME file \in [Inodes -> ContentType], NEW i \in Inodes, NEW s \in Signers
  PROVE  [file EXCEPT ![i].head = s, ![i].size = s] =
           [file EXCEPT ![i] = Content(s, s, file[i].body)]
<1>1. file[i] \in ContentType
  OBVIOUS
<1>2. [file[i] EXCEPT !.head = s] = Content(s, file[i].size, file[i].body)
  BY <1>1 DEF ContentType, Content
<1>3. [Content(s, file[i].size, file[i].body) EXCEPT !.size = s] =
        Content(s, s, file[i].body)
  BY DEF Content
<1>4. [file EXCEPT ![i].head = s, ![i].size = s] =
        [file EXCEPT ![i] = [[file[i] EXCEPT !.head = s] EXCEPT !.size = s]]
  BY Zenon
<1> QED
  BY <1>2, <1>3, <1>4, Zenon

(* Some of the body is written, or all of it.                              *)
LEMMA NewBody ==
  ASSUME file \in [Inodes -> ContentType], NEW i \in Inodes, NEW b
  PROVE  [file EXCEPT ![i].body = b] =
           [file EXCEPT ![i] = Content(file[i].head, file[i].size, b)]
<1>1. file[i] \in ContentType
  OBVIOUS
<1>2. [file[i] EXCEPT !.body = b] = Content(file[i].head, file[i].size, b)
  BY <1>1 DEF ContentType, Content
<1> QED
  BY <1>2, Zenon

-----------------------------------------------------------------------------
(* What the three writing steps leave in the file they write to.           *)
LEMMA WriteInPlaceFile ==
  ASSUME IInv, NEW s \in Signers, WriteInPlace(s)
  PROVE  /\ target[s] \in Inodes
         /\ \E c \in ContentType :
              /\ file' = [file EXCEPT ![target[s]] = c]
              /\ c.head = "none" => file[target[s]].head = "none"
              /\ c.size = file[target[s]].size
              /\ c.size = "orig" => c.body = file[target[s]].body
              /\ ret'[s] = "ok" => c.head = s
              /\ \/ c.head = s
                 \/ c.head = "torn" /\ "write" \in failed'
                 \/ c = file[target[s]]
<1> USE DEF IInv, Return, Goto, Fails
<1>1. target[s] \in Inodes /\ file[target[s]] \in ContentType /\ fits[s]
  BY DEF WriteInPlace, TypeOK, InPlaceInv, Inodes
<1>2. CASE file' = [file EXCEPT ![target[s]] = Overwritten(@, s)]
  <2> DEFINE c == Overwritten(file[target[s]], s)
  <2>1. /\ c \in ContentType /\ c.head = s /\ c.size = file[target[s]].size
        /\ c.size = "orig" => c.body = file[target[s]].body
    BY <1>1, OverwrittenFields
  <2>2. file' = [file EXCEPT ![target[s]] = c]
    BY <1>2
  <2> HIDE DEF c
  <2> QED
    BY <1>1, <2>1, <2>2, Names
<1>3. CASE /\ ret'[s] = "error" /\ "write" \in failed'
           /\ file' = [file EXCEPT ![target[s]].head = "torn"]
  <2> DEFINE c == Content("torn", file[target[s]].size, file[target[s]].body)
  <2>1. /\ c \in ContentType /\ c.head = "torn" /\ c.size = file[target[s]].size
        /\ c.body = file[target[s]].body
    BY <1>1 DEF Content, ContentType
  <2>2. file' = [file EXCEPT ![target[s]] = c]
    BY <1>1, <1>3, TornHeader DEF TypeOK
  <2> HIDE DEF c
  <2> QED
    BY <1>1, <1>3, <2>1, <2>2
<1>4. CASE ret'[s] = "error" /\ UNCHANGED file
  <2>1. file' = [file EXCEPT ![target[s]] = file[target[s]]]
    BY <1>1, <1>4 DEF TypeOK
  <2> QED
    BY <1>1, <1>4, <2>1
<1> QED
  BY <1>2, <1>3, <1>4 DEF WriteInPlace, TypeOK

(* The file after its signature header has been written.                   *)
LEMMA WriteHeaderFile ==
  ASSUME IInv, NEW s \in Signers, WriteHeader(s)
  PROVE  /\ target[s] \in Inodes
         /\ \E c \in ContentType :
              /\ file' = [file EXCEPT ![target[s]] = c]
              /\ pc'[s] = "body" => c.head = s
<1> USE DEF IInv, WriteRpmReturns, FailWriting, Return, Goto, Fails
<1>1. target[s] \in Inodes /\ file[target[s]] \in ContentType
  BY DEF WriteHeader, TypeOK
<1>2. CASE file' = [file EXCEPT ![target[s]].head = s, ![target[s]].size = s]
  <2> DEFINE c == Content(s, s, file[target[s]].body)
  <2>1. file' = [file EXCEPT ![target[s]] = c]
    BY <1>1, <1>2, NewHeader DEF TypeOK
  <2>2. c \in ContentType /\ c.head = s
    BY <1>1 DEF Content, ContentType
  <2> HIDE DEF c
  <2> QED
    BY <1>1, <2>1, <2>2
<1>3. CASE pc'[s] # "body" /\ file' = [file EXCEPT ![target[s]].head = "torn"]
  <2> DEFINE c == Content("torn", file[target[s]].size, file[target[s]].body)
  <2>1. file' = [file EXCEPT ![target[s]] = c]
    BY <1>1, <1>3, TornHeader DEF TypeOK
  <2>2. c \in ContentType
    BY <1>1 DEF Content, ContentType
  <2> HIDE DEF c
  <2> QED
    BY <1>1, <1>3, <2>1, <2>2
<1> QED
  BY <1>2, <1>3 DEF WriteHeader, TypeOK

(* The file after the rest of the package has been copied.                 *)
LEMMA CopyBodyFile ==
  ASSUME IInv, NEW s \in Signers, CopyBody(s)
  PROVE  /\ target[s] \in Inodes
         /\ \E c \in ContentType :
              /\ file' = [file EXCEPT ![target[s]] = c]
              /\ c.head = file[target[s]].head
              /\ pc'[s] # "body" /\ ret'[s] = "ok" => c.body = file["in"].body
<1> USE DEF IInv, WriteRpmReturns, FailWriting, Return, Goto, Fails
<1>1. target[s] \in Inodes /\ file[target[s]] \in ContentType
  BY DEF CopyBody, TypeOK
<1>2. CASE ret'[s] = "error" /\ UNCHANGED file
  <2>1. file' = [file EXCEPT ![target[s]] = file[target[s]]]
    BY <1>1, <1>2 DEF TypeOK
  <2> QED
    BY <1>1, <1>2, <2>1
<1>3. ASSUME NEW b \in {"part", file["in"].body},
             file' = [file EXCEPT ![target[s]].body = b],
             b = file["in"].body \/ pc'[s] = "body"
      PROVE  \E c \in ContentType :
               /\ file' = [file EXCEPT ![target[s]] = c]
               /\ c.head = file[target[s]].head
               /\ pc'[s] # "body" /\ ret'[s] = "ok" => c.body = file["in"].body
  <2> DEFINE c == Content(file[target[s]].head, file[target[s]].size, b)
  <2>1. file' = [file EXCEPT ![target[s]] = c]
    BY <1>1, <1>3, NewBody DEF TypeOK
  <2>2. file["in"] \in ContentType
    BY DEF TypeOK, Inodes
  <2>3. c \in ContentType /\ c.head = file[target[s]].head /\ c.body = b
    BY <1>1, <2>2 DEF Content, ContentType
  <2> HIDE DEF c
  <2> QED
    BY <1>3, <2>1, <2>3
<1> QED
  BY <1>1, <1>2, <1>3 DEF CopyBody, TypeOK

-----------------------------------------------------------------------------
(* Initially every process is about to read the unchanged input.           *)
LEMMA InitIInv == Init => IInv
<1> SUFFICES ASSUME Init PROVE IInv
  OBVIOUS
<1>1. TypeOK
  BY OutKindsAssumption, Contents DEF Init, TypeOK, Inodes, OutOf, Kinds, Calls
<1>2. OutInv
  BY OutKindsAssumption DEF Init, OutInv, OutOf, Kinds
<1>3. InPlaceInv /\ StreamInv /\ TempInv
  BY DEF Init, InPlaceInv, StreamInv, TempInv
<1>4. InputInv /\ InputUntouched
  BY Contents DEF Init, InputInv, InputUntouched, Inodes
<1> QED
  BY <1>1, <1>2, <1>3, <1>4 DEF IInv

(* A call fails before anything is written; the temporary file is not there. *)
LEMMA FailAtIInv ==
  ASSUME IInv, NEW s \in Signers, NEW call \in {"read", "stat", "open", "create", "createTemp"},
         FailAt(s, call)
  PROVE  IInv'
<1> USE DEF IInv, FailAt, Return, Goto, Fails
<1>1. TypeOK'
  BY DEF TypeOK, Calls
<1>2. OutInv'
  BY DEF OutInv
<1>3. InPlaceInv'
  BY DEF TypeOK, InPlaceInv
<1>4. StreamInv'
  BY DEF TypeOK, StreamInv
<1>5. TempInv'
  BY DEF TypeOK, TempInv
<1>6. InputInv'
  BY DEF InputInv
<1>7. InputUntouched'
  BY DEF InputUntouched
<1> QED
  BY <1>1, <1>2, <1>3, <1>4, <1>5, <1>6, <1>7

(* Read: the process goes on to Stat or returns.                           *)
LEMMA ReadIInv ==
  ASSUME IInv, NEW s \in Signers, Read(s)
  PROVE  IInv'
<1> USE DEF IInv, Read, Return, Goto
<1>1. TypeOK'
  BY DEF TypeOK, Calls
<1>2. OutInv'
  BY DEF OutInv
<1>3. InPlaceInv'
  BY DEF TypeOK, InPlaceInv
<1>4. StreamInv'
  BY DEF TypeOK, StreamInv
<1>5. TempInv'
  BY DEF TypeOK, TempInv
<1>6. InputInv'
  BY DEF InputInv
<1>7. InputUntouched'
  BY DEF InputUntouched
<1> QED
  BY <1>1, <1>2, <1>3, <1>4, <1>5, <1>6, <1>7

(* Stat: standard output is not the input.                                 *)
LEMMA StatIInv ==
  ASSUME IInv, NEW s \in Signers, Stat(s)
  PROVE  IInv'
<1> USE DEF IInv, Stat, Goto, stdoutStream
<1>1. TypeOK'
  BY DEF TypeOK, Calls, Inodes
<1>2. OutInv'
  BY DEF OutInv
<1>3. InPlaceInv'
  BY DEF TypeOK, InPlaceInv
<1>4. StreamInv'
  BY DEF TypeOK, StreamInv, FileKinds
<1>5. TempInv'
  BY DEF TypeOK, TempInv
<1>6. InputInv'
  BY DEF InputInv
<1>7. InputUntouched'
  BY DEF InputUntouched
<1> QED
  BY <1>1, <1>2, <1>3, <1>4, <1>5, <1>6, <1>7

(* Lstat: the route fits what outpath names.                               *)
LEMMA LstatIInv ==
  ASSUME IInv, NEW s \in Signers, Lstat(s)
  PROVE  IInv'
<1> USE DEF IInv, Lstat, Goto, Fails, canOverwrite, IsRegular
<1>1. TypeOK'
  BY DEF TypeOK, Calls
<1>2. OutInv'
  BY DEF OutInv
<1>3. InPlaceInv'
  BY OutNames DEF TypeOK, InPlaceInv
<1>4. StreamInv'
  BY OutNames DEF TypeOK, StreamInv
<1>5. TempInv'
  BY DEF TypeOK, TempInv
<1>6. InputInv'
  BY DEF InputInv
<1>7. InputUntouched'
  BY DEF InputUntouched
<1> QED
  BY <1>1, <1>2, <1>3, <1>4, <1>5, <1>6, <1>7

(* Dump: only a header that fits is written in place.                      *)
LEMMA DumpIInv ==
  ASSUME IInv, NEW s \in Signers, Dump(s)
  PROVE  IInv'
<1> USE DEF IInv, Dump, Goto, afterDump, sizeUnchanged
<1>1. TypeOK'
  BY DEF TypeOK, Calls
<1>2. OutInv'
  BY DEF OutInv
<1>3. InPlaceInv'
  BY DEF TypeOK, InPlaceInv
<1>4. StreamInv'
  BY DEF TypeOK, StreamInv
<1>5. TempInv'
  BY DEF TypeOK, TempInv
<1>6. InputInv'
  BY DEF InputInv
<1>7. InputUntouched'
  BY DEF InputUntouched
<1> QED
  BY <1>1, <1>2, <1>3, <1>4, <1>5, <1>6, <1>7

(* Open: outpath names the input or what another signer renamed.           *)
LEMMA OpenIInv ==
  ASSUME IInv, NEW s \in Signers, Open(s)
  PROVE  IInv'
<1> USE DEF IInv, Open, Goto
<1>1. TypeOK'
  BY Names, OutNames DEF TypeOK, Calls, Inodes, InPlaceInv
<1>2. OutInv'
  BY DEF OutInv
<1>3. InPlaceInv'
  BY OutNames DEF TypeOK, InPlaceInv
<1>4. StreamInv'
  BY DEF TypeOK, StreamInv
<1>5. TempInv'
  BY DEF TypeOK, TempInv
<1>6. InputInv'
  BY DEF InputInv
<1>7. InputUntouched'
  BY DEF InputUntouched
<1> QED
  BY <1>1, <1>2, <1>3, <1>4, <1>5, <1>6, <1>7

(* WriteInPlace: the input keeps its body since the header fits.           *)
LEMMA WriteInPlaceIInv ==
  ASSUME IInv, NEW s \in Signers, WriteInPlace(s)
  PROVE  IInv'
<1> USE DEF IInv, WriteInPlace, Return, Goto, Fails
<1>1. TypeOK'
  <2>1. file' \in [Inodes -> ContentType]
    BY WriteInPlaceFile DEF TypeOK
  <2> QED
    BY <2>1 DEF TypeOK, Calls
<1>2. OutInv'
  BY DEF OutInv
<1>3. InPlaceInv' /\ StreamInv'
  BY DEF TypeOK, InPlaceInv, StreamInv
<1>4. TempInv'
  BY DEF TypeOK, TempInv
<1>5. InputInv'
  <2>1. kind' = kind
    OBVIOUS
  <2> HIDE DEF WriteInPlace
  <2> QED
    BY <2>1, WriteInPlaceFile DEF InputInv, TypeOK, Inodes
<1>6. InputUntouched'
  <2>1. /\ kind' = kind /\ fits' = fits /\ failed \subseteq failed'
        /\ kind \in {"same", "linked"} /\ fits[s]
    BY DEF InPlaceInv
  <2>2. file'["in"].size = "orig" /\ file'["in"].body = "rpm"
    BY <1>5, <2>1 DEF InputInv
  <2> HIDE DEF WriteInPlace
  <2>3. \/ file'["in"] = file["in"] \/ file'["in"].head = s
        \/ file'["in"].head = "torn" /\ "write" \in failed'
    BY WriteInPlaceFile DEF TypeOK, Inodes
  <2> QED
    BY <2>1, <2>2, <2>3 DEF InputUntouched
<1> QED
  BY <1>1, <1>2, <1>3, <1>4, <1>5, <1>6

(* Create: the input is truncated only through a symbolic link.            *)
LEMMA CreateIInv ==
  ASSUME IInv, NEW s \in Signers, Create(s)
  PROVE  IInv'
<1> USE DEF IInv, Create, Goto
<1>1. TypeOK'
  <2> DEFINE i == IF out = "symlink" THEN "in" ELSE out
  <2>1. i \in Inodes /\ i # "none"
    BY Names, OutNames DEF TypeOK, Inodes, StreamInv
  <2>2. file' = [file EXCEPT ![i] = Empty] /\ target' = [target EXCEPT ![s] = i]
    OBVIOUS
  <2> HIDE DEF i
  <2> QED
    BY <2>1, <2>2, Contents DEF TypeOK, Calls
<1>2. OutInv'
  BY DEF OutInv
<1>3. InPlaceInv'
  BY DEF TypeOK, InPlaceInv
<1>4. StreamInv'
  BY Names, OutNames DEF TypeOK, StreamInv, FileKinds
<1>5. TempInv'
  BY DEF TypeOK, TempInv
<1>6. InputInv'
  BY Names, OutNames DEF InputInv, TypeOK, StreamInv
<1>7. InputUntouched'
  BY Names, OutNames DEF InputUntouched, TypeOK, StreamInv
<1> QED
  BY <1>1, <1>2, <1>3, <1>4, <1>5, <1>6, <1>7

(* CreateTemp: a file of its own.                                          *)
LEMMA CreateTempIInv ==
  ASSUME IInv, NEW s \in Signers, CreateTemp(s)
  PROVE  IInv'
<1> USE DEF IInv, CreateTemp, Goto, tempTarget
<1>1. TypeOK'
  BY Names, Contents DEF TypeOK, Calls, Inodes
<1>2. OutInv'
  BY DEF OutInv
<1>3. InPlaceInv'
  BY DEF TypeOK, InPlaceInv
<1>4. StreamInv'
  BY Names DEF TypeOK, StreamInv
<1>5. TempInv'
  BY DEF TypeOK, TempInv
<1>6. InputInv'
  BY Names DEF InputInv, TypeOK, Inodes
<1>7. InputUntouched'
  BY Names DEF InputUntouched, TypeOK, Inodes
<1> QED
  BY <1>1, <1>2, <1>3, <1>4, <1>5, <1>6, <1>7

(* WriteLead: nothing but the position changes.                            *)
LEMMA WriteLeadIInv ==
  ASSUME IInv, NEW s \in Signers, WriteLead(s)
  PROVE  IInv'
<1> USE DEF IInv, WriteLead, WriteRpmReturns, FailWriting, Return, Goto, Fails
<1>1. TypeOK'
  BY DEF TypeOK, Calls
<1>2. OutInv'
  BY DEF OutInv
<1>3. InPlaceInv'
  BY DEF TypeOK, InPlaceInv
<1>4. StreamInv'
  BY DEF TypeOK, StreamInv
<1>5. TempInv'
  BY DEF TypeOK, TempInv
<1>6. InputInv'
  BY DEF InputInv
<1>7. InputUntouched'
  BY DEF InputUntouched
<1> QED
  BY <1>1, <1>2, <1>3, <1>4, <1>5, <1>6, <1>7

(* WriteHeader: the target is the input only through a symbolic link.      *)
LEMMA WriteHeaderIInv ==
  ASSUME IInv, NEW s \in Signers, WriteHeader(s)
  PROVE  IInv'
<1> USE DEF IInv, WriteRpmReturns, FailWriting, Return, Goto, Fails
<1>1. TypeOK'
  <2>1. file' \in [Inodes -> ContentType]
    BY WriteHeaderFile DEF TypeOK
  <2> QED
    BY <2>1 DEF WriteHeader, TypeOK, Calls
<1>2. OutInv'
  BY DEF WriteHeader, OutInv
<1>3. InPlaceInv' /\ StreamInv'
  BY DEF WriteHeader, TypeOK, InPlaceInv, StreamInv
<1>4. TempInv'
  BY DEF WriteHeader, TypeOK, TempInv
<1>5. kind # "symlink" => file'["in"] = file["in"]
  <2>1. target[s] = "in" => kind = "symlink"
    BY DEF WriteHeader, StreamInv
  <2> QED
    BY <2>1, WriteHeaderFile DEF TypeOK, Inodes
<1>6. InputInv' /\ InputUntouched'
  BY <1>5 DEF WriteHeader, InputInv, InputUntouched
<1> QED
  BY <1>1, <1>2, <1>3, <1>4, <1>6

(* CopyBody: likewise.                                                     *)
LEMMA CopyBodyIInv ==
  ASSUME IInv, NEW s \in Signers, CopyBody(s)
  PROVE  IInv'
<1> USE DEF IInv, WriteRpmReturns, FailWriting, Return, Goto, Fails
<1>1. TypeOK'
  <2>1. file' \in [Inodes -> ContentType]
    BY CopyBodyFile DEF TypeOK
  <2> QED
    BY <2>1 DEF CopyBody, TypeOK, Calls
<1>2. OutInv'
  BY DEF CopyBody, OutInv
<1>3. InPlaceInv' /\ StreamInv'
  BY DEF CopyBody, TypeOK, InPlaceInv, StreamInv
<1>4. TempInv'
  BY DEF CopyBody, TypeOK, TempInv
<1>5. kind # "symlink" => file'["in"] = file["in"]
  <2>1. target[s] = "in" => kind = "symlink"
    BY DEF CopyBody, StreamInv
  <2> QED
    BY <2>1, CopyBodyFile DEF TypeOK, Inodes
<1>6. InputInv' /\ InputUntouched'
  BY <1>5 DEF CopyBody, InputInv, InputUntouched
<1> QED
  BY <1>1, <1>2, <1>3, <1>4, <1>6

(* Close: without a failure the temporary file is still to be renamed.     *)
LEMMA CloseIInv ==
  ASSUME IInv, NEW s \in Signers, Close(s)
  PROVE  IInv'
<1> USE DEF IInv, Close, Goto, Fails
<1>1. TypeOK'
  BY DEF TypeOK, Calls
<1>2. OutInv'
  BY DEF OutInv
<1>3. InPlaceInv'
  BY DEF TypeOK, InPlaceInv
<1>4. StreamInv'
  BY DEF TypeOK, StreamInv
<1>5. TempInv'
  BY DEF TypeOK, TempInv
<1>6. InputInv'
  BY DEF InputInv
<1>7. InputUntouched'
  BY DEF InputUntouched
<1> QED
  BY <1>1, <1>2, <1>3, <1>4, <1>5, <1>6, <1>7

(* Rename: outpath names the temporary file, which has that name no more.  *)
LEMMA RenameIInv ==
  ASSUME IInv, NEW s \in Signers, Rename(s)
  PROVE  IInv'
<1> USE DEF IInv, Rename, Goto, Fails
<1>1. TypeOK'
  BY DEF TypeOK, Calls, Inodes
<1>2. OutInv'
  BY Names DEF OutInv
<1>3. InPlaceInv'
  BY DEF TypeOK, InPlaceInv
<1>4. StreamInv'
  BY DEF TypeOK, StreamInv
<1>5. TempInv'
  BY DEF TypeOK, TempInv
<1>6. InputInv'
  BY DEF InputInv
<1>7. InputUntouched'
  BY DEF InputUntouched
<1> QED
  BY <1>1, <1>2, <1>3, <1>4, <1>5, <1>6, <1>7

(* Crash: the temporary file stays.                                        *)
LEMMA CrashIInv ==
  ASSUME IInv, NEW s \in Signers, Crash(s)
  PROVE  IInv'
<1> USE DEF IInv, Crash, Goto
<1>1. TypeOK'
  BY DEF TypeOK, Calls
<1>2. OutInv'
  BY DEF OutInv
<1>3. InPlaceInv'
  BY DEF TypeOK, InPlaceInv
<1>4. StreamInv'
  BY DEF TypeOK, StreamInv
<1>5. TempInv'
  BY DEF TypeOK, TempInv
<1>6. InputInv'
  BY DEF InputInv
<1>7. InputUntouched'
  BY DEF InputUntouched
<1> QED
  BY <1>1, <1>2, <1>3, <1>4, <1>5, <1>6, <1>7
(* Nothing changes.                                                        *)
LEMMA StutterIInv ==
  ASSUME IInv, UNCHANGED vars
  PROVE  IInv'
BY DEF vars, IInv, TypeOK, OutInv, InPlaceInv, StreamInv, TempInv, InputInv, InputUntouched

(* The invariant is inductive.                                             *)
THEOREM Invariance == Spec => []IInv
<1>1. ASSUME IInv, NEW s \in Signers, Step(s)
      PROVE  IInv'
  <2>1. CASE \E call \in {"read", "stat", "open", "create", "createTemp"} : FailAt(s, call)
    BY <1>1, <2>1, FailAtIInv
  <2> QED
    BY <1>1, <2>1, ReadIInv, StatIInv, LstatIInv, DumpIInv, OpenIInv, WriteInPlaceIInv,
       CreateIInv, CreateTempIInv, WriteLeadIInv, WriteHeaderIInv, CopyBodyIInv,
       CloseIInv, RenameIInv
       DEF Step
<1>2. IInv /\ [Next]_vars => IInv'
  BY <1>1, CrashIInv, StutterIInv DEF Next
<1> QED
  BY InitIInv, <1>2, PTL DEF Spec

-----------------------------------------------------------------------------
(* What a step of one process leaves alone: the others' local state, every *)
(* file but the one it writes to, and outpath unless it renames.           *)
Act(s) == Step(s) \/ Crash(s)

(* The only files a step may change.                                       *)
LEMMA FileFrame ==
  ASSUME IInv, NEW s \in Signers, Act(s), NEW i \in Inodes
  PROVE  \/ file'[i] = file[i]
         \/ i = target[s] /\ pc[s] \in {"write", "header", "body"}
         \/ i = s /\ pc[s] = "createTemp"
         \/ pc[s] = "create" /\ i \in {"in", out}
<1>1. CASE WriteInPlace(s)
  <2>1. pc[s] = "write" /\ file \in [Inodes -> ContentType]
    BY <1>1 DEF WriteInPlace, IInv, TypeOK
  <2> QED
    BY <1>1, <2>1, WriteInPlaceFile
<1>2. CASE WriteHeader(s)
  <2>1. pc[s] = "header" /\ file \in [Inodes -> ContentType]
    BY <1>2 DEF WriteHeader, FailWriting, IInv, TypeOK
  <2> QED
    BY <1>2, <2>1, WriteHeaderFile
<1>3. CASE CopyBody(s)
  <2>1. pc[s] = "body" /\ file \in [Inodes -> ContentType]
    BY <1>3 DEF CopyBody, FailWriting, IInv, TypeOK
  <2> QED
    BY <1>3, <2>1, CopyBodyFile
<1>4. CASE Create(s) \/ CreateTemp(s)
  BY <1>4 DEF Create, CreateTemp, tempTarget, IInv, TypeOK
<1>5. CASE UNCHANGED file
  BY <1>5
<1> QED
  BY <1>1, <1>2, <1>3, <1>4, <1>5
     DEF Act, Step, Read, Stat, Lstat, Dump, Open, WriteLead, Close, Rename, FailAt, Crash

(* The local state of the other processes, and outpath.                    *)
LEMMA LocalFrame ==
  ASSUME IInv, NEW s \in Signers, Act(s)
  PROVE  /\ kind' = kind /\ fits' = fits /\ failed \subseteq failed'
         /\ \A t \in Signers : t # s =>
              /\ pc'[t] = pc[t] /\ temp'[t] = temp[t]
              /\ target'[t] = target[t] /\ ret'[t] = ret[t]
         /\ out' = out \/ (out' = s /\ pc[s] = "rename" /\ pc'[s] = "done")
<1> USE DEF IInv, TypeOK, Return, Goto, Fails, WriteRpmReturns, FailWriting
<1>1. CASE Read(s) \/ Stat(s) \/ Lstat(s) \/ Dump(s) \/ Open(s)
  BY <1>1 DEF Read, Stat, Lstat, Dump, Open
<1>2. CASE WriteInPlace(s) \/ Create(s) \/ CreateTemp(s)
  BY <1>2 DEF WriteInPlace, Create, CreateTemp
<1>3. CASE WriteLead(s) \/ WriteHeader(s) \/ CopyBody(s)
  BY <1>3 DEF WriteLead, WriteHeader, CopyBody
<1>4. CASE Close(s) \/ Rename(s) \/ Crash(s)
  BY <1>4 DEF Close, Rename, Crash
<1>5. CASE \E call \in {"read", "stat", "open", "create", "createTemp"} : FailAt(s, call)
  BY <1>5 DEF FailAt
<1> QED
  BY <1>1, <1>2, <1>3, <1>4, <1>5 DEF Act, Step

(* A process that returned or was killed takes no step.                    *)
LEMMA ActRunning ==
  ASSUME NEW s \in Signers, Act(s)
  PROVE  pc[s] \notin {"done", "crashed"}
BY DEF Act, Step, Read, Stat, Lstat, Dump, Open, WriteInPlace, Create, CreateTemp,
       WriteLead, WriteHeader, CopyBody, Close, Rename, FailAt, FailWriting, Crash

(* Only Open leads to a write in place.                                    *)
LEMMA ReachWrite ==
  ASSUME IInv, NEW s \in Signers, Act(s), pc'[s] = "write"
  PROVE  pc[s] = "open" /\ target'[s] = out
BY DEF Act, Step, Read, Stat, Lstat, Dump, Open, WriteInPlace, Create, CreateTemp,
       WriteLead, WriteHeader, CopyBody, Close, Rename, FailAt, FailWriting, Crash,
       Return, Goto, WriteRpmReturns, afterDump, IInv, TypeOK

(* If the header fits and outpath is the input, there is no other route.   *)
LEMMA StaysInPlace ==
  ASSUME IInv, NEW s \in Signers, Act(s), "lstat" \notin FaultPoints,
         kind \in {"same", "linked"}, fits[s], out = "in",
         pc[s] \notin {"createTemp", "lead", "header", "body", "close", "rename"}
  PROVE  pc'[s] \notin {"createTemp", "lead", "header", "body", "close", "rename"}
<1>1. pc[s] # "create"
  BY DEF IInv, StreamInv
<1>2. canOverwrite(out)
  BY DEF canOverwrite, IsRegular, HasLinks, sysType
<1> HIDE DEF canOverwrite
<1>3. CASE Read(s) \/ Stat(s) \/ Dump(s) \/ Open(s) \/ WriteInPlace(s) \/ Crash(s)
  BY <1>3 DEF Read, Stat, Dump, Open, WriteInPlace, Crash, Return, Goto, afterDump,
              sizeUnchanged, IInv, TypeOK
<1>4. CASE Lstat(s)
  BY <1>2, <1>4 DEF Lstat, Fails, Goto, IInv, TypeOK
<1>5. CASE \E call \in {"read", "stat", "open", "create", "createTemp"} : FailAt(s, call)
  BY <1>5 DEF FailAt, Return, Goto, IInv, TypeOK
<1> QED
  BY <1>1, <1>3, <1>4, <1>5 DEF Act, Step, Create, CreateTemp, WriteLead, WriteHeader,
                           CopyBody, Close, Rename, FailWriting

(* Writing in place and renaming stay apart.                               *)
LEMMA ApartStep ==
  ASSUME IInv, ApartInv, NEW s \in Signers, Act(s)
  PROVE  ApartInv'
<1>1. ASSUME Alone, NEW t \in Signers, pc'[t] # "done"
      PROVE  out' = OutOf(kind)'
  <2>1. t = s
    BY <1>1 DEF Alone
  <2> QED
    BY <1>1, <2>1, LocalFrame, ActRunning DEF ApartInv, OutOf
<1>2. ASSUME Agree, kind' \in {"same", "linked"}, \E t \in Signers : fits'[t]
      PROVE  /\ out' = "in"
             /\ \A t \in Signers :
                  pc'[t] \notin {"createTemp", "lead", "header", "body", "close", "rename"}
  <2>1. kind \in {"same", "linked"} /\ \E t \in Signers : fits[t]
    BY <1>2, LocalFrame
  <2>2. fits[s]
    BY <1>2, <2>1 DEF Agree, IInv, TypeOK
  <2>3. /\ out = "in"
        /\ \A t \in Signers :
             pc[t] \notin {"createTemp", "lead", "header", "body", "close", "rename"}
    BY <1>2, <2>1 DEF ApartInv
  <2>4. pc'[s] \notin {"createTemp", "lead", "header", "body", "close", "rename"}
    BY <1>2, <2>1, <2>2, <2>3, StaysInPlace DEF Agree
  <2> QED
    BY <2>3, <2>4, LocalFrame
<1>3. ASSUME Alone \/ Agree, NEW t \in Signers, pc'[t] = "write"
      PROVE  target'[t] = "in"
  <2>1. CASE t = s
    <3>1. pc[s] = "open" /\ target'[s] = out
      BY <1>3, <2>1, ReachWrite
    <3>2. kind \in {"same", "linked"} /\ fits[s]
      BY <3>1 DEF IInv, InPlaceInv
    <3> QED
      BY <1>3, <2>1, <3>1, <3>2 DEF ApartInv, OutOf
  <2>2. CASE t # s
    BY <1>3, <2>2, LocalFrame DEF ApartInv
  <2> QED
    BY <2>1, <2>2
<1> QED
  BY <1>1, <1>2, <1>3 DEF ApartInv, Alone, Agree

(* A temporary file is written by its own process only.                    *)
LEMMA OwnFile ==
  ASSUME IInv, ApartInv, Alone \/ Agree, kind \in FileKinds,
         NEW s \in Signers, Act(s), NEW t \in Signers, t # s
  PROVE  file'[t] = file[t]
<1>1. t \in Inodes /\ t # "in"
  BY Names DEF Inodes
<1>2. pc[s] = "write" => target[s] = "in"
  BY DEF ApartInv
<1>3. pc[s] \in {"header", "body"} => target[s] = s
  BY DEF IInv, StreamInv, TempInv
<1>4. pc[s] # "create"
  BY DEF IInv, StreamInv, FileKinds
<1> QED
  BY <1>1, <1>2, <1>3, <1>4, FileFrame

(* The process that takes the step.                                        *)
LEMMA WrittenOwn ==
  ASSUME IInv, WrittenInv, Alone \/ Agree, kind \in FileKinds, NEW s \in Signers, Act(s)
  PROVE  /\ pc'[s] = "body" => file'[s].head = s
         /\ pc'[s] \in {"close", "rename"} \/ (pc'[s] = "done" /\ temp'[s]) => Written(s)'
<1> USE DEF IInv, TypeOK, Return, Goto, Fails, WriteRpmReturns
<1>0. /\ s \in Inodes
      /\ pc[s] = "body" => file[s].head = s
      /\ pc[s] \in {"close", "rename"} => Written(s)
      /\ pc[s] \in {"lead", "header", "body"} => temp[s] /\ target[s] = s
      /\ temp[s] => pc[s] \in {"lead", "header", "body", "close", "rename", "crashed", "done"}
  BY DEF Inodes, WrittenInv, StreamInv, TempInv
<1>1. CASE Read(s) \/ Stat(s) \/ Lstat(s) \/ Dump(s) \/ Open(s) \/ WriteInPlace(s) \/ Create(s)
  BY <1>0, <1>1 DEF Read, Stat, Lstat, Dump, Open, WriteInPlace, Create, afterDump, StreamInv
<1>2. CASE CreateTemp(s)
  BY <1>2 DEF CreateTemp
<1>3. CASE WriteLead(s)
  <2>1. file["in"].head # "none"
    BY DEF InputInv, FileKinds
  <2> QED
    BY <1>0, <1>3, <2>1 DEF WriteLead, FailWriting, Written
<1>4. CASE WriteHeader(s)
  <2>1. CASE FailWriting(s, "header")
    BY <1>0, <1>4, <2>1 DEF FailWriting, Written
  <2>2. CASE pc'[s] = "body"
    BY <1>0, <1>4, <2>2, WriteHeaderFile DEF WriteHeader, FailWriting
  <2> QED
    BY <1>4, <2>1, <2>2 DEF WriteHeader
<1>5. CASE CopyBody(s)
  <2>1. CASE FailWriting(s, "body")
    BY <1>0, <1>5, <2>1 DEF FailWriting, Written
  <2>2. CASE pc[s] = "body" /\ pc'[s] = "body"
    BY <1>0, <1>5, <2>2, CopyBodyFile
  <2>3. CASE pc[s] = "body" /\ pc'[s] = "close" /\ ret'[s] = "ok"
    <3>1. file["in"].body = "rpm"
      BY DEF InputInv, FileKinds
    <3>2. file'[s].head = s /\ file'[s].body = "rpm"
      BY <1>0, <1>5, <2>3, <3>1, CopyBodyFile
    <3> QED
      BY <2>3, <3>2 DEF Written
  <2> QED
    BY <1>0, <1>5, <2>1, <2>2, <2>3 DEF CopyBody
<1>6. CASE Close(s) \/ Rename(s) \/ Crash(s)
  BY <1>0, <1>6 DEF Close, Rename, Crash, Written
<1>7. CASE \E call \in {"read", "stat", "open", "create", "createTemp"} : FailAt(s, call)
  BY <1>0, <1>7 DEF FailAt
<1> QED
  BY <1>1, <1>2, <1>3, <1>4, <1>5, <1>6, <1>7 DEF Act, Step

(* Temporary files that are renamed are complete, or the error was         *)
(* returned.                                                               *)
LEMMA WrittenStep ==
  ASSUME IInv, ApartInv, WrittenInv, NEW s \in Signers, Act(s)
  PROVE  WrittenInv'
<1> SUFFICES ASSUME Alone \/ Agree, kind \in FileKinds, NEW t \in Signers
             PROVE  /\ pc'[t] = "body" => file'[t].head = t
                    /\ pc'[t] \in {"close", "rename"} \/ (pc'[t] = "done" /\ temp'[t])
                         => Written(t)'
                    /\ out' = t => pc'[t] = "done" /\ Written(t)'
  BY LocalFrame DEF WrittenInv, Alone, Agree, FileKinds
<1>1. CASE t # s
  <2>1. file'[t] = file[t]
    BY <1>1, OwnFile
  <2>2. Written(t) => Written(t)'
    BY <1>1, <2>1, LocalFrame DEF Written
  <2> QED
    BY <1>1, <2>1, <2>2, LocalFrame DEF WrittenInv
<1>2. CASE t = s
  <2>1. /\ pc'[s] = "body" => file'[s].head = s
        /\ pc'[s] \in {"close", "rename"} \/ (pc'[s] = "done" /\ temp'[s]) => Written(s)'
    BY WrittenOwn
  <2>2. ASSUME out' = s
        PROVE  pc'[s] = "done" /\ Written(s)'
    <3>1. pc[s] = "rename" /\ pc'[s] = "done"
      BY <2>2, LocalFrame, ActRunning DEF WrittenInv
    <3>2. Written(s) /\ Rename(s)
      BY <2>2, <3>1, LocalFrame, ActRunning, Names
         DEF WrittenInv, Act, Step, Read, Stat, Lstat, Dump, Open, WriteInPlace, Create,
             CreateTemp, WriteLead, WriteHeader, CopyBody, Close, FailAt, FailWriting,
             Crash, Goto, IInv, TypeOK
    <3> QED
      BY <3>1, <3>2 DEF Rename, Written, Fails
  <2> QED
    BY <1>2, <2>1, <2>2
<1> QED
  BY <1>1, <1>2

(* Writing in place without a failure puts a new header on the input.      *)
LEMMA WriteInPlaceSigns ==
  ASSUME IInv, ApartInv, Alone \/ Agree, NEW s \in Signers, WriteInPlace(s), ret'[s] = "ok"
  PROVE  file'["in"].head = s
<1>1. target[s] = "in"
  BY DEF ApartInv, WriteInPlace
<1> QED
  BY <1>1, WriteInPlaceFile DEF IInv, TypeOK

(* A return without an error stands for a renamed file, one that could not *)
(* be closed or renamed, or a new header on the input.                     *)
LEMMA OkStep ==
  ASSUME IInv, ApartInv, OkInv, NEW s \in Signers, Act(s)
  PROVE  OkInv'
<1> SUFFICES ASSUME Alone \/ (Agree /\ NoWriteFaults), kind \in FileKinds,
                    NEW t \in Signers, pc'[t] = "done", ret'[t] = "ok"
             PROVE  \/ out' \in Signers \/ temp'[t]
                    \/ out' = "in" /\ file'["in"].head \in Signers
  BY LocalFrame DEF OkInv, Alone, Agree, NoWriteFaults, FileKinds
<1>0. out' = out \/ out' \in Signers
  BY LocalFrame
<1>1. CASE t # s
  <2>1. Agree /\ NoWriteFaults
    BY <1>1 DEF Alone
  <2>2. out \in Signers \/ temp[t] \/ (out = "in" /\ file["in"].head \in Signers)
    BY <1>1, LocalFrame DEF OkInv
  <2>3. file["in"].head \in Signers => file'["in"].head \in Signers
    <3>1. CASE WriteInPlace(s)
      <4>1. ret'[s] = "ok"
        BY <2>1, <3>1 DEF WriteInPlace, Fails, NoWriteFaults, Return, IInv, TypeOK
      <4> QED
        BY <2>1, <3>1, <4>1, WriteInPlaceSigns
    <3>2. CASE ~WriteInPlace(s) /\ ~Crash(s)
      <4>1. pc[s] # "write"
        BY <3>2 DEF Act, Step, Read, Stat, Lstat, Dump, Open, Create, CreateTemp, WriteLead,
             WriteHeader, CopyBody, Close, Rename, FailAt, FailWriting
      <4>2. pc[s] \in {"header", "body"} => target[s] = s
        BY DEF IInv, StreamInv, TempInv
      <4>3. pc[s] # "create"
        BY DEF IInv, StreamInv, FileKinds
      <4> QED
        BY <4>1, <4>2, <4>3, FileFrame, Names DEF Inodes
    <3>3. CASE Crash(s)
      BY <3>3 DEF Crash
    <3> QED
      BY <3>1, <3>2, <3>3
  <2> QED
    BY <1>0, <1>1, <2>2, <2>3, LocalFrame
<1>2. CASE t = s
  <2> USE DEF IInv, TypeOK, Return, Goto, Fails, WriteRpmReturns
  <2>1. CASE WriteInPlace(s)
    <3>1. file'["in"].head = s
      BY <1>2, <2>1, WriteInPlaceSigns
    <3>2. out \in {"in"} \cup Signers
      BY <2>1, OutNames DEF WriteInPlace, InPlaceInv
    <3> QED
      BY <1>0, <3>1, <3>2
  <2>2. CASE Read(s) \/ Stat(s) \/ Lstat(s) \/ Dump(s) \/ Open(s) \/ Create(s) \/ CreateTemp(s)
    BY <1>2, <2>2 DEF Read, Stat, Lstat, Dump, Open, Create, CreateTemp, afterDump
  <2>3. CASE WriteLead(s) \/ WriteHeader(s) \/ CopyBody(s)
    BY <1>2, <2>3 DEF WriteLead, WriteHeader, CopyBody, FailWriting, StreamInv
  <2>4. CASE Close(s) \/ Rename(s) \/ Crash(s)
    BY <1>2, <2>4 DEF Close, Rename, Crash, TempInv
  <2>5. CASE \E call \in {"read", "stat", "open", "create", "createTemp"} : FailAt(s, call)
    BY <1>2, <2>5 DEF FailAt
  <2> QED
    BY <2>1, <2>2, <2>3, <2>4, <2>5 DEF Act, Step
<1> QED
  BY <1>1, <1>2

(* A step of the process on those routes.                                  *)
LEMMA StreamOkStep ==
  ASSUME IInv, ApartInv, Alone, kind \notin FileKinds, NEW s \in Signers, Act(s),
         StreamOk(s)
  PROVE  StreamOk(s)'
<1> USE DEF IInv, TypeOK, Return, Goto, Fails, WriteRpmReturns
<1>0. /\ out = OutOf(kind) /\ kind' = kind
      /\ pc[s] \notin {"dump", "open", "write"}
      /\ s \in Inodes /\ "in" \in Inodes /\ "pipe" \in Inodes /\ s \notin {"in", "pipe"}
      /\ kind \in {"symlink", "pipe", "stdout"}
      /\ OutOf(kind) \in {"symlink", "pipe"}
      /\ kind = "symlink" <=> OutOf(kind) = "symlink"
      /\ temp[s] => target[s] = s
      /\ pc[s] \in {"close", "rename"} => temp[s]
      /\ temp[s] => pc[s] \in {"lead", "header", "body", "close", "rename", "crashed", "done"}
  BY ActRunning, LocalFrame, Names, OutKindsAssumption
     DEF ApartInv, InPlaceInv, TempInv, FileKinds, Inodes, OutOf, Kinds
<1>1. CASE Read(s) \/ Stat(s) \/ Lstat(s)
  BY <1>0, <1>1 DEF Read, Stat, Lstat, stdoutStream, canOverwrite, StreamOk
<1>2. CASE Create(s)
  BY <1>0, <1>2, Contents DEF Create, StreamOk
<1>3. CASE CreateTemp(s)
  BY <1>0, <1>3 DEF CreateTemp, tempTarget, StreamOk
<1>4. CASE WriteLead(s)
  <2>1. pc[s] = "lead" /\ UNCHANGED <<file, temp, target, out>>
    BY <1>4 DEF WriteLead, FailWriting
  <2>2. CASE pc'[s] = "header" /\ file["in"].head # "none"
    BY <1>0, <2>1, <2>2 DEF StreamOk
  <2>3. CASE file["in"].head = "none" /\ WriteRpmReturns(s, "error")
    <3>1. target[s] = "in"
      BY <2>1, <2>3, <1>0, Contents DEF StreamOk
    <3> QED
      BY <1>0, <2>1, <2>3, <3>1 DEF StreamOk
  <2>4. CASE FailWriting(s, "lead")
    BY <1>0, <2>1, <2>4 DEF FailWriting, StreamOk, Written
  <2> QED
    BY <1>4, <2>2, <2>3, <2>4 DEF WriteLead
<1>5. CASE WriteHeader(s)
  <2>1. pc[s] = "header" /\ target[s] # "in" /\ file'["in"] = file["in"]
    BY <1>0, <1>5, WriteHeaderFile DEF WriteHeader, FailWriting, StreamOk
  <2>2. CASE FailWriting(s, "header")
    BY <1>0, <1>5, <2>1, <2>2 DEF WriteHeader, FailWriting, StreamOk, Written
  <2>3. CASE pc'[s] = "body" /\ UNCHANGED <<temp, target>>
    BY <1>0, <1>5, <2>1, <2>3, WriteHeaderFile DEF StreamOk
  <2> QED
    BY <1>5, <2>2, <2>3 DEF WriteHeader
<1>6. CASE CopyBody(s)
  <2>1. pc[s] = "body" /\ target[s] # "in" /\ file'["in"] = file["in"]
    BY <1>0, <1>6, CopyBodyFile DEF CopyBody, FailWriting, StreamOk
  <2>2. CASE FailWriting(s, "body")
    BY <1>0, <1>6, <2>1, <2>2 DEF CopyBody, FailWriting, StreamOk, Written
  <2>3. CASE pc'[s] = "body" /\ UNCHANGED <<temp, target>>
    BY <1>0, <1>6, <2>1, <2>3, CopyBodyFile DEF StreamOk
  <2>4. CASE /\ pc'[s] = (IF temp[s] THEN "close" ELSE "done")
             /\ ret'[s] = "ok" /\ UNCHANGED <<temp, target, out>>
    <3>1. file["in"] = Original
      BY <1>0, <2>1 DEF StreamOk
    <3>2. file'[target[s]].head = s /\ file'[target[s]].body = "rpm"
      BY <1>6, <2>1, <2>4, <3>1, CopyBodyFile, Contents DEF StreamOk
    <3> QED
      BY <1>0, <2>1, <2>4, <3>1, <3>2 DEF StreamOk, Written, IsSigned
  <2> QED
    BY <1>6, <2>2, <2>3, <2>4 DEF CopyBody
<1>7. CASE Close(s) \/ Rename(s) \/ Crash(s)
  BY <1>0, <1>7 DEF Close, Rename, Crash, StreamOk, Written
<1>8. CASE \E call \in {"read", "stat", "open", "create", "createTemp"} : FailAt(s, call)
  BY <1>0, <1>8 DEF FailAt, StreamOk
<1> QED
  BY <1>0, <1>1, <1>2, <1>3, <1>4, <1>5, <1>6, <1>7, <1>8
     DEF Act, Step, Dump, Open, WriteInPlace

(* The second invariant holds as well.                                     *)
THEOREM RouteInvariance == Spec => []RouteInv
<1>1. Init => RouteInv
  <2> SUFFICES ASSUME Init PROVE RouteInv
    OBVIOUS
  <2>1. ApartInv
    BY OutKindsAssumption DEF Init, ApartInv, OutOf, Kinds
  <2>2. WrittenInv
    BY OutKindsAssumption, SignersAssumption DEF Init, WrittenInv, OutOf, Kinds, FileKinds
  <2>3. OkInv /\ StreamOkInv
    BY DEF Init, OkInv, StreamOkInv, StreamOk, Inodes
  <2> QED
    BY <2>1, <2>2, <2>3 DEF RouteInv
<1>2. ASSUME IInv, RouteInv, NEW s \in Signers, Act(s)
      PROVE  RouteInv'
  <2>1. ApartInv' /\ WrittenInv' /\ OkInv'
    BY <1>2, ApartStep, WrittenStep, OkStep DEF RouteInv
  <2>2. StreamOkInv'
    <3> SUFFICES ASSUME Alone, kind \notin FileKinds, NEW t \in Signers
                 PROVE  StreamOk(t)'
      BY <1>2, LocalFrame DEF StreamOkInv, Alone, FileKinds
    <3>1. t = s /\ StreamOk(s)
      BY <1>2 DEF Alone, RouteInv, StreamOkInv
    <3> QED
      BY <1>2, <3>1, StreamOkStep DEF RouteInv
  <2> QED
    BY <2>1, <2>2 DEF RouteInv
<1>3. ASSUME RouteInv, UNCHANGED vars
      PROVE  RouteInv'
  BY <1>3 DEF vars, RouteInv, ApartInv, WrittenInv, OkInv, StreamOkInv, StreamOk, Written,
              IsSigned, Alone, Agree, NoWriteFaults, FileKinds, OutOf
<1>4. IInv /\ RouteInv /\ [Next]_vars => RouteInv'
  BY <1>2, <1>3 DEF Next, Act
<1> QED
  BY <1>1, <1>4, Invariance, PTL DEF Spec

-----------------------------------------------------------------------------
(* Every variable keeps its type, and no process writes before it has a    *)
(* file to write to, whatever outpath is and whatever fails (rewriteRpm,   *)
(* signatures.go:207-258).                                                 *)
THEOREM TypeCorrect == Spec => []TypeOK
BY Invariance, PTL DEF IInv

(* The input, under whatever names, is at every moment as it was or holds  *)
(* its body behind a whole header of a signer whose header fits, or behind *)
(* a torn one after a failed write, unless outpath is a symbolic link to   *)
(* it; for any number of signers and whatever fails (canOverwrite,         *)
(* writeInPlace, signatures.go:189-200, 277-301).                          *)
THEOREM InputSafe == Spec => []InputUntouched
BY Invariance, PTL DEF IInv

(* Who returned leaves no temporary file behind, unless closing or         *)
(* renaming one failed (signatures.go:255-270).                            *)
THEOREM TempRemoved == Spec => []NoTempLeft
<1>1. IInv => NoTempLeft
  BY DEF IInv, TempInv, NoTempLeft
<1> QED
  BY <1>1, Invariance, PTL

(* A process alone, or processes whose headers all fit or none of which    *)
(* does, never lose the general header and payload, except through a       *)
(* symbolic link or by renaming a file they failed to write                *)
(* (signatures.go:207-270).                                                *)
THEOREM BodySafe ==
  ASSUME Alone \/ Agree
  PROVE  Spec => []BodyNeverLost
<1>1. ASSUME IInv, RouteInv
      PROVE  BodyNeverLost
  <2>1. CASE kind = "same"
    <3>1. CASE out = "in"
      BY <1>1, <2>1, <3>1 DEF IInv, InputInv, BodyNeverLost
    <3>2. CASE out \in Signers
      <4>1. Written(out)
        BY <1>1, <2>1, <3>2 DEF RouteInv, WrittenInv, FileKinds
      <4>2. Shown = file[out]
        BY <3>2, Names DEF Shown
      <4> QED
        BY <2>1, <4>1, <4>2 DEF Written, BodyNeverLost
    <3> QED
      BY <1>1, <2>1, <3>1, <3>2 DEF IInv, OutInv, OutOf
  <2>2. CASE kind # "same"
    BY <1>1, <2>2 DEF IInv, InputInv, BodyNeverLost
  <2> QED
    BY <2>1, <2>2
<1> QED
  BY <1>1, Invariance, RouteInvariance, PTL

(* A process alone, or processes that agree and whose writes do not fail,  *)
(* return without an error only if outpath holds a whole signed package,   *)
(* or the temporary file does because closing or renaming it failed        *)
(* (signatures.go:202, 262-269).                                           *)
THEOREM OkCorrect ==
  ASSUME Alone \/ (Agree /\ NoWriteFaults /\ OutKinds \subseteq FileKinds)
  PROVE  Spec => []OkMeansSigned
<1>1. ASSUME IInv, RouteInv, NEW s \in Signers, pc[s] = "done", ret[s] = "ok"
      PROVE  \/ IsSigned(Shown)
             \/ failed \cap {"close", "rename"} # {} /\ temp[s] /\ IsSigned(file[s])
  <2>1. ASSUME NEW t \in Signers, Written(t), t = s \/ NoWriteFaults
        PROVE  IsSigned(file[t])
    BY <1>1, <2>1 DEF Written, IsSigned, NoWriteFaults, IInv, TypeOK
  <2>2. ASSUME out \in Signers
        PROVE  Shown = file[out]
    BY <2>2, Names DEF Shown
  <2>3. ASSUME temp[s]
        PROVE  failed \cap {"close", "rename"} # {}
    BY <1>1, <2>3 DEF IInv, TempInv
  <2>4. CASE kind \in FileKinds
    <3>1. CASE temp[s]
      BY <1>1, <2>1, <2>3, <2>4, <3>1 DEF RouteInv, WrittenInv
    <3>2. CASE out \in Signers
      <4>1. Written(out) /\ (out = s \/ NoWriteFaults)
        BY <1>1, <2>4, <3>2 DEF RouteInv, WrittenInv, Alone
      <4> QED
        BY <2>1, <2>2, <3>2, <4>1
    <3>3. CASE out = "in" /\ file["in"].head \in Signers
      <4>1. file["in"].body = "rpm"
        BY <1>1, <2>4 DEF IInv, InputInv, FileKinds
      <4> QED
        BY <3>3, <4>1 DEF Shown, IsSigned
    <3> QED
      BY <1>1, <2>4, <3>1, <3>2, <3>3 DEF RouteInv, OkInv
  <2>5. CASE kind \notin FileKinds
    <3>1. StreamOk(s)
      BY <1>1, <2>5 DEF RouteInv, StreamOkInv, IInv, TypeOK
    <3>2. CASE temp[s]
      BY <1>1, <2>1, <2>3, <3>1, <3>2 DEF StreamOk
    <3>3. CASE out = s /\ Written(s)
      BY <2>1, <2>2, <3>3
    <3>4. CASE out = "pipe" /\ IsSigned(file["pipe"])
      BY <3>4 DEF Shown
    <3> QED
      BY <1>1, <3>1, <3>2, <3>3, <3>4 DEF StreamOk
  <2> QED
    BY <2>4, <2>5
<1>2. IInv /\ RouteInv => OkMeansSigned
  BY <1>1 DEF OkMeansSigned
<1> QED
  BY <1>2, Invariance, RouteInvariance, PTL

(* What opening outpath shows changes only by WriteInPlace or Rename, and  *)
(* then to the package as signed by the process that took the step.        *)
LEMMA ShownStep ==
  ASSUME Alone \/ Agree, NoWriteFaults, kind \in FileKinds, IInv, RouteInv,
         NEW s \in Signers, Act(s)
  PROVE  \/ ShownTo(Shown)' = ShownTo(Shown)
         \/ ShownTo(Shown)' = [head |-> s, body |-> "rpm"]
<1>1. out \in {"in", "none", "other"} \cup Signers /\ {"in", "other"} \cup Signers \subseteq Inodes
  BY OutKindsAssumption DEF IInv, TypeOK, OutInv, OutOf, FileKinds, Inodes
<1>2. pc[s] \in {"header", "body", "lead", "close", "rename"} => target[s] = s
  BY DEF IInv, StreamInv, TempInv
<1>3. pc[s] # "create" /\ out # s
  BY ActRunning DEF IInv, StreamInv, FileKinds, RouteInv, WrittenInv
<1>4. CASE WriteInPlace(s)
  <2>1. /\ ret'[s] = "ok" /\ target[s] = "in" /\ out' = out /\ out \in {"in"} \cup Signers
        /\ file["in"].size = "orig" /\ file["in"].body = "rpm"
    BY <1>4, OutNames
       DEF WriteInPlace, Fails, NoWriteFaults, Return, RouteInv, ApartInv, IInv, TypeOK,
           InPlaceInv, InputInv, FileKinds
  <2>2. file'["in"].head = s /\ file'["in"].body = "rpm"
    BY <1>4, <2>1, WriteInPlaceFile DEF IInv, TypeOK
  <2>3. CASE out = "in"
    BY <2>1, <2>2, <2>3 DEF Shown, ShownTo
  <2>4. CASE out \in Signers
    <3>1. file'[out] = file[out]
      BY <1>1, <2>1, <2>4, <1>4, <1>3, FileFrame, Names DEF WriteInPlace
    <3> QED
      BY <2>1, <2>4, <3>1, Names DEF Shown, ShownTo
  <2> QED
    BY <2>1, <2>3, <2>4
<1>5. CASE Rename(s) /\ out' = s
  <2>1. Written(s) /\ file' = file
    BY <1>5 DEF Rename, RouteInv, WrittenInv
  <2>2. file[s].head = s /\ file[s].body = "rpm"
    BY <2>1 DEF Written, NoWriteFaults, IInv, TypeOK
  <2> QED
    BY <1>5, <2>1, <2>2, Names DEF Shown, ShownTo
<1>6. CASE ~WriteInPlace(s) /\ out' = out
  <2>1. CASE file' = file
    BY <1>6, <2>1 DEF Shown, ShownTo
  <2>2. CASE file' # file
    <3>1. pc[s] # "write"
      BY <1>6, <2>2 DEF Act, Step, Read, Stat, Lstat, Dump, Open, Create, CreateTemp,
           WriteLead, WriteHeader, CopyBody, Close, Rename, FailAt, FailWriting, Crash
    <3>2. \A i \in Inodes : i # s => file'[i] = file[i]
      BY <1>2, <1>3, <3>1, FileFrame
    <3> QED
      BY <1>1, <1>3, <1>6, <3>2, Names DEF Shown, ShownTo
  <2> QED
    BY <2>1, <2>2
<1> QED
  BY <1>4, <1>5, <1>6, LocalFrame
     DEF Act, Step, Read, Stat, Lstat, Dump, Open, Create, CreateTemp,
         WriteLead, WriteHeader, CopyBody, Close, Rename, FailAt, FailWriting, Crash

(* outpath is replaced atomically: if it is no symbolic link, pipe or      *)
(* device, the processes' routes do not meet and the package can be        *)
(* written, it changes only by a whole signed package taking the place of  *)
(* what was there, whoever is killed and whichever other calls fail        *)
(* ("write-rename", signatures.go:255).                                    *)
THEOREM Atomic ==
  ASSUME Alone \/ Agree, NoWriteFaults, OutKinds \subseteq FileKinds
  PROVE  Spec => ReplacesAtomically
<1>1. Init => AR!Init
  BY OutKindsAssumption
     DEF Init, AR!Init, Shown, ShownTo, OutOf, FileKinds, Inodes, Original, OtherRpm, Empty
<1>2. ASSUME IInv, RouteInv, NEW s \in Signers, Act(s)
      PROVE  AR!Next \/ UNCHANGED ShownTo(Shown)
  <2>1. kind \in FileKinds
    BY <1>2 DEF IInv, TypeOK
  <2>2. \/ ShownTo(Shown)' = ShownTo(Shown)
        \/ ShownTo(Shown)' = [head |-> s, body |-> "rpm"]
    BY <1>2, <2>1, ShownStep
  <2> QED
    BY <2>2 DEF AR!Next, AR!Replace
<1>3. UNCHANGED vars => UNCHANGED ShownTo(Shown)
  BY DEF vars, ShownTo, Shown
<1>4. IInv /\ RouteInv /\ [Next]_vars => [AR!Next]_(ShownTo(Shown))
  BY <1>2, <1>3 DEF Next, Act
<1> QED
  BY <1>1, <1>4, Invariance, RouteInvariance, PTL DEF Spec, ReplacesAtomically, AR!Spec

=============================================================================
