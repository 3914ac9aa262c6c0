----------------------------- MODULE RewriteRpm -----------------------------
(***************************************************************************)
(* SignRpmFile, RewriteWithSignatures and rewriteRpm (signatures.go): how  *)
(* a freshly signed package gets to outpath.  Three routes lead there:     *)
(*   in place    outpath is the input itself and the new signature header  *)
(*               has exactly the size of the old one: overwrite it;        *)
(*   stream      outpath is "-", a pipe, a device or a symbolic link:      *)
(*               create it and write the whole package to it;              *)
(*   rename      otherwise, and as the fallback of the first: write a      *)
(*               temporary file beside outpath and rename it.              *)
(*                                                                         *)
(* One action per system call, so that a crash of the process, a failing   *)
(* call or a step of another process can come between any two of them.     *)
(* A file's contents are the signature header it begins with and the rest  *)
(* of the package (general header and payload).                            *)
(***************************************************************************)
EXTENDS Naturals, FiniteSets

CONSTANTS
    Signers,     \* processes that sign the same input file
    OutKinds,    \* what outpath may be: see Kinds
    FitChoices,  \* whether the signature headers pad to the original size
    FaultPoints, \* system calls that may fail
    MaxFaults,   \* bound on the number of different calls that fail
    Crashes      \* a process may be killed

Kinds == {"same",     \* the input file, under its only name
          "linked",   \* the input file, which has a second name
          "symlink",  \* a symbolic link to the input file
          "absent",   \* nothing yet
          "other",    \* another regular file
          "pipe",     \* a pipe or device
          "stdout"}   \* "-"

Calls == {"read", "stat", "lstat", "open", "write", "create", "createTemp",
          "lead", "header", "body", "close", "rename"}

ASSUME OutKindsAssumption    == OutKinds \subseteq Kinds
ASSUME FitChoicesAssumption  == FitChoices \subseteq [Signers -> BOOLEAN]
ASSUME FaultPointsAssumption == FaultPoints \subseteq Calls
ASSUME MaxFaultsAssumption   == MaxFaults \in Nat
ASSUME CrashesAssumption     == Crashes \in BOOLEAN
ASSUME SignersAssumption     ==
  Signers \cap {"in", "other", "pipe", "none", "symlink", "orig", "torn"} = {}

(* Inodes: the input, another file, a pipe or standard output, and one     *)
(* temporary file per process.                                             *)
Inodes == {"in", "other", "pipe"} \cup Signers

(* head: whose signature header the file begins with.  size: how long that *)
(* header is, "orig" or as the smallest header of a signer.  body: the     *)
(* rest, "rpm" if it is the input's, in full and right behind the header.  *)
ContentType ==
  [head : Signers \cup {"orig", "none", "other", "torn"},
   size : Signers \cup {"orig", "none"},
   body : {"rpm", "part", "none", "other", "corrupt"}]

Empty    == [head |-> "none", size |-> "none", body |-> "none"]
Original == [head |-> "orig", size |-> "orig", body |-> "rpm"]
OtherRpm == [head |-> "other", size |-> "none", body |-> "other"]

VARIABLES
    kind,    \* what outpath was at first
    fits,    \* fits[s]: s's signature header pads to the original size
    file,    \* contents of every inode
    out,     \* the inode outpath names: "none", "symlink" (to "in") or one of Inodes
    temp,    \* temp[s]: the name of s's temporary file exists
    pc,      \* the next system call of every process
    target,  \* outstream of writeRpm
    ret,     \* what SignRpmFile returned
    failed   \* the system calls that have failed so far

vars == <<kind, fits, file, out, temp, pc, target, ret, failed>>

OutOf(k) ==
  IF k \in {"same", "linked"} THEN "in"
  ELSE IF k = "absent" THEN "none"
  ELSE IF k = "stdout" THEN "pipe" ELSE k

Init ==
  /\ kind \in OutKinds /\ fits \in FitChoices
  /\ file = [i \in Inodes |-> IF i = "in" THEN Original
                              ELSE IF i = "other" THEN OtherRpm ELSE Empty]
  /\ out = OutOf(kind)
  /\ temp = [s \in Signers |-> FALSE]
  /\ pc = [s \in Signers |-> "read"]
  /\ target = [s \in Signers |-> "none"]
  /\ ret = [s \in Signers |-> "running"]
  /\ failed = {}

-----------------------------------------------------------------------------
(* A call fails, in this process or in another.                            *)
Fails(call) ==
  /\ call \in FaultPoints /\ Cardinality(failed \cup {call}) <= MaxFaults
  /\ failed' = failed \cup {call}

Goto(s, label)   == pc' = [pc EXCEPT ![s] = label]
Return(s, value) == Goto(s, "done") /\ ret' = [ret EXCEPT ![s] = value]

(* A system call at which an error is returned to the caller at once.      *)
FailAt(s, call) ==
  /\ pc[s] = call /\ Fails(call)
  /\ Return(s, "error")
  /\ UNCHANGED <<kind, fits, file, out, temp, target>>

(* SignRpmStream or ReadHeader, and insertSignatures: the input must be    *)
(* readable and its digests right.                                         *)
Read(s) ==
  /\ pc[s] = "read"
  /\ IF file["in"].body = "rpm" /\ file["in"].head \in Signers \cup {"orig"}
     THEN Goto(s, "stat") /\ UNCHANGED ret
     ELSE Return(s, "error")
  /\ UNCHANGED <<kind, fits, file, out, temp, target, failed>>

stdoutForgotten == "none"
stdoutStream == "pipe"

(* infile.Stat; "-" stands for standard output.                            *)
Stat(s) ==
  /\ pc[s] = "stat"
  /\ IF kind = "stdout"
     THEN Goto(s, "lead") /\ target' = [target EXCEPT ![s] = stdoutStream]
     ELSE Goto(s, "lstat") /\ UNCHANGED target
  /\ UNCHANGED <<kind, fits, file, out, temp, ret, failed>>

(* fileutil.HasLinks: os.FileInfo.Sys is a *syscall.Stat_t, the assertion  *)
(* to *unix.Stat_t fails, and the answer is false whatever Nlink is.       *)
sysType == "syscall.Stat_t"
HasLinks(nlink) == sysType = "unix.Stat_t" /\ nlink # 1

nlinks == IF out = "in" /\ kind = "linked" THEN 2 ELSE 1

IsRegular(o) == o \notin {"symlink", "pipe"}

canOverwriteAnything(o) == IsRegular(o) /\ ~HasLinks(nlinks)
canOverwrite(o) == IsRegular(o) /\ o = "in" /\ ~HasLinks(nlinks)

(* os.Lstat(outpath) and the choice of the route; any error, not only that *)
(* nothing is there, leads to write-rename.                                *)
Lstat(s) ==
  /\ pc[s] = "lstat"
  /\ \/ /\ Fails("lstat")
        /\ Goto(s, "createTemp")
     \/ /\ Goto(s, IF out = "none" THEN "createTemp"
                   ELSE IF canOverwrite(out) THEN "dump"
                   ELSE IF ~IsRegular(out) THEN "create"
                   ELSE "createTemp")
        /\ UNCHANGED failed
  /\ UNCHANGED <<kind, fits, file, out, temp, target, ret>>

sizeUnchecked(s) == TRUE
sizeUnchanged(s) == fits[s]

afterDumpRetry(s) == IF sizeUnchanged(s) THEN "open" ELSE "dump"
afterDump(s) == IF sizeUnchanged(s) THEN "open" ELSE "createTemp"

(* writeInPlace: DumpSignatureHeader(true) and the check of its length; if *)
(* the size changed, rewriteRpm falls back to write-rename.                *)
Dump(s) ==
  /\ pc[s] = "dump"
  /\ Goto(s, afterDump(s))
  /\ UNCHANGED <<kind, fits, file, out, temp, target, ret, failed>>

(* writeInPlace: OpenFile follows whatever outpath names by now.           *)
Open(s) ==
  /\ pc[s] = "open"
  /\ target' = [target EXCEPT ![s] = out]
  /\ Goto(s, "write")
  /\ UNCHANGED <<kind, fits, file, out, temp, ret, failed>>

(* writeInPlace: Write; a failing write may leave part of the header.      *)
Overwritten(c, s) ==
  [c EXCEPT !.head = s, !.body = IF fits[s] /\ c.size = "orig" THEN @ ELSE "corrupt"]

WriteInPlace(s) ==
  /\ pc[s] = "write"
  /\ \/ /\ file' = [file EXCEPT ![target[s]] = Overwritten(@, s)]
        /\ Return(s, "ok")
        /\ UNCHANGED failed
     \/ /\ Fails("write")
        /\ \/ file' = [file EXCEPT ![target[s]].head = "torn"]
           \/ UNCHANGED file
        /\ Return(s, "error")
  /\ UNCHANGED <<kind, fits, out, temp, target>>

(* os.Create on a path that is not a regular file: a symbolic link is      *)
(* followed and its target truncated.                                      *)
Create(s) ==
  LET i == IF out = "symlink" THEN "in" ELSE out IN
  /\ pc[s] = "create"
  /\ file' = [file EXCEPT ![i] = Empty]
  /\ target' = [target EXCEPT ![s] = i]
  /\ Goto(s, "lead")
  /\ UNCHANGED <<kind, fits, out, temp, ret, failed>>

tempTargetOut(s) == IF out = "none" THEN s ELSE out
tempTarget(s) == s

(* os.CreateTemp beside outpath.                                           *)
CreateTemp(s) ==
  /\ pc[s] = "createTemp"
  /\ temp' = [temp EXCEPT ![s] = TRUE]
  /\ file' = [file EXCEPT ![tempTarget(s)] = Empty]
  /\ target' = [target EXCEPT ![s] = tempTarget(s)]
  /\ Goto(s, "lead")
  /\ UNCHANGED <<kind, fits, out, ret, failed>>

-----------------------------------------------------------------------------
WriteRpmReturnsNoDefer(s, value) == Return(s, value)

(* writeRpm.  When it returns, with err, the deferred functions run: on    *)
(* the rename route that is Close and Rename in any case, since the err    *)
(* they test is not the one that writeRpm's error is assigned to.          *)
WriteRpmReturns(s, value) ==
  IF temp[s]
  THEN Goto(s, "close") /\ ret' = [ret EXCEPT ![s] = value]
  ELSE Return(s, value)

FailWritingSwallowed(s, call) ==
  /\ pc[s] = call /\ Fails(call)
  /\ WriteRpmReturns(s, "ok")
FailWriting(s, call) ==
  /\ pc[s] = call /\ Fails(call)
  /\ WriteRpmReturns(s, "error")

(* Seek, read the lead of the input, write it.                             *)
WriteLead(s) ==
  /\ \/ /\ pc[s] = "lead" /\ file["in"].head # "none"
        /\ Goto(s, "header")
        /\ UNCHANGED <<ret, failed>>
     \/ /\ pc[s] = "lead" /\ file["in"].head = "none"    \* io.EOF
        /\ WriteRpmReturns(s, "error")
        /\ UNCHANGED failed
     \/ FailWriting(s, "lead")
  /\ UNCHANGED <<kind, fits, file, out, temp, target>>

(* sigHeader.WriteTo.                                                      *)
WriteHeader(s) ==
  /\ \/ /\ pc[s] = "header"
        /\ file' = [file EXCEPT ![target[s]].head = s, ![target[s]].size = s]
        /\ Goto(s, "body")
        /\ UNCHANGED <<ret, failed>>
     \/ /\ FailWriting(s, "header")
        /\ file' = [file EXCEPT ![target[s]].head = "torn"]
  /\ UNCHANGED <<kind, fits, out, temp, target>>

(* Seek behind the old signature header and io.Copy, in two steps.         *)
CopyBody(s) ==
  /\ \/ /\ pc[s] = "body" /\ file[target[s]].body = "none"
        /\ file' = [file EXCEPT ![target[s]].body = "part"]
        /\ UNCHANGED <<pc, ret, failed>>
     \/ /\ pc[s] = "body" /\ file[target[s]].body = "part"
        /\ file' = [file EXCEPT ![target[s]].body = file["in"].body]
        /\ WriteRpmReturns(s, "ok")
        /\ UNCHANGED failed
     \/ /\ FailWriting(s, "body")
        /\ UNCHANGED file
  /\ UNCHANGED <<kind, fits, out, temp, target>>

-----------------------------------------------------------------------------
(* The deferred function: Chmod, whose error is ignored, and Close.  A     *)
(* failing Close ends it, and its error goes nowhere.                      *)
Close(s) ==
  /\ pc[s] = "close"
  /\ \/ /\ Goto(s, "rename")
        /\ UNCHANGED failed
     \/ /\ Fails("close")
        /\ Goto(s, "done")
  /\ UNCHANGED <<kind, fits, file, out, temp, target, ret>>

(* os.Rename; its error goes nowhere either.                               *)
Rename(s) ==
  /\ pc[s] = "rename"
  /\ Goto(s, "done")
  /\ \/ /\ out' = s
        /\ temp' = [temp EXCEPT ![s] = FALSE]
        /\ UNCHANGED failed
     \/ /\ Fails("rename")
        /\ UNCHANGED <<out, temp>>
  /\ UNCHANGED <<kind, fits, file, target, ret>>

(* The process is killed; deferred functions do not run.                   *)
Crash(s) ==
  /\ Crashes /\ pc[s] \notin {"done", "crashed"}
  /\ Goto(s, "crashed")
  /\ UNCHANGED <<kind, fits, file, out, temp, target, ret, failed>>

Step(s) ==
  \/ Read(s) \/ Stat(s) \/ Lstat(s)
  \/ Dump(s) \/ Open(s) \/ WriteInPlace(s)
  \/ Create(s) \/ CreateTemp(s)
  \/ WriteLead(s) \/ WriteHeader(s) \/ CopyBody(s)
  \/ Close(s) \/ Rename(s)
  \/ \E call \in {"read", "stat", "open", "create", "createTemp"} : FailAt(s, call)

Next == \E s \in Signers : Step(s) \/ Crash(s)

(* A process that is not killed goes on: its calls return.                 *)
Spec == Init /\ [][Next]_vars /\ \A s \in Signers : WF_vars(Step(s))

-----------------------------------------------------------------------------
TypeOK ==
  /\ kind \in OutKinds /\ fits \in FitChoices
  /\ file \in [Inodes -> ContentType]
  /\ out \in Inodes \cup {"none", "symlink"}
  /\ temp \in [Signers -> BOOLEAN]
  /\ pc \in [Signers -> Calls \cup {"dump", "done", "crashed"}]
  /\ target \in [Signers -> Inodes \cup {"none"}]
  /\ \A s \in Signers :
       pc[s] \in {"write", "lead", "header", "body"} => target[s] # "none"
  /\ ret \in [Signers -> {"running", "ok", "error"}]
  /\ failed \subseteq FaultPoints

(* What outpath shows to somebody who opens it.                            *)
Shown == IF out = "none" THEN Empty
         ELSE IF out = "symlink" THEN file["in"] ELSE file[out]
IsSigned(c) == c.head \in Signers /\ c.body = "rpm"

(* If SignRpmFile returns without an error, outpath holds a whole package  *)
(* with a new signature, or, if closing or renaming the temporary file     *)
(* failed unnoticed, that file does (signatures.go:202, 262-269).          *)
OkMeansSigned ==
  \A s \in Signers : pc[s] = "done" /\ ret[s] = "ok" =>
    \/ IsSigned(Shown)
    \/ failed \cap {"close", "rename"} # {} /\ temp[s] /\ IsSigned(file[s])

(* The general header and payload are never lost: at every moment, with    *)
(* calls failing and processes killed, the input or outpath still names a  *)
(* file that holds them.  That does not hold of a symbolic link to the     *)
(* input, which os.Create truncates (signatures.go:247), nor if the input  *)
(* is to be replaced and the temporary file could not be written, since it *)
(* is renamed all the same (signatures.go:261).                            *)
BodyNeverLost ==
  \/ Shown.body = "rpm"
  \/ file["in"].body = "rpm" /\ (kind = "same" => out = "in")
  \/ kind = "symlink"
  \/ kind = "same" /\ failed \cap {"lead", "header", "body"} # {}

(* The input file changes only by being written in place, and then whoever *)
(* has it open, or any other name of it, finds one consistent package: the *)
(* old body behind a whole header of a signer whose header fits, or, if a  *)
(* write failed, behind a torn one of the old length.  Two things are not  *)
(* asked.  A symbolic link to the input is the exception again.  And a     *)
(* file with a second name may change as well: canOverwrite means to leave *)
(* it alone, but HasLinks, "true if the given file has Nlink > 1", is      *)
(* never true (signatures.go:196, fileutil_unix.go:27-33).                 *)
InputUntouched ==
  \/ file["in"] = Original
  \/ kind = "symlink"
  \/ /\ kind \in {"same", "linked"}
     /\ file["in"].size = "orig" /\ file["in"].body = "rpm"
     /\ \/ \E s \in Signers : fits[s] /\ file["in"].head = s
        \/ file["in"].head = "torn" /\ "write" \in failed

(* A process that returned leaves no temporary file behind, unless closing *)
(* or renaming it failed (signatures.go:260-270).                          *)
NoTempLeft ==
  failed \cap {"close", "rename"} = {} => \A s \in Signers : pc[s] = "done" => ~temp[s]

(* signatures.go:255, "write-rename", and :262: if the package could not   *)
(* be written, the temporary file is removed and does not become outpath.  *)
FailedWriteKeepsOutpath ==
  \A s \in Signers : pc[s] = "done" /\ ret[s] = "error" => out # s

(* outpath changes only by a whole signed package taking the place of what *)
(* was there: no reader, and no crash, meets anything in between.  The     *)
(* size of the header is immaterial to an observer.                        *)
ShownTo(c) == [head |-> c.head, body |-> c.body]
AR == INSTANCE AtomicReplace
        WITH Signers  <- Signers,
             Unsigned <- {ShownTo(c) : c \in {Original, OtherRpm, Empty}},
             Signed   <- LAMBDA s : [head |-> s, body |-> "rpm"],
             content  <- ShownTo(Shown)
ReplacesAtomically == AR!Spec

(* Every process that is not killed returns: the fallback from writing in  *)
(* place does not lead back to it.  Writing to a pipe may block for ever.  *)
Returns ==
  kind \notin {"pipe", "stdout"} =>
    \A s \in Signers : <>(pc[s] \in {"done", "crashed"})
=============================================================================
