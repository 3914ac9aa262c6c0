---------------------------- MODULE MCCpioReader ----------------------------
(* Small archives for CpioReader, cut off at every byte.                   *)
EXTENDS CpioReader, CpioLayout

Stream(es, len, fault, hasSizes, sizes) ==
  [entries |-> Layout(es), len |-> len, fault |-> fault,
   hasSizes |-> hasSizes, sizes |-> sizes]

(* namesize 2 needs no padding after the name, 9 one byte, 4 two.          *)
NewcFiles == <<Newc(9, 3), Newc(2, 0), Newc(4, 5), Trailer>>
(* stripped entries are numbered by the RPM header, not by position        *)
StrippedFiles == <<Stripped(1, 3), Stripped(0, 2), Trailer>>
MixedFiles == <<Stripped(0, 5), Newc(3, 1), Trailer>>

BlockPadding == 12   \* bytes of block padding after the trailer

WholeStreams ==
  {Stream(NewcFiles, End(Layout(NewcFiles)) + t, f, FALSE, <<>>) :
      t \in {0, BlockPadding}, f \in BOOLEAN}
    \cup {Stream(StrippedFiles, End(Layout(StrippedFiles)) + t, FALSE, TRUE, <<2, 3>>) :
      t \in {0, BlockPadding}}
    \cup {Stream(MixedFiles, End(Layout(MixedFiles)), FALSE, TRUE, <<5>>)}

(* Every truncation, with io.EOF or another error at the end, and the      *)
(* stripped archive with nil sizes, no sizes and too few sizes.            *)
BrokenStreams ==
  UNION {{Stream(es, n, f, TRUE, <<5, 3>>) :
            n \in 0..End(Layout(es)), f \in BOOLEAN} :
         es \in {<<Newc(9, 3), Newc(4, 5), Trailer>>,
                 <<Stripped(1, 3), Stripped(0, 5), Trailer>>}}
    \cup {Stream(StrippedFiles, End(Layout(StrippedFiles)), FALSE, h, s) :
            h \in BOOLEAN, s \in {<<>>, <<2>>}}

MCStreams == WholeStreams \cup BrokenStreams

(* Archives that break off inside the contents of their first file.        *)
CutStreams ==
  {Stream(es, Layout(es)[1].data + n, FALSE, TRUE, <<5, 3>>) : n \in 1..2,
     es \in {<<Newc(9, 3), Newc(4, 5), Trailer>>,
             <<Stripped(1, 3), Stripped(0, 5), Trailer>>}}
=============================================================================
