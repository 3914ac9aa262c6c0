---------------------------- MODULE MCHeaderTags ----------------------------
(* Small packages for HeaderTags, built as rpm builds them.                *)
EXTENDS HeaderTags, TLC

Ints(type, vals) == [type |-> type, vals |-> vals]
Str(s) == [type |-> "STRING", vals |-> <<s>>]
Strs(ss) == [type |-> "STRING_ARRAY", vals |-> ss]

File(dir, base, size, mode, inode) ==
  [f \in FieldNames |->
     CASE f = "name" -> <<dir, base>> [] f = "size" -> size [] f = "mode" -> mode
       [] f = "user" -> <<"u", base>> [] f = "group" -> <<"g">> [] f = "flags" -> 200
       [] f = "mtime" -> Base^4 - 1   [] f = "digest" -> <<"d", base>>
       [] f = "linkto" -> <<>>        [] f = "device" -> IF inode = 0 THEN 0 ELSE 2
       [] f = "inode" -> inode]

(* Two directories, the second one first in the list of files; a size that *)
(* needs 64 bits.                                                          *)
FileLists == {<<>>, <<File("usr", "a", 3, 5, 0)>>,
              <<File("var", "b", 7, 5, 4), File("usr", "a", 255, 9, 5), File("var", "c", 0, 9, 4)>>,
              <<File("var", "b", Base^4 + 3, 5, 0), File("usr", "a", 7, 5, 0)>>}

Field(files, f) == [i \in DOMAIN files |-> files[i][f]]
Dirs == <<<<"usr">>, <<"var">>>>
DirIndex(dir) == IF dir = "usr" THEN 0 ELSE 1
NameTags(files, new) ==
  IF ~new THEN Tags.OLDFILENAMES :> Strs(Field(files, "name"))
  ELSE (Tags.DIRNAMES :> Strs(Dirs))
    @@ (Tags.BASENAMES :> Strs([i \in DOMAIN files |-> <<files[i]["name"][2]>>]))
    @@ (Tags.DIRINDEXES :> Ints("INT32", [i \in DOMAIN files |-> DirIndex(files[i]["name"][1])]))

(* Sizes beyond 32 bits have a tag of their own, beside which a short one  *)
(* may remain.                                                             *)
SizeTags(vals, short, long, both) ==
  LET isLong == \E i \in DOMAIN vals : vals[i] >= Base^4
      low == [i \in DOMAIN vals |-> vals[i] % Base^4]
  IN  (IF isLong THEN long :> Ints("INT64", vals) ELSE short :> Ints("INT32", vals))
      @@ (IF both THEN short :> Ints("INT32", low) ELSE <<>>)

FileTags(files, new, both) ==
  IF files = <<>> THEN <<>>
  ELSE NameTags(files, new) @@ SizeTags(Field(files, "size"), Tags.FILESIZES, Tags.LONGFILESIZES, both)
    @@ (Tags.FILEUSERNAME :> Strs(Field(files, "user"))) @@ (Tags.FILEGROUPNAME :> Strs(Field(files, "group")))
    @@ (Tags.FILEFLAGS :> Ints("INT32", Field(files, "flags"))) @@ (Tags.FILEMTIMES :> Ints("INT32", Field(files, "mtime")))
    @@ (Tags.FILEDIGESTS :> Strs(Field(files, "digest"))) @@ (Tags.FILEMODES :> Ints("INT16", Field(files, "mode")))
    @@ (Tags.FILELINKTOS :> Strs(Field(files, "linkto")))
    @@ (IF files[1]["inode"] = 0 THEN <<>>
        ELSE (Tags.FILEDEVICES :> Ints("INT32", Field(files, "device"))) @@ (Tags.FILEINODES :> Ints("INT32", Field(files, "inode"))))

Package(files, new, both, epoch, size, payload, extra) ==
  [files |-> files, installed |-> size, payload |-> payload,
   nevra |-> <<<<"n">>, IF epoch = <<>> THEN 0 ELSE epoch[1], <<"v">>, <<"r">>, <<"x86">>>>,
   sig |-> (269 :> Str(<<"sha1">>)) @@ (1004 :> [type |-> "BIN", vals |-> <<1, 2, 3>>])
           @@ (1000 :> Ints("INT32", <<77>>)) @@ SizeTags(<<payload>>, 1007, Tags.SIG_LONGARCHIVESIZE, both),
   gen |-> (Tags.NAME :> Str(<<"n">>)) @@ (Tags.VERSION :> Str(<<"v">>)) @@ (Tags.RELEASE :> Str(<<"r">>))
           @@ (Tags.ARCH :> Str(<<"x86">>)) @@ (1004 :> [type |-> "I18NSTRING", vals |-> <<<<"s">>, <<"t">>>>])
           @@ (IF epoch = <<>> THEN <<>> ELSE Tags.EPOCH :> Ints("INT32", epoch))
           @@ SizeTags(<<size>>, Tags.SIZE, Tags.LONGSIZE, both) @@ extra @@ FileTags(files, new, both)]

(* Values at the limits of every width, under a tag of their own.          *)
Edges ==
  UNION {{2000 :> Ints(t, <<v, 1>>), 2000 :> Ints(t, <<v>>)} :
           t \in IntTypes, v \in {0, Base - 1, Base^2 - 1, Base^4 \div 2 - 1, Base^4 \div 2, Base^4 - 1, Base^8 - 1}}
InWidth(e) == \A i \in DOMAIN e[2000].vals : e[2000].vals[i] < Base^Width[e[2000].type]

MCPackages ==
  {Package(fs, new, both, epoch, size, payload, <<>>) :
     fs \in FileLists, new, both \in BOOLEAN, epoch \in {<<>>, <<2>>},
     size \in {9, Base^4}, payload \in {8, Base^4 + 1}}
    \cup {Package(<<>>, FALSE, FALSE, <<>>, 1, 1, e) :
            e \in {x \in Edges : InWidth(x)} \cup {2000 :> [type |-> "NULL", vals |-> <<>>]}}
=============================================================================
