---------------------------- MODULE MCFileSystem ----------------------------
(* FileSystem on a disk of five clusters: 2 is the root directory, file 1   *)
(* fills one cluster and starts a second (3, 5), file 2 starts one (4);    *)
(* 6 is free, both files compete for it and either fills the disk.         *)
EXTENDS FileSystem

MCFormattedFat ==
  [c \in Table |-> CASE c = 3 -> 5 [] c = 6 -> Free [] OTHER -> EOC]

MCFormattedData == [c \in Table |-> [o \in Offs |-> 0]]

MCFormattedDir ==
  << [cluster |-> 3, size |-> 3], [cluster |-> 4, size |-> 1] >>

MCPayloads == {<<>>, <<1, 2, 1>>}
MCShortPayloads == {<<>>, <<1, 2>>}
MCOffsets == {-1, 2}

(* A second disk, where file 2 is empty: its entry names cluster 0.  File 1  *)
(* has a cluster more than its size needs; 4 is the only free one.         *)
MCEmptyFat ==
  [c \in Table |-> CASE c = 3 -> 5 [] c = 5 -> 6 [] c = 4 -> Free [] OTHER -> EOC]

MCEmptyDir ==
  << [cluster |-> 3, size |-> 3], [cluster |-> 0, size |-> 0] >>
MCFdArgs == {3, 4, 5}
=============================================================================
