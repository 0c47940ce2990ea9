------------------------------- MODULE MCKernel -------------------------------
(* The root directory has two clusters (2, 3); the first is full and holds *)
(* a deleted directory and a file whose names begin with A, the second the *)
(* directory A (4), which is full, too, and holds another A (5).  6 is the *)
(* cluster of the file.                                                    *)
EXTENDS Kernel

Entry(kind, starts, cluster) == [kind |-> kind, starts |-> starts, cluster |-> cluster]
EndMark == Entry("end", {}, 0)

MCEntries ==
  [c \in 2 .. 6 |->
     CASE c = 2 -> <<Entry("skipped", {"A"}, 6), Entry("file", {"A"}, 6)>>
       [] c = 3 -> <<Entry("dir", {"A"}, 4), EndMark, Entry("file", {"A"}, 6)>>
       [] c = 4 -> <<Entry("dir", {"."}, 4), Entry("dir", {".", ".."}, 0),
                     Entry("dir", {"A"}, 5)>>
       [] c = 5 -> <<Entry("dir", {"."}, 5), Entry("dir", {".", ".."}, 4), EndMark>>
       [] c = 6 -> <<>>]

MCFollowing == [c \in 2 .. 6 |-> IF c = 2 THEN 3 ELSE EndOfChain]
=============================================================================
