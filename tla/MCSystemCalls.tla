---------------------------- MODULE MCSystemCalls ----------------------------
(* The files load_elf is given: programs with gaps, overlaps, zeroed room  *)
(* and segments that are not loaded, a truncated one, and files that are   *)
(* no programs; what TXT.TXT may hold, and which pages may be free.        *)
EXTENDS SystemCalls

(* Two segments with a gap between them, the higher one first.             *)
MCGap ==
  << Header(TRUE, 1, 2),
     ProgramHeader(TRUE, 4, 14, 1, 2), ProgramHeader(TRUE, 3, 11, 2, 2),
     Byte(1), Byte(2) >>

(* The table behind the data; overlapping segments, one not loaded and one *)
(* of which the file holds nothing.                                        *)
MCOverlap ==
  << Header(TRUE, 3, 4),
     Byte(1), Byte(2),
     ProgramHeader(TRUE, 1, 11, 2, 3), ProgramHeader(FALSE, 0, 0, 3, 9),
     ProgramHeader(TRUE, 0, 10, 0, 4), ProgramHeader(TRUE, 1, 12, 1, 1) >>

(* The segment should hold two bytes, the file ends after one.             *)
MCTruncated ==
  << Header(TRUE, 1, 1), ProgramHeader(TRUE, 2, 9, 2, 3), Byte(2) >>

MCNothingToLoad ==
  << Header(TRUE, 1, 1), ProgramHeader(FALSE, 2, 9, 1, 1), Byte(2) >>

MCNoTable == << Header(TRUE, 1, 0), Byte(1) >>

MCText == << Byte(1), Byte(2) >>

MCPrograms ==
  {MCGap, MCOverlap, MCTruncated, MCNothingToLoad, MCNoTable, MCText,
   << Header(FALSE, 1, 0) >>, << >>}

(* TXT.TXT: empty, short, and longer than a read.                          *)
MCTexts == {<< >>, << Byte(1) >>, << Byte(1), Byte(2), Byte(1), Byte(2) >>}
MCTestData == << Byte(3), Byte(4) >>

(* Memory with holes, and from none at all to enough.                      *)
MCFree ==
  {low \cup high : low \in SUBSET {0, 1, 2, 3}, high \in {{}, {5, 6}, {5, 6, 7, 8, 9}}}
==============================================================================
