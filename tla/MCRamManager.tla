---------------------------- MODULE MCRamManager ----------------------------
(* RamManager on seven pages of conventional memory with a hole: pages 0-4 *)
(* and 6-7 are RAM, the bitmap has 7 bits, so page 7 is never managed and  *)
(* page 5 is a hole that stays used; pages below 1 are reserved.           *)
EXTENDS RamManager

MCConventional == (0 .. 4) \union {6, 7}
MCRequests == 0 .. 3
MCAlignments == {1, 2}
MCFailedSector == 20
=============================================================================
