------------------------------ MODULE MCStartup ------------------------------
(***************************************************************************)
(* Machines of 1 to 27 pages above a first one that the firmware keeps,    *)
(* with a hole of a page or none, and with a second page of the firmware   *)
(* anywhere, even on a fixed place.  The fixed places are pages 2 to 6,    *)
(* the limit is 7, kmain needs 7 pages above it.                           *)
(***************************************************************************)
EXTENDS Startup

MCPages == 0..27

Layout(top, hole, own) ==
  [conventional |-> (1..top) \ {hole, own}, firmware |-> {0, own} \ {hole}]

MCLayouts == {Layout(top, hole, own) : top \in 1..27, hole \in {28} \cup 7..18,
                                        own \in {0, 3, 5, 9, 15, 24}}
==============================================================================
