----------------------------- MODULE PacketFifo -----------------------------
(***************************************************************************)
(* What a descriptor ring promises: packets come out in the order they     *)
(* went in, each once, and the ring holds at most Capacity of them.        *)
(***************************************************************************)
EXTENDS Naturals, Sequences

CONSTANTS Packets, Capacity

VARIABLES
  queue,     (* packets in the ring, oldest first *)
  out        (* packets delivered, in order       *)

Init == queue = <<>> /\ out = <<>>

Enter(p) ==
  /\ Len(queue) < Capacity
  /\ queue' = Append(queue, p)
  /\ UNCHANGED out

Leave ==
  /\ queue # <<>>
  /\ out' = Append(out, Head(queue))
  /\ queue' = Tail(queue)

Next == Leave \/ \E p \in Packets : Enter(p)

Spec == Init /\ [][Next]_<<queue, out>>
=============================================================================
