---------------------------- MODULE E1000Receive ----------------------------
(***************************************************************************)
(* The receive ring of the E1000 driver (kernel/src/net/e1000.rs) and the  *)
(* part of the card it talks to.                                           *)
(*                                                                         *)
(* The card fills the descriptors from RDH up to, not including, RDT; the  *)
(* driver looks only at the status of the descriptor after RDT, and hands  *)
(* its buffer to the caller as a slice, without copying it.  The slice     *)
(* lives until the caller receives again.  Driver and card share memory    *)
(* and run at the same time, so each access of the driver is a step.       *)
(***************************************************************************)
EXTENDS Integers, Sequences

CONSTANTS
  RX_DESC_COUNT,   (* 32 in the code                                *)
  MaxPackets       (* bound: packets that arrive in a behaviour     *)

Slots == 0 .. (RX_DESC_COUNT - 1)
Packets == 1 .. MaxPackets
Nothing == 0       (* a buffer that never held a packet *)
NoSlot == -1       (* no slice is lent                  *)

VARIABLES
  rdh,       (* register RDH, written by the card                         *)
  rdt,       (* register RDT, written by the driver                       *)
  status,    (* bit 0 of the status of each descriptor: filled            *)
  buffer,    (* the packet in each rx buffer                              *)
  filling,   (* the card is between writing a buffer and its descriptor   *)
  pc,        (* where receive() is                                        *)
  idx,       (* (rdt + 1) % RX_DESC_COUNT                                 *)
  lent,      (* the slot whose buffer the caller holds a slice of         *)
  arrived,   (* history: packets the card has accepted or is filling      *)
  out        (* history: packets receive() returned, in order             *)

vars == <<rdh, rdt, status, buffer, filling, pc, idx, lent, arrived, out>>

Succ(s) == (s + 1) % RX_DESC_COUNT

(* setup_rx: every status is cleared, RDH is 0 and RDT the last slot.      *)
Init ==
  /\ rdh = 0
  /\ rdt = RX_DESC_COUNT - 1
  /\ status = [s \in Slots |-> 0]
  /\ buffer = [s \in Slots |-> Nothing]
  /\ filling = FALSE
  /\ pc = "idle" /\ idx = 0
  /\ lent = NoSlot
  /\ arrived = 0 /\ out = <<>>

-----------------------------------------------------------------------------
(* The card: a packet is written to memory, then its descriptor's status   *)
(* is set and the head moves on.  It drops packets when it owns no slot.   *)
CardWritesBuffer ==
  /\ ~ filling /\ rdh # rdt
  /\ arrived < MaxPackets
  /\ arrived' = arrived + 1
  /\ buffer' = [buffer EXCEPT ![rdh] = arrived + 1]
  /\ filling' = TRUE
  /\ UNCHANGED <<rdh, rdt, status, pc, idx, lent, out>>

CardWritesBack ==
  /\ filling
  /\ status' = [status EXCEPT ![rdh] = 1]
  /\ rdh' = Succ(rdh)
  /\ filling' = FALSE
  /\ UNCHANGED <<rdt, buffer, pc, idx, lent, arrived, out>>

-----------------------------------------------------------------------------
(* A slip: the driver looks at the descriptor of RDT itself.               *)
ReceiveAtTail ==
  /\ pc = "idle"
  /\ pc' = "check"
  /\ idx' = rdt
  /\ lent' = NoSlot
  /\ UNCHANGED <<rdh, rdt, status, buffer, filling, arrived, out>>

(* receive() is called: the slice of the last call is no longer used.      *)
Receive ==
  /\ pc = "idle"
  /\ pc' = "check"
  /\ idx' = Succ(rdt)
  /\ lent' = NoSlot
  /\ UNCHANGED <<rdh, rdt, status, buffer, filling, arrived, out>>

CheckStatus ==
  /\ pc = "check"
  /\ IF status[idx] = 1
     THEN pc' = "clear" /\ UNCHANGED idx
     ELSE pc' = "idle" /\ idx' = 0
  /\ UNCHANGED <<rdh, rdt, status, buffer, filling, lent, arrived, out>>

ClearStatus ==
  /\ pc = "clear"
  /\ status' = [status EXCEPT ![idx] = 0]
  /\ pc' = "tail"
  /\ UNCHANGED <<rdh, rdt, buffer, filling, idx, lent, arrived, out>>

(* A slip: the slot of the slice itself is given back to the card.         *)
AdvancePastSlice ==
  /\ pc = "tail"
  /\ rdt' = Succ(idx)
  /\ pc' = "idle" /\ idx' = 0
  /\ lent' = idx
  /\ out' = Append(out, buffer[idx])
  /\ UNCHANGED <<rdh, status, buffer, filling, arrived>>

(* RDT moves to the slot just emptied, which gives the card the slot       *)
(* before it, and the slice is returned.                                   *)
AdvanceTail ==
  /\ pc = "tail"
  /\ rdt' = idx
  /\ pc' = "idle" /\ idx' = 0
  /\ lent' = idx
  /\ out' = Append(out, buffer[idx])
  /\ UNCHANGED <<rdh, status, buffer, filling, arrived>>

Card == CardWritesBuffer \/ CardWritesBack
Driver == Receive \/ CheckStatus \/ ClearStatus \/ AdvanceTail
Next == Card \/ Driver

(* standard_boot polls receive() in a loop; the card finishes what it has  *)
(* begun, but need not ever get a packet.                                  *)
Spec == Init /\ [][Next]_vars /\ WF_vars(CardWritesBack) /\ WF_vars(Driver)

-----------------------------------------------------------------------------
(* The slice a caller holds is never overwritten: the card does not touch  *)
(* a buffer between the return of receive() and the next call of it.       *)
SliceUntouched ==
  [][lent # NoSlot /\ lent' = lent => buffer'[lent] = buffer[lent]]_vars

(* The slots the card has filled and the driver not yet emptied, oldest    *)
(* first: those after RDT up to RDH.                                       *)
FilledCount == (rdh - Succ(rdt)) % RX_DESC_COUNT

QueueBar ==
  [k \in 1 .. FilledCount |-> buffer[(rdt + k) % RX_DESC_COUNT]]

Ring == INSTANCE PacketFifo
          WITH queue <- QueueBar, Capacity <- RX_DESC_COUNT - 1

(* Driver and card together are a queue of RX_DESC_COUNT - 1 packets: none *)
(* is lost once accepted, none is returned twice or out of order.          *)
ReceiveIsFifo == Ring!Spec

(* Every packet the card has accepted is returned by some receive().       *)
EveryPacketReturned ==
  \A p \in Packets : arrived >= p ~> Len(out) >= p
=============================================================================
