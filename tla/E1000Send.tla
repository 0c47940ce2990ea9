----------------------------- MODULE E1000Send ------------------------------
(***************************************************************************)
(* The transmit ring of the E1000 driver (kernel/src/net/e1000.rs) and the *)
(* part of the card it talks to.                                           *)
(*                                                                         *)
(* send() puts a packet in the buffer of descriptor TDT and moves TDT on;  *)
(* the card sends the descriptors from TDH up to, not including, TDT, and  *)
(* marks each one done.  TDH = TDT means that there is nothing to send, so *)
(* a ring of TX_DESC_COUNT slots can hold one packet less: send() does not *)
(* count, it only asks whether the descriptor of TDT is done.              *)
(***************************************************************************)
EXTENDS Integers, Sequences, SequencesExt

CONSTANTS
  TX_DESC_COUNT,   (* 8 in the code                                        *)
  MaxPackets       (* bound: calls of send() in a behaviour                *)

Slots == 0 .. (TX_DESC_COUNT - 1)
Packets == 1 .. MaxPackets
Nothing == 0       (* a buffer that never held a packet; no packet at hand *)

VARIABLES
  tdh,        (* register TDH, written by the card                     *)
  tdt,        (* register TDT, written by the driver                   *)
  status,     (* the low bits of each status: 1 is done, 0 is not      *)
  buffer,     (* the packet in each tx buffer                          *)
  sending,    (* the card is reading the buffer of TDH                 *)
  pc,         (* where send() is                                       *)
  data,       (* its argument                                          *)
  calls,      (* history: calls of send(), numbering the packets       *)
  accepted,   (* history: packets for which send() returned true       *)
  sent        (* history: packets on the wire, in order                *)

card == <<tdh, sending, sent>>
vars == <<tdh, tdt, status, buffer, sending, pc, data, calls, accepted, sent>>

Succ(s) == (s + 1) % TX_DESC_COUNT

(* setup_tx: every descriptor is done, both registers are 0. *)
Init ==
  /\ tdh = 0 /\ tdt = 0
  /\ status = [s \in Slots |-> 1]
  /\ buffer = [s \in Slots |-> Nothing]
  /\ sending = FALSE
  /\ pc = "idle" /\ data = Nothing
  /\ calls = 0 /\ accepted = <<>> /\ sent = <<>>

-----------------------------------------------------------------------------
(* The card starts on the descriptor of TDH, which it owns. *)
CardBegins ==
  /\ ~ sending /\ tdh # tdt
  /\ sending' = TRUE
  /\ UNCHANGED <<tdh, tdt, status, buffer, pc, data, calls, accepted, sent>>

(* The packet is on the wire, its descriptor is written back as done. *)
CardWritesBack ==
  /\ sending
  /\ sent' = Append(sent, buffer[tdh])
  /\ status' = [status EXCEPT ![tdh] = 1]
  /\ tdh' = Succ(tdh)
  /\ sending' = FALSE
  /\ UNCHANGED <<tdt, buffer, pc, data, calls, accepted>>

-----------------------------------------------------------------------------
(* send() is called; a packet over 2048 bytes it refuses outright, which   *)
(* changes nothing and is left out.                                        *)
Send ==
  /\ pc = "idle" /\ calls < MaxPackets
  /\ calls' = calls + 1
  /\ data' = calls + 1
  /\ pc' = "check"
  /\ UNCHANGED <<card, tdt, status, buffer, accepted>>

CheckStatus ==
  /\ pc = "check"
  /\ IF status[tdt] = 1
     THEN pc' = "copy" /\ UNCHANGED data
     ELSE pc' = "idle" /\ data' = Nothing    (* send() returns false *)
  /\ UNCHANGED <<card, tdt, status, buffer, calls, accepted>>

CopyData ==
  /\ pc = "copy"
  /\ buffer' = [buffer EXCEPT ![tdt] = data]
  /\ pc' = "describe"
  /\ UNCHANGED <<card, tdt, status, data, calls, accepted>>

(* A slip: the done bit of the last use is kept. *)
DescribeKeepsDone ==
  /\ pc = "describe"
  /\ pc' = "tail"
  /\ UNCHANGED <<card, tdt, status, buffer, data, calls, accepted>>

(* length and cmd are set, bit 0 of the status is cleared. *)
Describe ==
  /\ pc = "describe"
  /\ status' = [status EXCEPT ![tdt] = 0]
  /\ pc' = "tail"
  /\ UNCHANGED <<card, tdt, buffer, data, calls, accepted>>

(* A slip: the last slot of the ring is skipped. *)
AdvanceTailEarlyWrap ==
  /\ pc = "tail"
  /\ tdt' = (tdt + 1) % (TX_DESC_COUNT - 1)
  /\ pc' = "idle" /\ data' = Nothing
  /\ accepted' = Append(accepted, data)
  /\ UNCHANGED <<card, status, buffer, calls>>

AdvanceTail ==
  /\ pc = "tail"
  /\ tdt' = Succ(tdt)
  /\ pc' = "idle" /\ data' = Nothing
  /\ accepted' = Append(accepted, data)
  /\ UNCHANGED <<card, status, buffer, calls>>

Card == CardBegins \/ CardWritesBack
InSend == CheckStatus \/ CopyData \/ Describe \/ AdvanceTail
Next == Card \/ Send \/ InSend

(* A call of send() runs to its end; the card keeps sending while it owns  *)
(* a descriptor.  Nobody has to call send() again.                         *)
Spec == Init /\ [][Next]_vars /\ WF_vars(Card) /\ WF_vars(InSend)

-----------------------------------------------------------------------------
(* The card sends what send() accepted, in the order of the calls, each    *)
(* packet once and never one that send() refused; and while it reads a     *)
(* buffer, send() does not write to it, however full the ring is.          *)
SentAsAccepted ==
  /\ []IsPrefix(sent, accepted)
  /\ [][sending => buffer'[tdh] = buffer[tdh]]_vars

InFlight == Len(accepted) - Len(sent)

(* A packet for which send() returned true goes out on the wire, if the    *)
(* callers never leave as many packets unsent as the ring has slots.  With *)
(* one more, TDT wraps onto TDH and the ring looks empty to the card.      *)
SentUnlessFull ==
  [](InFlight < TX_DESC_COUNT) =>
    \A n \in Packets : Len(accepted) >= n ~> Len(sent) >= n
=============================================================================
