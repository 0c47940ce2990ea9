-------------------------------- MODULE E1000 --------------------------------
(***************************************************************************)
(* The E1000 network driver (kernel/src/net/e1000.rs) from E1000::new on:  *)
(* the reset, the set-up of both rings in memory that held something else  *)
(* before, and then one thread that receives and sends, one call after the *)
(* other, while both halves of the card work.                              *)
(*                                                                         *)
(* E1000Receive and E1000Send are the rings; their Init is what set-up has *)
(* to establish.  The four requests for memory are granted: the driver     *)
(* does not look at what sys_mmap answers.                                 *)
(***************************************************************************)
EXTENDS Integers, Sequences, SequencesExt

CONSTANTS
  RX_DESC_COUNT, TX_DESC_COUNT,
  MaxArrivals,     (* bound: packets that arrive                           *)
  MaxCalls         (* bound: calls of send()                               *)

ASSUME RingAssumption ==
  /\ RX_DESC_COUNT \in Nat /\ RX_DESC_COUNT >= 2
  /\ TX_DESC_COUNT \in Nat /\ TX_DESC_COUNT >= 2
ASSUME BoundAssumption == MaxArrivals \in Nat /\ MaxCalls \in Nat

VARIABLES
  pc,              (* the next step of new, or "running"                   *)
  rst, link,       (* CTRL.RST and STATUS.LU                               *)
  rctl, tctl,      (* the enable bits of receiver and transmitter          *)
  rdh, rdt, rx_status, rx_buffer, filling, rx_pc, idx, lent, arrived, out,
  tdh, tdt, tx_status, tx_buffer, sending, tx_pc, data, calls, accepted, sent

Rx == INSTANCE E1000Receive
        WITH status <- rx_status, buffer <- rx_buffer, pc <- rx_pc,
             MaxPackets <- MaxArrivals
Tx == INSTANCE E1000Send
        WITH status <- tx_status, buffer <- tx_buffer, pc <- tx_pc,
             MaxPackets <- MaxCalls

rx_descs == <<rx_status, rx_buffer>>
tx_descs == <<tx_status, tx_buffer>>
rx_rest == <<filling, rx_pc, idx, lent, arrived, out>>
tx_rest == <<sending, tx_pc, data, calls, accepted, sent>>
rx == <<rdh, rdt, rx_descs, rx_rest>>
tx == <<tdh, tdt, tx_descs, tx_rest>>
registers == <<rst, link, rctl, tctl>>
vars == <<pc, registers, rx, tx>>

(* The card was used by the firmware, which may have left it on, with its  *)
(* rings in memory of its own; what sys_mmap will give held anything.      *)
Init ==
  /\ pc = "reset" /\ rst = FALSE
  /\ link \in BOOLEAN /\ rctl \in BOOLEAN /\ tctl \in BOOLEAN
  /\ rdh \in Rx!Slots /\ rdt \in Rx!Slots
  /\ tdh \in Tx!Slots /\ tdt \in Tx!Slots
  /\ rx_status \in [Rx!Slots -> {0, 1}] /\ tx_status \in [Tx!Slots -> {0, 1}]
  /\ rx_buffer = [s \in Rx!Slots |-> Rx!Nothing]
  /\ tx_buffer = [s \in Tx!Slots |-> Tx!Nothing]
  /\ filling = FALSE /\ rx_pc = "idle" /\ idx = 0 /\ lent = Rx!NoSlot
  /\ arrived = 0 /\ out = <<>>
  /\ sending = FALSE /\ tx_pc = "idle" /\ data = Tx!Nothing
  /\ calls = 0 /\ accepted = <<>> /\ sent = <<>>

-----------------------------------------------------------------------------
(* The card ends a reset it was asked for; its link comes up, not before.  *)
ResetEnds ==
  /\ rst /\ rst' = FALSE
  /\ link' = FALSE /\ rctl' = FALSE /\ tctl' = FALSE
  /\ rdh' = 0 /\ rdt' = 0 /\ tdh' = 0 /\ tdt' = 0
  /\ UNCHANGED <<pc, rx_descs, rx_rest, tx_descs, tx_rest>>

LinkComesUp ==
  /\ ~ rst /\ ~ link /\ link' = TRUE
  /\ UNCHANGED <<pc, rst, rctl, tctl, rx, tx>>

(* Both halves work on the rings once each is enabled; what the card does  *)
(* before the driver has set them up is none of the driver's memory.       *)
CardReceives ==
  /\ pc \in {"enable_tx", "running"} /\ rctl
  /\ Rx!Card
  /\ UNCHANGED <<pc, registers, tx>>

CardSends ==
  /\ pc = "running" /\ tctl
  /\ Tx!Card
  /\ UNCHANGED <<pc, registers, rx>>

-----------------------------------------------------------------------------
(* init: two waits without a bound.                                        *)
Reset ==
  /\ pc = "reset" /\ pc' = "await_reset"
  /\ rst' = TRUE
  /\ UNCHANGED <<link, rctl, tctl, rx, tx>>

ResetSeen ==
  /\ pc = "await_reset" /\ ~ rst /\ pc' = "await_link"
  /\ UNCHANGED <<registers, rx, tx>>

LinkSeen ==
  /\ pc = "await_link" /\ link /\ pc' = "setup_rx"
  /\ UNCHANGED <<registers, rx, tx>>

(* A slip: the descriptors are not zeroed. *)
SetupRxUnzeroed ==
  /\ pc = "setup_rx" /\ pc' = "setup_tx"
  /\ rdh' = 0 /\ rdt' = RX_DESC_COUNT - 1
  /\ UNCHANGED <<registers, rx_descs, rx_rest, tx>>

SetupRx ==
  /\ pc = "setup_rx" /\ pc' = "setup_tx"
  /\ rx_status' = [s \in Rx!Slots |-> 0]
  /\ rdh' = 0 /\ rdt' = RX_DESC_COUNT - 1
  /\ UNCHANGED <<registers, rx_buffer, rx_rest, tx>>

SetupTx ==
  /\ pc = "setup_tx" /\ pc' = "enable_rx"
  /\ tx_status' = [s \in Tx!Slots |-> 1]
  /\ tdh' = 0 /\ tdt' = 0
  /\ UNCHANGED <<registers, tx_buffer, tx_rest, rx>>

(* enable: the receiver is on before the transmitter is.                   *)
EnableRx ==
  /\ pc = "enable_rx" /\ pc' = "enable_tx"
  /\ rctl' = TRUE
  /\ UNCHANGED <<rst, link, tctl, rx, tx>>

EnableTx ==
  /\ pc = "enable_tx" /\ pc' = "running"
  /\ tctl' = TRUE
  /\ UNCHANGED <<rst, link, rctl, rx, tx>>

New ==
  \/ Reset \/ ResetSeen \/ LinkSeen
  \/ SetupRx \/ SetupTx \/ EnableRx \/ EnableTx

(* The caller: one call at a time, each of receive() or of send().         *)
Receiving ==
  /\ pc = "running" /\ tx_pc = "idle"
  /\ Rx!Driver
  /\ UNCHANGED <<pc, registers, tx>>

CallSend ==
  /\ pc = "running" /\ rx_pc = "idle"
  /\ Tx!Send
  /\ UNCHANGED <<pc, registers, rx>>

InSend ==
  /\ Tx!InSend
  /\ UNCHANGED <<pc, registers, rx>>

Next ==
  \/ ResetEnds \/ LinkComesUp \/ CardReceives \/ CardSends
  \/ New \/ Receiving \/ CallSend \/ InSend

(* The set-up and every call go on, and there is always a next call of     *)
(* receive(); the card finishes what it has begun and sends what it owns.  *)
(* Nothing makes it end a reset or find a link.                            *)
Spec ==
  /\ Init /\ [][Next]_vars
  /\ WF_vars(New) /\ WF_vars(Receiving) /\ WF_vars(InSend)
  /\ WF_vars(CardReceives /\ Rx!CardWritesBack) /\ WF_vars(CardSends)

-----------------------------------------------------------------------------
(* From the end of set-up on, driver and card together are a queue of      *)
(* RX_DESC_COUNT - 1 packets: none is lost once accepted, none is returned *)
(* twice or out of order, and nothing that memory held before is taken for *)
(* a packet.                                                               *)
Ring == INSTANCE PacketFifo
          WITH Packets <- Rx!Packets, Capacity <- RX_DESC_COUNT - 1,
               queue <- IF pc \in {"enable_rx", "enable_tx", "running"}
                        THEN Rx!QueueBar ELSE <<>>

ReceiveIsFifo == Ring!Spec

(* The slice a caller holds is not overwritten by the card until the next  *)
(* call of receive(), whatever is sent in between.                         *)
SliceUntouched == Rx!SliceUntouched

(* Every packet the card has accepted is returned by some receive().       *)
EveryPacketReturned == Rx!EveryPacketReturned

(* The card sends what send() accepted, in the order of the calls, each    *)
(* packet once and never one that send() refused, and reads every buffer   *)
(* undisturbed, whatever is received in between.                           *)
SentAsAccepted == Tx!SentAsAccepted

(* What send() accepted goes out if the callers never leave as many        *)
(* packets unsent as the ring has slots, and receiving keeps on in         *)
(* between.                                                                *)
SentUnlessFull == Tx!SentUnlessFull
=============================================================================
