------------------------------- MODULE Packets -------------------------------
(***************************************************************************)
(* The packets the kernel builds (net/ip.rs, net/udp.rs, net/icmp.rs) and  *)
(* the peer that receives them: a peer pings and the kernel answers, or    *)
(* the kernel sends a datagram.  The functions keep no state, so a         *)
(* behaviour is one exchange.  Bytes and checksums are what goes over the  *)
(* wire; the machine stores a word with its low byte first.                *)
(***************************************************************************)
EXTENDS Integers, Sequences, SequencesExt, FiniteSetsExt

CONSTANTS Addresses,  \* IP addresses, each four bytes
          Ports,      \* UDP ports
          EchoData,   \* what a ping carries behind identifier and number
          UdpData     \* what a datagram carries

Byte == 0..255
Address == [1..4 -> Byte]

ASSUME PacketsAssumption ==
  /\ Addresses \subseteq Address
  /\ Ports \subseteq Nat /\ \A port \in Ports : port < 65536
  /\ \A d \in EchoData \cup UdpData : d \in Seq(Byte) /\ Len(d) <= 1000

VARIABLES
  asked,  \* the last ping, or the arguments of the last datagram
  frame   \* the last frame: an IP header and what is behind it

vars == <<asked, frame>>

-----------------------------------------------------------------------------
(* Words and checksums.                                                    *)

Bytes(w) == <<w \div 256, w % 256>>              \* to_be_bytes
Swapped(w) == 256 * (w % 256) + (w \div 256)     \* to_be on this machine

(* One round of the loop "while sum >> 16 != 0"; for a u32 two suffice,    *)
(* and a round more changes nothing.                                       *)
Carry(s) == (s % 65536) + (s \div 65536)
Fold(s) == Carry(Carry(s))
Not(s) == 65535 - s

(* The bytes of a message added up as words, high byte first; the last one *)
(* of an odd number is a high byte.                                        *)
Sum(m) == MapThenSumSet(LAMBDA i : IF i % 2 = 1 THEN 256 * m[i] ELSE m[i],
                        DOMAIN m)

WithChecksum(m, at, c) ==
  [i \in 1..Len(m) |-> CASE i = at -> c \div 256 [] i = at + 1 -> c % 256
                         [] OTHER -> m[i]]

(* The ten words of an IP header as this machine reads them.               *)
NativeSum(h) ==
  LET w(i) == h[i] + 256 * h[i + 1] IN
  w(1) + w(3) + w(5) + w(7) + w(9) + w(11) + w(13) + w(15) + w(17) + w(19)

(* The header's bytes in memory.  The length is swapped before it is       *)
(* stored, the checksum is stored as it is.                                *)
HeaderBytes(src, dst, payload_len, protocol, checksum) ==
  LET total == 20 + payload_len IN
  << 69, 0, total \div 256, total % 256, 0, 0, 0, 0, 64, protocol,
     checksum % 256, checksum \div 256,
     src[1], src[2], src[3], src[4], dst[1], dst[2], dst[3], dst[4] >>

(* A slip: the carries of the sum are dropped.                             *)
calc_checksumUncarried(h) == Not(NativeSum(h) % 65536)

calc_checksum(h) == Not(Fold(NativeSum(h)))

Ipv4Header(src, dst, payload_len, protocol) ==
  LET h == HeaderBytes(src, dst, payload_len, protocol, 0) IN
  HeaderBytes(src, dst, payload_len, protocol, calc_checksum(h))

-----------------------------------------------------------------------------
(* The pings.  A frame is padded to 60 bytes by whoever sends it, that is  *)
(* to 26 behind the IP header; its addresses are left out.                 *)

Padded(m) == [i \in 1..(IF Len(m) < 26 THEN 26 ELSE Len(m)) |->
                IF i <= Len(m) THEN m[i] ELSE 0]

EchoRequest(src, dst, data) ==
  LET m == <<8, 0, 0, 0, 1, 2, 3, 4>> \o data IN
  WithChecksum(m, 3, Not(Fold(Sum(m))))

Ping == \E src \in Addresses, dst \in Addresses, data \in EchoData :
  LET m == EchoRequest(src, dst, data) IN
  /\ asked.kind = "nothing"
  /\ asked' = [kind |-> "ping", src |-> src, dst |-> dst, message |-> m]
  /\ frame' = [ip |-> Ipv4Header(src, dst, Len(m), 1), payload |-> Padded(m)]

calc_icmp_checksum(data) == Not(Fold(Sum(data)))

(* A slip: the four bytes in front of the copied ones are subtracted twice. *)
CopyLenShort(icmp_len) == IF icmp_len < 62 THEN icmp_len - 4 ELSE 58

CopyLen(icmp_len) == IF icmp_len < 62 THEN icmp_len ELSE 62

(* build_echo_reply: everything behind the IP header is the message, and   *)
(* one longer than the array of 64 bytes is a slice out of bounds.  (With  *)
(* padding there are never fewer than 8 bytes, where it returns none.)     *)
EchoReply(request) ==
  LET icmp_len == Len(request.payload)
      icmp == [i \in 1..icmp_len |->
                 IF i \in 5..CopyLen(icmp_len) THEN request.payload[i] ELSE 0]
      src_ip == [i \in 1..4 |-> request.ip[12 + i]]
      dst_ip == [i \in 1..4 |-> request.ip[16 + i]]
  IN  [ip |-> Ipv4Header(dst_ip, src_ip, icmp_len, 1),
       payload |-> WithChecksum(icmp, 3, calc_icmp_checksum(icmp))]

build_echo_reply ==
  /\ asked.kind = "ping"
  /\ \/ /\ Len(frame.payload) <= 64
        /\ asked' = [asked EXCEPT !.kind = "answered"]
        /\ frame' = EchoReply(frame)
     \/ /\ Len(frame.payload) > 64
        /\ asked' = [asked EXCEPT !.kind = "panic"]
        /\ UNCHANGED frame

-----------------------------------------------------------------------------
(* The datagrams.                                                          *)

UdpHeader(src_port, dst_port, data_len) ==
  [src_port |-> Swapped(src_port), dst_port |-> Swapped(dst_port),
   length |-> Swapped(8 + data_len)]

PseudoHeader(src, dst, protocol, len) ==
  Sum(src) + Sum(dst) + protocol + len

(* A slip: a checksum that comes out as 0 is sent as it is.                *)
calc_udp_checksumPlain(src, dst, protocol, m) ==
  Not(Fold(PseudoHeader(src, dst, protocol, Len(m)) + Sum(m)))

calc_udp_checksum(src, dst, protocol, m) ==
  LET sum == Fold(PseudoHeader(src, dst, protocol, Len(m)) + Sum(m)) IN
  IF sum = 65535 THEN 65535 ELSE Not(sum)

build_udp_packet(src, dst, src_port, dst_port, data) ==
  LET udp == UdpHeader(src_port, dst_port, Len(data))
      m == Bytes(udp.src_port) \o Bytes(udp.dst_port) \o Bytes(udp.length)
             \o <<0, 0>> \o data
  IN  [ip |-> Ipv4Header(src, dst, Len(m), 17),
       payload |-> WithChecksum(m, 7, calc_udp_checksum(src, dst, 17, m))]

SendUdp == \E src \in Addresses, dst \in Addresses, data \in UdpData,
              src_port \in Ports, dst_port \in Ports :
  /\ asked.kind = "nothing"
  /\ asked' = [kind |-> "udp", src |-> src, dst |-> dst, src_port |-> src_port,
               dst_port |-> dst_port, data |-> data]
  /\ frame' = build_udp_packet(src, dst, src_port, dst_port, data)

NoFrame == [ip |-> <<>>, payload |-> <<>>]

Init == asked = [kind |-> "nothing"] /\ frame = NoFrame

Next == Ping \/ build_echo_reply \/ SendUdp

Spec == Init /\ [][Next]_vars

-----------------------------------------------------------------------------
(* What the peer makes of a frame.                                         *)

NetworkSum(h) ==
  LET w(i) == 256 * h[i] + h[i + 1] IN
  w(1) + w(3) + w(5) + w(7) + w(9) + w(11) + w(13) + w(15) + w(17) + w(19)

SourceOf(h) == [i \in 1..4 |-> h[12 + i]]
TargetOf(h) == [i \in 1..4 |-> h[16 + i]]
Word(m, i) == 256 * m[i] + m[i + 1]

(* Every IP header checks: the sum over its words in network order, the    *)
(* checksum included, is all ones, although the kernel adds the words in   *)
(* the other byte order and stores the result as it is; and its length is  *)
(* that of the packet (Ipv4Header::new, calc_checksum).                    *)
HeaderAccepted ==
  frame # NoFrame =>
    /\ Fold(NetworkSum(frame.ip)) = 65535
    /\ asked.kind \in {"answered", "udp"} =>
         Word(frame.ip, 3) = 20 + Len(frame.payload)

(* A ping of up to 62 bytes is answered to its sender, from the address it *)
(* was sent to, with its identifier, number and data, and a checksum that  *)
(* is right over all that comes back, the padding of a short frame         *)
(* included (build_echo_reply).                                            *)
EchoAnswersPing ==
  asked.kind = "answered" =>
    LET n == Len(asked.message) IN
    /\ TargetOf(frame.ip) = asked.src /\ SourceOf(frame.ip) = asked.dst
    /\ frame.payload[1] = 0 /\ Fold(Sum(frame.payload)) = 65535
    /\ Len(frame.payload) >= n
    /\ \A i \in 5..n : i <= 62 => frame.payload[i] = asked.message[i]

(* A peer that goes by the length of the IP packet finds a checksum in the *)
(* datagram, which is never 0 (that means none), and finds it right        *)
(* (calc_udp_checksum, build_udp_packet).                                  *)
UdpChecksumAccepted ==
  asked.kind = "udp" =>
    LET m == frame.payload
        pseudo == PseudoHeader(asked.src, asked.dst, 17, Word(frame.ip, 3) - 20)
    IN  Word(m, 7) # 0 /\ Fold(pseudo + Sum(m)) = 65535

==============================================================================
