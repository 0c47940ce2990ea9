------------------------------ MODULE MCPackets ------------------------------
(***************************************************************************)
(* Pings around the 62 and 64 bytes of the reply, datagrams of even and    *)
(* odd length whose sums carry, and some whose checksum comes out as 0.    *)
(***************************************************************************)
EXTENDS Packets

MCAddresses == {<<10, 0, 2, 15>>, <<255, 255, 255, 255>>, <<0, 255, 128, 0>>}
MCPorts == {53, 65535, 4660}

Fill(n, a, b) == [i \in 1..n |-> IF i % 2 = 1 THEN a ELSE b]

MCEchoData == {Fill(n, a, b) : n \in {0, 1, 18, 19, 53, 54, 55, 56, 57},
                               a \in {0, 255}, b \in {1, 255}}
MCUdpData == {Fill(n, a, b) : n \in 0..3, a \in {0, 255}, b \in {1, 255}}
                \cup {<<255, b>> : b \in 192..255}
==============================================================================
