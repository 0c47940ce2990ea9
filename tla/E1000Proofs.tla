----------------------------- MODULE E1000Proofs -----------------------------
(***************************************************************************)
(* The safety of the E1000 driver's rings, proved for rings of any size    *)
(* and any number of packets.                                              *)
(*                                                                         *)
(* Indexes go round the ring; Place and Dist count without the remainder.  *)
(* RxInv says which slots the card and the driver own of the receive ring, *)
(* TxInv what is in the slots still to be sent; Inv adds what set-up has   *)
(* established at each of its steps.                                       *)
(***************************************************************************)
EXTENDS E1000, TLAPS, SequenceTheorems

(* Slots of a ring of n, counted from one of them.                         *)
Place(a, k, n) == IF a + k < n THEN a + k ELSE a + k - n
Dist(a, b, n) == IF b >= a THEN b - a ELSE b - a + n

LEMMA RingMod ==
  ASSUME NEW n \in Nat, n > 0, NEW x \in Int, -n <= x, x < 2 * n
  PROVE  x % n = IF x < 0 THEN x + n ELSE IF x < n THEN x ELSE x - n
<1> DEFINE q == x \div n
<1> DEFINE r == x % n
<1>1. q \in Int /\ r \in 0 .. (n - 1)
  OBVIOUS
<1>2. x = n * q + r
  OBVIOUS
<1> HIDE DEF q, r
<1>3. q >= -1
  <2>1. SUFFICES ASSUME q <= -2 PROVE FALSE
    BY <1>1, <1>2
  <2>2. n * q <= n * (-2)
    BY <1>1, <1>2, <2>1
  <2> QED
    BY <1>1, <1>2, <2>2
<1>4. q <= 1
  <2>1. SUFFICES ASSUME q >= 2 PROVE FALSE
    BY <1>1, <1>2
  <2>2. n * q >= n * 2
    BY <1>1, <1>2, <2>1
  <2> QED
    BY <1>1, <1>2, <2>2
<1>5. q \in {-1, 0, 1}
  BY <1>1, <1>3, <1>4
<1>6. r = IF x < 0 THEN x + n ELSE IF x < n THEN x ELSE x - n
  BY <1>1, <1>2, <1>5
<1> QED
  BY <1>6 DEF r

(* Going round the ring: counting on from a slot and counting back.        *)
LEMMA RoundTheRing ==
  ASSUME NEW n \in Nat, n >= 2, NEW a \in 0 .. (n - 1)
  PROVE  /\ \A k \in 0 .. n : Place(a, k, n) \in 0 .. (n - 1)
         /\ \A k \in 0 .. (n - 1) : Dist(a, Place(a, k, n), n) = k
         /\ \A b \in 0 .. (n - 1) :
              Dist(a, b, n) \in 0 .. (n - 1) /\ Place(a, Dist(a, b, n), n) = b
         /\ \A k \in 0 .. (n - 1) : (a + k) % n = Place(a, k, n)
         /\ (a + 1) % n = Place(a, 1, n)
<1>1. \A k \in 0 .. (n - 1) : (a + k) % n = Place(a, k, n)
  BY RingMod DEF Place
<1>2. (a + 1) % n = Place(a, 1, n)
  BY <1>1
<1> QED
  BY <1>1, <1>2 DEF Place, Dist

-----------------------------------------------------------------------------
(* The receive ring.                                                       *)
N == RX_DESC_COUNT
First == Place(rdt, 1, N)
Filled == Dist(First, rdh, N)

RxTyped ==
  /\ rdh \in Rx!Slots /\ rdt \in Rx!Slots
  /\ rx_status \in [Rx!Slots -> {0, 1}] /\ rx_buffer \in [Rx!Slots -> Nat]
  /\ filling \in BOOLEAN /\ arrived \in 0 .. MaxArrivals
  /\ lent \in {Rx!NoSlot, rdt}
  /\ out \in Seq(Nat)

(* The card is at work on a slot of its own; a slot that is marked filled  *)
(* lies between the driver's place and the card's.                         *)
RxRing ==
  /\ filling => rdh # rdt /\ rx_buffer[rdh] \in Rx!Packets
  /\ \A s \in Rx!Slots : Filled <= Dist(First, s, N) => rx_status[s] = 0
  /\ rx_pc \in {"check", "clear", "tail"} => idx = First
  /\ rx_pc \in {"clear", "tail"} => rdh # First
  /\ rx_pc = "tail" => rx_status[idx] = 0

RxInv == RxTyped /\ RxRing

LEMMA RxPlaces ==
  ASSUME NEW t \in Rx!Slots, NEW h \in Rx!Slots
  PROVE  /\ N \in Nat /\ N >= 2 /\ Rx!Slots = 0 .. (N - 1)
         /\ Place(t, 1, N) \in Rx!Slots /\ Rx!Succ(t) = Place(t, 1, N)
         /\ Dist(Place(t, 1, N), h, N) \in 0 .. (N - 1)
         /\ (h - Rx!Succ(t)) % N = Dist(Place(t, 1, N), h, N)
<1> DEFINE f == Place(t, 1, N)
<1>1. N \in Nat /\ N >= 2 /\ Rx!Slots = 0 .. (N - 1)
  BY RingAssumption DEF N, Rx!Slots
<1>2. f \in 0 .. (N - 1) /\ (t + 1) % N = f
  BY <1>1, RoundTheRing
<1>3. Rx!Succ(t) = f
  BY <1>2 DEF Rx!Succ, N
<1> HIDE DEF f
<1>4. Dist(f, h, N) \in 0 .. (N - 1)
  BY <1>1, <1>2, RoundTheRing
<1>5. (h - f) % N = Dist(f, h, N)
  <2>1. h - f \in Int /\ -N <= h - f /\ h - f < 2 * N
    BY <1>1, <1>2
  <2>2. (h - f) % N = IF h - f < 0 THEN h - f + N ELSE IF h - f < N THEN h - f ELSE h - f - N
    BY <1>1, <2>1, RingMod
  <2> QED
    BY <1>1, <1>2, <2>2 DEF Dist
<1> QED
  BY <1>1, <1>2, <1>3, <1>4, <1>5 DEF f

LEMMA FirstAndFilled ==
  ASSUME RxTyped
  PROVE  /\ First \in 0 .. (N - 1) /\ Filled \in 0 .. (N - 1)
         /\ N \in Nat /\ N >= 2 /\ Rx!Slots = 0 .. (N - 1)
         /\ Rx!Succ(rdt) = First /\ Rx!Succ(rdh) = Place(rdh, 1, N)
         /\ Place(First, Filled, N) = rdh
<1>1. rdt \in Rx!Slots /\ rdh \in Rx!Slots
  BY DEF RxTyped
<1>2. /\ First \in 0 .. (N - 1) /\ Filled \in 0 .. (N - 1)
      /\ N \in Nat /\ N >= 2 /\ Rx!Slots = 0 .. (N - 1)
      /\ Rx!Succ(rdt) = First /\ Rx!Succ(rdh) = Place(rdh, 1, N)
  BY <1>1, RxPlaces DEF First, Filled
<1> QED
  BY <1>1, <1>2, RoundTheRing DEF Filled

(* The packets that wait in the ring.                                      *)
Waiting(t, h, packets) ==
  [k \in 1 .. Dist(Place(t, 1, N), h, N) |-> packets[Place(Place(t, 1, N), k - 1, N)]]

LEMMA WaitingIs ==
  ASSUME NEW t \in Rx!Slots, NEW h \in Rx!Slots, NEW packets \in [Rx!Slots -> Nat]
  PROVE  /\ [k \in 1 .. ((h - Rx!Succ(t)) % N) |-> packets[(t + k) % N]] = Waiting(t, h, packets)
         /\ Waiting(t, h, packets) \in Seq(Nat)
         /\ Len(Waiting(t, h, packets)) = Dist(Place(t, 1, N), h, N)
<1> DEFINE f == Place(t, 1, N)
<1> DEFINE n == Dist(f, h, N)
<1>1. /\ n \in 0 .. (N - 1) /\ N \in Nat /\ N >= 2 /\ t \in 0 .. (N - 1)
      /\ Rx!Slots = 0 .. (N - 1) /\ (h - Rx!Succ(t)) % N = n
  BY RxPlaces
<1> HIDE DEF n, f
<1>2. \A k \in 1 .. n : (t + k) % N = Place(f, k - 1, N) /\ Place(f, k - 1, N) \in Rx!Slots
  <2> SUFFICES ASSUME NEW k \in 1 .. n
               PROVE  (t + k) % N = Place(f, k - 1, N) /\ Place(f, k - 1, N) \in Rx!Slots
    OBVIOUS
  <2>1. k \in 0 .. (N - 1) /\ k \in 0 .. N /\ k >= 1
    BY <1>1
  <2>2. (t + k) % N = Place(t, k, N) /\ Place(t, k, N) \in 0 .. (N - 1)
    BY <1>1, <2>1, RoundTheRing
  <2> QED
    BY <1>1, <2>1, <2>2 DEF Place, f
<1>3. Waiting(t, h, packets) = [k \in 1 .. n |-> packets[Place(f, k - 1, N)]]
  BY DEF Waiting, n, f
<1>4. Waiting(t, h, packets) \in Seq(Nat) /\ Len(Waiting(t, h, packets)) = n
  BY <1>1, <1>2, <1>3
<1> QED
  BY <1>1, <1>2, <1>3, <1>4 DEF n, f

(* The queue of the refinement is what waits, now and after a step.        *)
LEMMA QueueIs ==
  ASSUME RxTyped
  PROVE  /\ Rx!QueueBar = Waiting(rdt, rdh, rx_buffer)
         /\ Rx!QueueBar \in Seq(Nat) /\ Len(Rx!QueueBar) = Filled
<1>1. rdt \in Rx!Slots /\ rdh \in Rx!Slots /\ rx_buffer \in [Rx!Slots -> Nat]
  BY DEF RxTyped
<1>2. Rx!QueueBar = [k \in 1 .. ((rdh - Rx!Succ(rdt)) % N) |-> rx_buffer[(rdt + k) % N]]
  BY Zenon DEF Rx!QueueBar, Rx!FilledCount, N
<1>3. /\ Rx!QueueBar = Waiting(rdt, rdh, rx_buffer)
      /\ Waiting(rdt, rdh, rx_buffer) \in Seq(Nat)
      /\ Len(Waiting(rdt, rdh, rx_buffer)) = Dist(Place(rdt, 1, N), rdh, N)
  BY ONLY <1>1, <1>2, WaitingIs, Zenon
<1> QED
  BY <1>3, Zenon DEF Filled, First

LEMMA QueueWillBe ==
  ASSUME RxTyped'
  PROVE  /\ Rx!QueueBar' = Waiting(rdt', rdh', rx_buffer')
         /\ Rx!QueueBar' \in Seq(Nat) /\ Len(Rx!QueueBar)' = Filled'
<1>1. rdt' \in Rx!Slots /\ rdh' \in Rx!Slots /\ rx_buffer' \in [Rx!Slots -> Nat]
  BY DEF RxTyped
<1>2. Rx!QueueBar' = [k \in 1 .. ((rdh' - Rx!Succ(rdt')) % N) |-> rx_buffer'[(rdt' + k) % N]]
  BY Zenon DEF Rx!QueueBar, Rx!FilledCount, N
<1>3. /\ Rx!QueueBar' = Waiting(rdt', rdh', rx_buffer')
      /\ Waiting(rdt', rdh', rx_buffer') \in Seq(Nat)
      /\ Len(Waiting(rdt', rdh', rx_buffer')) = Dist(Place(rdt', 1, N), rdh', N)
  BY ONLY <1>1, <1>2, WaitingIs, Zenon
<1> QED
  BY <1>3, Zenon DEF Filled, First

(* Steps of ring and card against the queue they are.                      *)
Waits == UNCHANGED <<Rx!QueueBar, out>>
Enters ==
  \E p \in Rx!Packets :
    /\ Len(Rx!QueueBar) < N - 1
    /\ Rx!QueueBar' = Append(Rx!QueueBar, p)
    /\ UNCHANGED out
Leaves ==
  /\ Rx!QueueBar # <<>>
  /\ out' = Append(out, Head(Rx!QueueBar))
  /\ Rx!QueueBar' = Tail(Rx!QueueBar)

LEMMA BufferFilled ==
  ASSUME RxInv, Rx!CardWritesBuffer
  PROVE  RxInv' /\ Waits
<1>1. /\ ~ filling /\ rdh # rdt /\ arrived' = arrived + 1 /\ arrived < MaxArrivals
      /\ rx_buffer' = [rx_buffer EXCEPT ![rdh] = arrived + 1] /\ filling' = TRUE
      /\ UNCHANGED <<rdh, rdt, rx_status, rx_pc, idx, lent, out>>
  BY DEF Rx!CardWritesBuffer
<1>2. First' = First /\ Filled' = Filled
  BY <1>1 DEF First, Filled
<1>3. RxTyped'
  BY <1>1, BoundAssumption DEF RxInv, RxTyped
<1>4. rx_buffer'[rdh] \in Rx!Packets
  BY <1>1, BoundAssumption DEF RxInv, RxTyped, Rx!Packets
<1>5. RxRing'
  BY <1>1, <1>2, <1>4 DEF RxInv, RxRing
<1>6. \A k \in 1 .. Filled : Place(First, k - 1, N) # rdh
  <2>1. First \in 0 .. (N - 1) /\ N \in Nat /\ N >= 2 /\ Filled \in 0 .. (N - 1)
    BY FirstAndFilled DEF RxInv
  <2>2. \A k \in 1 .. Filled : k - 1 \in 0 .. (N - 1) /\ k - 1 # Filled
    BY <2>1
  <2> QED
    BY <2>1, <2>2, RoundTheRing DEF Filled
<1>7. Rx!QueueBar' = Rx!QueueBar
  <2>1. \A k \in 1 .. Filled : rx_buffer'[Place(First, k - 1, N)] = rx_buffer[Place(First, k - 1, N)]
    BY <1>1, <1>6 DEF RxInv, RxTyped
  <2>2. Waiting(rdt', rdh', rx_buffer') = Waiting(rdt, rdh, rx_buffer)
    BY <1>1, <2>1 DEF Waiting, First, Filled
  <2> QED
    BY <1>3, <2>2, QueueIs, QueueWillBe DEF RxInv
<1> QED
  BY <1>1, <1>3, <1>5, <1>7 DEF RxInv, Waits

(* The card's place moves on, up to the slot before the driver's; the      *)
(* driver's moves on, up to the card's.                                    *)
LEMMA OneMore ==
  ASSUME NEW n \in Nat, n >= 2, NEW t \in 0 .. (n - 1), NEW h \in 0 .. (n - 1), h # t
  PROVE  LET f == Place(t, 1, n)
         IN  /\ Dist(f, h, n) < n - 1
             /\ Dist(f, Place(h, 1, n), n) = Dist(f, h, n) + 1
  BY DEF Place, Dist

LEMMA OneLess ==
  ASSUME NEW n \in Nat, n >= 2, NEW f \in 0 .. (n - 1), NEW h \in 0 .. (n - 1), h # f
  PROVE  LET g == Place(f, 1, n)
         IN  /\ Dist(f, h, n) > 0 /\ Dist(g, h, n) = Dist(f, h, n) - 1
             /\ \A k \in 0 .. (n - 2) : Place(g, k, n) = Place(f, k + 1, n)
             /\ \A s \in 0 .. (n - 1) :
                  Dist(g, s, n) = IF s = f THEN n - 1 ELSE Dist(f, s, n) - 1
  BY DEF Place, Dist

LEMMA BufferWrittenBack ==
  ASSUME RxInv, Rx!CardWritesBack
  PROVE  RxInv' /\ Enters
<1>1. /\ filling /\ rx_status' = [rx_status EXCEPT ![rdh] = 1]
      /\ rdh' = Place(rdh, 1, N) /\ filling' = FALSE
      /\ UNCHANGED <<rdt, rx_buffer, rx_pc, idx, lent, arrived, out>>
  BY FirstAndFilled DEF Rx!CardWritesBack, RxInv
<1>2. /\ rdh # rdt /\ rx_buffer[rdh] \in Rx!Packets
      /\ rdh \in 0 .. (N - 1) /\ rdt \in 0 .. (N - 1)
      /\ First \in 0 .. (N - 1) /\ Filled \in 0 .. (N - 1)
      /\ N \in Nat /\ N >= 2 /\ Rx!Slots = 0 .. (N - 1)
  BY <1>1, FirstAndFilled DEF RxInv, RxTyped, RxRing
<1>3. First' = First /\ Filled' = Filled + 1 /\ Filled < N - 1
  BY <1>1, <1>2, OneMore DEF First, Filled
<1>4. rdh' \in Rx!Slots /\ rdh' # First
  <2>1. Place(First, Filled, N) = rdh /\ Dist(First, First, N) = 0
    BY <1>2, FirstAndFilled DEF RxInv, Dist
  <2>2. Dist(First, rdh', N) # 0
    BY <1>2, <1>3 DEF Filled
  <2> QED
    BY <1>1, <1>2, <2>1, <2>2, RoundTheRing
<1>5. RxTyped'
  BY <1>1, <1>2, <1>4 DEF RxInv, RxTyped
<1>6. \A s \in Rx!Slots : Filled + 1 <= Dist(First, s, N) => rx_status'[s] = 0
  <2> SUFFICES ASSUME NEW s \in Rx!Slots, Filled + 1 <= Dist(First, s, N)
               PROVE  rx_status'[s] = 0
    OBVIOUS
  <2>1. Dist(First, s, N) \in 0 .. (N - 1)
    BY <1>2, RoundTheRing
  <2>2. Filled <= Dist(First, s, N) /\ s # rdh
    BY <1>2, <2>1 DEF Filled
  <2> QED
    BY <1>1, <2>2 DEF RxInv, RxTyped, RxRing
<1>7. rx_pc = "tail" => rx_status'[idx] = 0
  <2>1. rx_pc = "tail" => idx = First /\ rdh # First /\ rx_status[idx] = 0
    BY DEF RxInv, RxRing
  <2> QED
    BY <1>1, <1>2, <2>1 DEF RxInv, RxTyped
<1>8. RxRing'
  BY <1>1, <1>3, <1>4, <1>6, <1>7 DEF RxInv, RxRing
<1>9. Rx!QueueBar' = Append(Rx!QueueBar, rx_buffer[rdh])
  <2>1. Rx!QueueBar = [k \in 1 .. Filled |-> rx_buffer[Place(First, k - 1, N)]]
    BY QueueIs DEF RxInv, Waiting, Filled, First
  <2>2. Rx!QueueBar' = [k \in 1 .. (Filled + 1) |-> rx_buffer[Place(First, k - 1, N)]]
    BY <1>1, <1>3, <1>5, QueueWillBe DEF Waiting, Filled, First
  <2>3. rx_buffer[Place(First, (Filled + 1) - 1, N)] = rx_buffer[rdh]
    BY <1>2, FirstAndFilled DEF RxInv
  <2>4. rx_buffer[rdh] \in Nat
    BY DEF RxInv, RxTyped
  <2> DEFINE old == Rx!QueueBar
  <2> DEFINE at(k) == rx_buffer[Place(First, k - 1, N)]
  <2>5. \A k \in 1 .. (Filled + 1) : at(k) = IF k <= Filled THEN old[k] ELSE rx_buffer[rdh]
    BY <1>2, <2>1, <2>3
  <2>6. old \in Seq(Nat) /\ Len(old) = Filled
    BY QueueIs DEF RxInv
  <2>7. Rx!QueueBar' = [k \in 1 .. (Filled + 1) |-> at(k)]
    BY <2>2
  <2> HIDE DEF at, old
  <2>8. [k \in 1 .. (Filled + 1) |-> at(k)] = Append(old, rx_buffer[rdh])
    BY <1>2, <2>4, <2>5, <2>6
  <2> QED
    BY <2>7, <2>8 DEF old
<1> QED
  BY <1>1, <1>2, <1>3, <1>5, <1>8, <1>9, QueueIs DEF RxInv, Enters

LEMMA ReceiverWorks ==
  ASSUME RxInv, Rx!Receive \/ Rx!CheckStatus \/ Rx!ClearStatus
  PROVE  RxInv' /\ Waits /\ UNCHANGED rx_buffer
<1>1. UNCHANGED <<rdh, rdt, rx_buffer, filling, arrived, out>>
  BY DEF Rx!Receive, Rx!CheckStatus, Rx!ClearStatus
<1>2. First' = First /\ Filled' = Filled
  BY <1>1 DEF First, Filled
<1>3. RxTyped'
  BY <1>1 DEF Rx!Receive, Rx!CheckStatus, Rx!ClearStatus, RxInv, RxTyped
<1>4. Waits
  BY <1>1, <1>3, QueueIs, QueueWillBe DEF RxInv, Waits
<1>5. RxRing'
  <2>1. CASE Rx!Receive
    BY <1>1, <1>2, <2>1, FirstAndFilled DEF Rx!Receive, RxInv, RxRing
  <2>2. CASE Rx!CheckStatus
    <3>1. /\ rx_pc = "check" /\ idx = First /\ UNCHANGED rx_status
          /\ \/ rx_status[idx] = 1 /\ rx_pc' = "clear" /\ idx' = idx
             \/ rx_pc' = "idle"
      BY <2>2 DEF Rx!CheckStatus, RxInv, RxRing
    <3>2. rx_status[First] = 1 => rdh # First
      BY FirstAndFilled DEF RxInv, RxRing, Filled, Dist
    <3> QED
      BY <1>1, <1>2, <3>1, <3>2 DEF RxInv, RxRing
  <2>3. CASE Rx!ClearStatus
    <3>1. /\ rx_pc = "clear" /\ rx_pc' = "tail" /\ idx = First /\ idx' = idx
          /\ rx_status' = [rx_status EXCEPT ![idx] = 0]
      BY <2>3 DEF Rx!ClearStatus, RxInv, RxRing
    <3>2. idx \in Rx!Slots
      BY <3>1, FirstAndFilled DEF RxInv
    <3> QED
      BY <1>1, <1>2, <3>1, <3>2 DEF RxInv, RxTyped, RxRing
  <2> QED
    BY <2>1, <2>2, <2>3
<1> QED
  BY <1>1, <1>3, <1>4, <1>5 DEF RxInv

LEMMA RestOf ==
  ASSUME NEW q \in Seq(Nat), Len(q) > 0
  PROVE  Tail(q) = [k \in 1 .. (Len(q) - 1) |-> q[k + 1]]
<1>1. Tail(q) \in Seq(Nat) /\ Len(Tail(q)) = Len(q) - 1
  OBVIOUS
<1>2. \A k \in 1 .. (Len(q) - 1) : Tail(q)[k] = q[k + 1]
  OBVIOUS
<1>3. Tail(q) = [k \in 1 .. (Len(q) - 1) |-> Tail(q)[k]]
  <2>1. Tail(q) \in [1 .. (Len(q) - 1) -> Nat]
    BY <1>1, LenProperties
  <2> QED
    BY <2>1
<1> QED
  BY <1>2, <1>3

LEMMA PacketReturned ==
  ASSUME RxInv, Rx!AdvanceTail
  PROVE  RxInv' /\ Leaves /\ UNCHANGED rx_buffer
<1>1. /\ rx_pc = "tail" /\ idx = First /\ rdh # First /\ rx_status[First] = 0
      /\ rdt' = First /\ rx_pc' = "idle" /\ lent' = First
      /\ out' = Append(out, rx_buffer[First])
      /\ UNCHANGED <<rdh, rx_status, rx_buffer, filling, arrived>>
  BY DEF Rx!AdvanceTail, RxInv, RxRing
<1>2. /\ rdh \in 0 .. (N - 1) /\ First \in 0 .. (N - 1) /\ Filled \in 0 .. (N - 1)
      /\ N \in Nat /\ N >= 2 /\ Rx!Slots = 0 .. (N - 1)
  BY FirstAndFilled DEF RxInv, RxTyped
<1>3. /\ First' = Place(First, 1, N) /\ Filled > 0 /\ Filled' = Filled - 1
      /\ \A k \in 0 .. (N - 2) : Place(First', k, N) = Place(First, k + 1, N)
      /\ \A s \in 0 .. (N - 1) :
           Dist(First', s, N) = IF s = First THEN N - 1 ELSE Dist(First, s, N) - 1
  <2>1. First' = Place(First, 1, N) /\ Filled' = Dist(First', rdh, N)
    BY <1>1 DEF First, Filled
  <2> QED
    BY <1>1, <1>2, <2>1, OneLess DEF Filled
<1>4. rx_buffer[First] \in Nat
  BY <1>2 DEF RxInv, RxTyped
<1>5. RxTyped'
  BY <1>1, <1>2, <1>4 DEF RxInv, RxTyped
<1>6. \A s \in Rx!Slots : Filled' <= Dist(First', s, N) => rx_status[s] = 0
  <2> SUFFICES ASSUME NEW s \in Rx!Slots, Filled - 1 <= Dist(First', s, N), s # First
               PROVE  rx_status[s] = 0
    BY <1>1, <1>3
  <2>1. Dist(First, s, N) \in 0 .. (N - 1) /\ Dist(First', s, N) = Dist(First, s, N) - 1
    BY <1>2, <1>3, RoundTheRing
  <2>2. Filled <= Dist(First, s, N)
    BY <1>2, <2>1
  <2> QED
    BY <2>2 DEF RxInv, RxRing
<1>7. RxRing'
  <2>1. filling' => rdh' # rdt' /\ rx_buffer'[rdh'] \in Rx!Packets
    BY <1>1 DEF RxInv, RxRing
  <2>2. \A s \in Rx!Slots : Filled' <= Dist(First', s, N') => rx_status'[s] = 0
    BY <1>1, <1>6 DEF N
  <2> QED
    BY <1>1, <2>1, <2>2 DEF RxRing
<1>8. Leaves
  <2> DEFINE old == Rx!QueueBar
  <2>1. old = [k \in 1 .. Filled |-> rx_buffer[Place(First, k - 1, N)]]
    BY QueueIs DEF RxInv, Waiting, Filled, First
  <2>2. Rx!QueueBar' = [k \in 1 .. (Filled - 1) |-> rx_buffer[Place(First', k - 1, N)]]
    BY <1>1, <1>3, <1>5, QueueWillBe DEF Waiting, Filled, First
  <2>3. old \in Seq(Nat) /\ Len(old) = Filled
    BY QueueIs DEF RxInv
  <2>4. \A k \in 1 .. (Filled - 1) : rx_buffer[Place(First', k - 1, N)] = old[k + 1]
    <3> SUFFICES ASSUME NEW k \in 1 .. (Filled - 1)
                 PROVE  rx_buffer[Place(First', k - 1, N)] = old[k + 1]
      OBVIOUS
    <3>1. Place(First', k - 1, N) = Place(First, (k - 1) + 1, N)
      BY <1>2, <1>3
    <3>2. k + 1 \in 1 .. Filled /\ (k - 1) + 1 = (k + 1) - 1
      BY <1>2
    <3> QED
      BY <2>1, <3>1, <3>2
  <2>5. old[1] = rx_buffer[First]
    <3>1. Place(First, 1 - 1, N) = First
      BY <1>2 DEF Place
    <3> QED
      BY <1>2, <1>3, <2>1, <3>1
  <2> DEFINE next(k) == rx_buffer[Place(First', k - 1, N)]
  <2>6. Rx!QueueBar' = Tail(old)
    <3>1. \A k \in 1 .. (Filled - 1) : next(k) = old[k + 1]
      BY <2>4
    <3>2. Rx!QueueBar' = [k \in 1 .. (Filled - 1) |-> next(k)]
      BY <2>2
    <3> HIDE DEF next, old
    <3>3. Tail(old) = [k \in 1 .. (Filled - 1) |-> old[k + 1]]
      BY <1>2, <1>3, <2>3, RestOf
    <3> QED
      BY <3>1, <3>2, <3>3
  <2> HIDE DEF old
  <2>7. old # <<>> /\ Head(old) = rx_buffer[First]
    BY <1>2, <1>3, <2>3, <2>5
  <2> QED
    BY <1>1, <2>6, <2>7 DEF Leaves, old
<1> QED
  BY <1>1, <1>5, <1>7, <1>8 DEF RxInv

-----------------------------------------------------------------------------
(* The transmit ring.                                                      *)
M == TX_DESC_COUNT
Unsent == Len(accepted) - Len(sent)

TxTyped ==
  /\ tdh \in Tx!Slots /\ tdt \in Tx!Slots
  /\ tx_status \in [Tx!Slots -> {0, 1}] /\ tx_buffer \in [Tx!Slots -> Nat]
  /\ data \in Nat /\ calls \in Nat
  /\ accepted \in Seq(Nat) /\ sent \in Seq(Nat)

(* What is accepted and not sent is in the slots from TDH on, each marked  *)
(* as not done; also if they are all of the ring.                          *)
TxRing ==
  /\ Unsent \in 0 .. M /\ tdt = Place(tdh, Unsent, M)
  /\ \A s \in Tx!Slots : Dist(tdh, s, M) < Unsent =>
       tx_status[s] = 0 /\ tx_buffer[s] = accepted[Len(sent) + Dist(tdh, s, M) + 1]
  /\ sending => Unsent > 0
  /\ tx_pc \in {"copy", "describe", "tail"} => Unsent < M
  /\ tx_pc \in {"describe", "tail"} => tx_buffer[tdt] = data
  /\ tx_pc = "tail" => tx_status[tdt] = 0
  /\ \A k \in 1 .. Len(sent) : sent[k] = accepted[k]

TxInv == TxTyped /\ TxRing

LEMMA TxPlaces ==
  ASSUME TxInv
  PROVE  /\ M \in Nat /\ M >= 2 /\ Tx!Slots = 0 .. (M - 1)
         /\ \A s \in Tx!Slots : Tx!Succ(s) = Place(s, 1, M) /\ Place(s, 1, M) \in Tx!Slots
         /\ Unsent < M => Dist(tdh, tdt, M) = Unsent
         /\ Unsent \in Nat /\ Len(sent) \in Nat /\ Len(accepted) \in Nat
<1>1. M \in Nat /\ M >= 2 /\ Tx!Slots = 0 .. (M - 1)
  BY RingAssumption DEF M, Tx!Slots
<1>2. \A s \in Tx!Slots : Tx!Succ(s) = Place(s, 1, M) /\ Place(s, 1, M) \in Tx!Slots
  BY <1>1, RoundTheRing DEF Tx!Succ, M
<1>3. Unsent < M => Dist(tdh, tdt, M) = Unsent
  BY <1>1, RoundTheRing DEF TxInv, TxTyped, TxRing
<1>4. Len(sent) \in Nat /\ Len(accepted) \in Nat
  BY DEF TxInv, TxTyped
<1>5. Unsent \in Nat
  BY <1>1 DEF TxInv, TxRing
<1> QED
  BY <1>1, <1>2, <1>3, <1>4, <1>5

LEMMA StepOn ==
  ASSUME NEW n \in Nat, n >= 2, NEW a \in 0 .. (n - 1)
  PROVE  /\ \A k \in 0 .. (n - 1) : Place(Place(a, k, n), 1, n) = Place(a, k + 1, n)
         /\ \A k \in 1 .. n : Place(Place(a, 1, n), k - 1, n) = Place(a, k, n)
         /\ \A s \in 0 .. (n - 1) :
              Dist(Place(a, 1, n), s, n) = IF s = a THEN n - 1 ELSE Dist(a, s, n) - 1
         /\ Place(a, n, n) = a /\ Place(a, 0, n) = a /\ Dist(a, a, n) = 0
  BY DEF Place, Dist

LEMMA SendingStarts ==
  ASSUME TxInv, Tx!CardBegins
  PROVE  TxInv'
<1>1. /\ tdh # tdt /\ sending' = TRUE
      /\ UNCHANGED <<tdh, tdt, tx_status, tx_buffer, tx_pc, data, calls, accepted, sent>>
  BY DEF Tx!CardBegins
<1>2. Unsent > 0
  BY <1>1, TxPlaces, StepOn DEF TxInv, TxTyped, TxRing
<1>3. TxTyped'
  BY <1>1 DEF TxInv, TxTyped
<1>4. TxRing'
  BY <1>1, <1>2 DEF TxInv, TxRing, Unsent
<1> QED
  BY <1>3, <1>4 DEF TxInv

LEMMA PacketSent ==
  ASSUME TxInv, Tx!CardWritesBack
  PROVE  TxInv'
<1>1. /\ sending /\ sent' = Append(sent, tx_buffer[tdh])
      /\ tx_status' = [tx_status EXCEPT ![tdh] = 1]
      /\ tdh' = Place(tdh, 1, M) /\ sending' = FALSE
      /\ UNCHANGED <<tdt, tx_buffer, tx_pc, data, calls, accepted>>
  BY TxPlaces DEF Tx!CardWritesBack, TxInv, TxTyped
<1>2. /\ M \in Nat /\ M >= 2 /\ Tx!Slots = 0 .. (M - 1)
      /\ tdh \in 0 .. (M - 1) /\ tdt \in 0 .. (M - 1) /\ tdh' \in 0 .. (M - 1)
      /\ Unsent \in 1 .. M /\ tdt = Place(tdh, Unsent, M)
      /\ Len(sent) \in Nat /\ Len(accepted) \in Nat
  BY <1>1, TxPlaces, SMTT(30) DEF TxInv, TxTyped, TxRing
<1>3. Len(sent') = Len(sent) + 1 /\ Unsent' = Unsent - 1
  <2>1. tx_buffer[tdh] \in Nat /\ sent \in Seq(Nat)
    BY <1>2 DEF TxInv, TxTyped
  <2>2. Len(sent') = Len(sent) + 1
    BY <1>1, <2>1
  <2> QED
    BY <1>1, <1>2, <2>2 DEF Unsent
<1>4. TxTyped'
  BY <1>1, <1>2, SMTT(30) DEF TxInv, TxTyped
<1>5. tdt' = Place(tdh', Unsent', M)
  BY <1>1, <1>2, <1>3, StepOn
<1>6. ASSUME NEW s \in Tx!Slots, Dist(tdh', s, M) < Unsent'
      PROVE  /\ tx_status'[s] = 0
             /\ tx_buffer'[s] = accepted'[Len(sent') + Dist(tdh', s, M) + 1]
  <2>1. /\ Dist(tdh', s, M) = IF s = tdh THEN M - 1 ELSE Dist(tdh, s, M) - 1
        /\ Dist(tdh, s, M) \in 0 .. (M - 1)
    BY <1>1, <1>2, StepOn, RoundTheRing, ZenonT(60)
  <2>2. s # tdh /\ Dist(tdh', s, M) = Dist(tdh, s, M) - 1 /\ Dist(tdh, s, M) < Unsent
    BY <1>2, <1>3, <1>6, <2>1
  <2>3. /\ tx_status[s] = 0
        /\ tx_buffer[s] = accepted[Len(sent) + Dist(tdh, s, M) + 1]
    BY <2>2 DEF TxInv, TxRing
  <2>4. Len(sent') + Dist(tdh', s, M) + 1 = Len(sent) + Dist(tdh, s, M) + 1
    BY <1>2, <1>3, <2>1, <2>2
  <2> QED
    BY <1>1, <2>2, <2>3, <2>4 DEF TxInv, TxTyped
<1>7. tx_pc = "tail" => tx_status'[tdt] = 0
  <2>1. tx_pc = "tail" => Unsent < M /\ tx_status[tdt] = 0
    BY DEF TxInv, TxRing
  <2>2. Unsent < M => tdt # tdh
    BY <1>2, StepOn, TxPlaces
  <2> QED
    BY <1>1, <1>2, <2>1, <2>2 DEF TxInv, TxTyped
<1>8. \A k \in 1 .. Len(sent') : sent'[k] = accepted'[k]
  <2>1. tx_buffer[tdh] = accepted[Len(sent) + 1]
    <3>1. Dist(tdh, tdh, M) = 0 /\ 0 < Unsent
      BY <1>2, StepOn
    <3> QED
      BY <1>2, <3>1 DEF TxInv, TxRing
  <2>2. \A k \in 1 .. Len(sent) : sent[k] = accepted[k]
    BY DEF TxInv, TxRing
  <2>3. sent \in Seq(Nat)
    BY DEF TxInv, TxTyped
  <2> QED
    BY <1>1, <1>2, <1>3, <2>1, <2>2, <2>3, SMTT(30)
<1>9. tx_pc \in {"copy", "describe", "tail"} => Unsent' < M
  BY <1>2, <1>3
<1>10. tx_pc \in {"describe", "tail"} => tx_buffer[tdt] = data
  BY DEF TxInv, TxRing
<1>11. Unsent' \in 0 .. M
  BY <1>2, <1>3
<1>12. TxRing'
  BY <1>1, <1>5, <1>6, <1>7, <1>8, <1>9, <1>10, <1>11 DEF TxRing, M, Tx!Slots
<1> QED
  BY <1>4, <1>12 DEF TxInv

LEMMA SendStarts ==
  ASSUME TxInv, Tx!Send
  PROVE  TxInv' /\ UNCHANGED tx_buffer
<1>1. /\ data' = calls + 1 /\ calls' = calls + 1 /\ tx_pc' = "check"
      /\ UNCHANGED <<tdh, tdt, tx_status, tx_buffer, sending, accepted, sent>>
  BY DEF Tx!Send, Tx!card
<1> QED
  BY <1>1 DEF TxInv, TxTyped, TxRing, Unsent

LEMMA SendGoesOn ==
  ASSUME TxInv, Tx!CheckStatus \/ Tx!Describe
  PROVE  TxInv' /\ UNCHANGED tx_buffer
<1>1. UNCHANGED <<tdh, tdt, tx_buffer, sending, calls, accepted, sent>>
  BY DEF Tx!CheckStatus, Tx!Describe, Tx!card
<1>2. CASE Tx!CheckStatus
  <2>1. /\ UNCHANGED tx_status
        /\ \/ tx_status[tdt] = 1 /\ tx_pc' = "copy" /\ data' = data
           \/ tx_pc' = "idle" /\ data' = 0
    BY <1>2 DEF Tx!CheckStatus, Tx!Nothing
  <2>2. tx_status[tdt] = 1 => Unsent < M
    <3> SUFFICES ASSUME Unsent = M PROVE tx_status[tdt] = 0
      BY TxPlaces DEF TxInv, TxRing
    <3>1. tdt = tdh /\ Dist(tdh, tdh, M) = 0 /\ 0 < Unsent
      BY TxPlaces, StepOn DEF TxInv, TxTyped, TxRing
    <3> QED
      BY <3>1 DEF TxInv, TxTyped, TxRing
  <2> QED
    BY <1>1, <2>1, <2>2 DEF TxInv, TxTyped, TxRing, Unsent
<1>3. CASE Tx!Describe
  <2>1. /\ tx_pc = "describe" /\ tx_pc' = "tail" /\ data' = data
        /\ tx_status' = [tx_status EXCEPT ![tdt] = 0]
    BY <1>3 DEF Tx!Describe
  <2>2. TxTyped'
    BY <1>1, <2>1 DEF TxInv, TxTyped
  <2>3. \A s \in Tx!Slots : tx_status'[s] = IF s = tdt THEN 0 ELSE tx_status[s]
    BY <2>1 DEF TxInv, TxTyped
  <2>4. TxRing'
    BY <1>1, <2>1, <2>3 DEF TxInv, TxTyped, TxRing, Unsent
  <2> QED
    BY <1>1, <2>2, <2>4 DEF TxInv
<1> QED
  BY <1>2, <1>3

(* send() writes to no slot that the card is still to send.                *)
LEMMA DataCopied ==
  ASSUME TxInv, Tx!CopyData
  PROVE  TxInv' /\ (sending => tx_buffer'[tdh] = tx_buffer[tdh])
<1>1. /\ tx_pc = "copy" /\ tx_pc' = "describe"
      /\ tx_buffer' = [tx_buffer EXCEPT ![tdt] = data]
      /\ UNCHANGED <<tdh, tdt, tx_status, sending, data, calls, accepted, sent>>
  BY DEF Tx!CopyData, Tx!card
<1>2. tdt \in Tx!Slots /\ tdh \in Tx!Slots /\ Unsent < M /\ Dist(tdh, tdt, M) = Unsent
  BY <1>1, TxPlaces DEF TxInv, TxTyped, TxRing
<1>3. \A s \in Tx!Slots : tx_buffer'[s] = IF s = tdt THEN data ELSE tx_buffer[s]
  BY <1>1 DEF TxInv, TxTyped
<1>4. sending => tdh # tdt
  BY <1>2, TxPlaces, StepOn DEF TxInv, TxRing
<1>5. TxTyped'
  BY <1>1 DEF TxInv, TxTyped
<1>6. \A s \in Tx!Slots : Dist(tdh, s, M) < Unsent => s # tdt
  BY <1>2, TxPlaces
<1>7. TxRing'
  BY <1>1, <1>2, <1>3, <1>6 DEF TxInv, TxRing, Unsent
<1> QED
  BY <1>2, <1>3, <1>4, <1>5, <1>7 DEF TxInv

LEMMA PacketAccepted ==
  ASSUME TxInv, Tx!AdvanceTail
  PROVE  TxInv' /\ UNCHANGED tx_buffer
<1>1. /\ tx_pc = "tail" /\ tdt' = Place(tdt, 1, M) /\ tx_pc' = "idle" /\ data' = 0
      /\ accepted' = Append(accepted, data)
      /\ UNCHANGED <<tdh, sending, sent, tx_status, tx_buffer, calls>>
  BY TxPlaces DEF Tx!AdvanceTail, Tx!card, Tx!Nothing, TxInv, TxTyped
<1>2. /\ M \in Nat /\ M >= 2 /\ Tx!Slots = 0 .. (M - 1)
      /\ tdh \in 0 .. (M - 1) /\ tdt \in 0 .. (M - 1)
      /\ Unsent \in 0 .. (M - 1) /\ tdt = Place(tdh, Unsent, M)
      /\ tx_buffer[tdt] = data /\ tx_status[tdt] = 0
      /\ Len(sent) \in Nat /\ Len(accepted) \in Nat
  BY <1>1, TxPlaces, SMTT(30) DEF TxInv, TxTyped, TxRing
<1>3. accepted \in Seq(Nat) /\ data \in Nat
  BY DEF TxInv, TxTyped
<1>4. /\ Len(accepted') = Len(accepted) + 1 /\ Unsent' = Unsent + 1
      /\ \A k \in 1 .. Len(accepted) : accepted'[k] = accepted[k]
      /\ accepted'[Len(accepted) + 1] = data
  <2>1. /\ Len(accepted') = Len(accepted) + 1
        /\ \A k \in 1 .. Len(accepted) : accepted'[k] = accepted[k]
        /\ accepted'[Len(accepted) + 1] = data
    BY <1>1, <1>3
  <2> QED
    BY <1>1, <1>2, <2>1 DEF Unsent
<1>5. tdt' = Place(tdh', Unsent', M)
  BY <1>1, <1>2, <1>4, StepOn
<1>6. TxTyped'
  <2>1. tdt' \in Tx!Slots
    BY <1>1, TxPlaces DEF TxInv, TxTyped
  <2> QED
    BY <1>1, <1>3, <2>1 DEF TxInv, TxTyped
<1>7. ASSUME NEW s \in Tx!Slots, Dist(tdh', s, M) < Unsent'
      PROVE  /\ tx_status'[s] = 0
             /\ tx_buffer'[s] = accepted'[Len(sent') + Dist(tdh', s, M) + 1]
  <2>1. Dist(tdh, s, M) \in 0 .. (M - 1) /\ Dist(tdh, s, M) <= Unsent
    <3>1. Dist(tdh, s, M) \in 0 .. (M - 1)
      BY <1>2, RoundTheRing
    <3>2. Dist(tdh, s, M) < Unsent + 1
      BY <1>1, <1>4, <1>7
    <3> QED
      BY <1>2, <3>1, <3>2
  <2>2. CASE Dist(tdh, s, M) < Unsent
    <3>1. tx_status[s] = 0 /\ tx_buffer[s] = accepted[Len(sent) + Dist(tdh, s, M) + 1]
      BY <2>2 DEF TxInv, TxRing
    <3>2. Len(sent) + Dist(tdh, s, M) + 1 \in 1 .. Len(accepted)
      BY <1>2, <2>1, <2>2 DEF Unsent
    <3> QED
      BY <1>1, <1>4, <3>1, <3>2
  <2>3. CASE Dist(tdh, s, M) = Unsent
    <3>1. s = tdt
      BY <1>2, <2>3, RoundTheRing
    <3>2. Len(sent) + Dist(tdh, s, M) + 1 = Len(accepted) + 1
      BY <1>2, <2>3 DEF Unsent
    <3> QED
      BY <1>1, <1>2, <1>4, <3>1, <3>2
  <2> QED
    BY <1>2, <2>1, <2>2, <2>3
<1>8. \A k \in 1 .. Len(sent') : sent'[k] = accepted'[k]
  <2>1. Len(sent) <= Len(accepted)
    BY <1>2 DEF Unsent
  <2>2. \A k \in 1 .. Len(sent) : sent[k] = accepted[k] /\ k \in 1 .. Len(accepted)
    BY <1>2, <2>1 DEF TxInv, TxRing
  <2> QED
    BY <1>1, <1>4, <2>2
<1>9. Unsent' \in 0 .. M /\ Unsent' > 0
  BY <1>2, <1>4
<1>10. TxRing'
  BY <1>1, <1>5, <1>7, <1>8, <1>9 DEF TxRing, M, Tx!Slots
<1> QED
  BY <1>1, <1>6, <1>10 DEF TxInv

-----------------------------------------------------------------------------
(* Driver and card together.                                               *)
Ready == {"enable_rx", "enable_tx", "running"}

Idle ==
  /\ rx_pc = "idle" /\ lent = Rx!NoSlot
  /\ tx_pc = "idle" /\ ~ sending /\ accepted = <<>> /\ sent = <<>>

Inv ==
  /\ pc \in {"reset", "await_reset", "await_link", "setup_rx", "setup_tx"} \cup Ready
  /\ rst => pc = "await_reset"
  /\ RxTyped /\ TxTyped
  /\ pc # "running" => Idle
  /\ pc \notin Ready => ~ filling /\ out = <<>>
  /\ pc = "setup_tx" => rdh = First
  /\ pc \in Ready \cup {"setup_tx"} => RxInv
  /\ pc \in Ready => TxInv

(* What the slice and the buffer being sent are promised.                  *)
SliceKept == lent # Rx!NoSlot /\ lent' = lent => rx_buffer'[lent] = rx_buffer[lent]
SendingKept == sending => tx_buffer'[tdh] = tx_buffer[tdh]

LEMMA InvAtFirst == Init => Inv /\ Ring!Init
<1> SUFFICES ASSUME Init PROVE Inv /\ Ring!Init
  OBVIOUS
<1>1. /\ pc = "reset" /\ rst = FALSE /\ Idle /\ ~ filling /\ out = <<>>
  BY DEF Init, Idle
<1>2. RxTyped
  <2>1. rdh \in Rx!Slots /\ rdt \in Rx!Slots /\ rx_status \in [Rx!Slots -> {0, 1}]
    BY DEF Init
  <2>2. rx_buffer \in [Rx!Slots -> Nat] /\ out \in Seq(Nat)
    BY DEF Init, Rx!Nothing
  <2>3. arrived \in 0 .. MaxArrivals
    BY BoundAssumption DEF Init
  <2>4. filling \in BOOLEAN /\ lent = Rx!NoSlot
    BY DEF Init
  <2> QED
    BY <2>1, <2>2, <2>3, <2>4 DEF RxTyped
<1>3. TxTyped
  BY DEF Init, TxTyped, Tx!Nothing
<1> QED
  BY <1>1, <1>2, <1>3 DEF Inv, Ready, Ring!Init

Queue == IF pc \in Ready THEN Rx!QueueBar ELSE <<>>

LEMMA EmptyRing ==
  ASSUME RxTyped, rdh = First
  PROVE  Filled = 0 /\ Rx!QueueBar = <<>>
<1>1. Filled = 0
  BY FirstAndFilled DEF Filled, Dist
<1> QED
  BY <1>1, QueueIs

(* The steps up to the end of set-up.                                      *)
LEMMA SetUpSteps ==
  ASSUME Inv, ResetEnds \/ LinkComesUp \/ New
  PROVE  Inv' /\ UNCHANGED <<rx_buffer, tx_buffer, Queue, out>>
<1>1. UNCHANGED <<rx_buffer, filling, rx_pc, idx, lent, arrived, out,
                  tx_buffer, sending, tx_pc, data, calls, accepted, sent>>
  BY DEF ResetEnds, LinkComesUp, New, Reset, ResetSeen, LinkSeen, SetupRx, SetupTx,
     EnableRx, EnableTx, rx, tx, rx_descs, tx_descs, rx_rest, tx_rest
<1>2. /\ N \in Nat /\ N >= 2 /\ Rx!Slots = 0 .. (N - 1)
      /\ M \in Nat /\ M >= 2 /\ Tx!Slots = 0 .. (M - 1)
  BY RingAssumption DEF N, M, Rx!Slots, Tx!Slots
<1>3. CASE ResetEnds
  <2>1. /\ pc = "await_reset" /\ pc' = pc /\ ~ rst' /\ Idle /\ ~ filling /\ out = <<>>
        /\ rdh' = 0 /\ rdt' = 0 /\ tdh' = 0 /\ tdt' = 0
        /\ UNCHANGED <<rx_status, tx_status>>
    BY <1>3 DEF ResetEnds, Inv, Ready, rx_descs, tx_descs
  <2>2. RxTyped' /\ TxTyped'
    BY <1>1, <1>2, <2>1 DEF Inv, RxTyped, TxTyped, Idle
  <2> QED
    BY <1>1, <2>1, <2>2 DEF Inv, Idle, Ready, Queue
<1>4. CASE \/ LinkComesUp \/ Reset \/ ResetSeen \/ LinkSeen \/ EnableRx \/ EnableTx
  <2>1. /\ UNCHANGED <<rdh, rdt, rx_status, tdh, tdt, tx_status>>
        /\ rst' => pc' = "await_reset"
        /\ \/ pc' = pc
           \/ pc \notin Ready \cup {"setup_tx"}
              /\ pc' \in {"await_reset", "await_link", "setup_rx"}
           \/ pc \in {"enable_rx", "enable_tx"} /\ pc' \in Ready
    BY <1>4 DEF LinkComesUp, Reset, ResetSeen, LinkSeen, EnableRx, EnableTx, Inv, Ready,
       registers, rx, tx, rx_descs, tx_descs
  <2>2. /\ RxTyped' /\ TxTyped' /\ (RxInv => RxInv') /\ (TxInv => TxInv')
        /\ First' = First /\ Rx!QueueBar' = Rx!QueueBar
    BY <1>1, <2>1 DEF Inv, RxTyped, TxTyped, RxInv, TxInv, RxRing, TxRing, First, Filled, Unsent,
       Rx!QueueBar, Rx!FilledCount
  <2>3. Idle' = Idle
    BY <1>1 DEF Idle
  <2> QED
    BY <1>1, <2>1, <2>2, <2>3 DEF Inv, Ready, Queue
<1>5. CASE SetupRx
  <2>1. /\ pc = "setup_rx" /\ pc' = "setup_tx" /\ ~ rst /\ ~ rst' /\ Idle /\ ~ filling /\ out = <<>>
        /\ rx_status' = [s \in Rx!Slots |-> 0]
        /\ rdh' = 0 /\ rdt' = N - 1
        /\ UNCHANGED <<tdh, tdt, tx_status>>
    BY <1>5 DEF SetupRx, Inv, Ready, registers, tx, tx_descs, N
  <2>2. RxTyped' /\ TxTyped'
    BY <1>1, <1>2, <2>1 DEF Inv, RxTyped, TxTyped, Idle
  <2>3. First' = 0
    BY <1>2, <2>1 DEF First, Place, N
  <2>4. RxRing'
    BY <1>1, <1>2, <2>1, <2>3 DEF RxRing, Idle
  <2> QED
    BY <1>1, <2>1, <2>2, <2>3, <2>4 DEF Inv, RxInv, Idle, Ready, Queue
<1>6. CASE SetupTx
  <2>1. /\ pc = "setup_tx" /\ pc' = "enable_rx" /\ ~ rst /\ ~ rst' /\ Idle
        /\ rdh = First /\ RxInv
        /\ tx_status' = [s \in Tx!Slots |-> 1] /\ tdh' = 0 /\ tdt' = 0
        /\ UNCHANGED <<rdh, rdt, rx_status>>
    BY <1>6 DEF SetupTx, Inv, Ready, registers, rx, rx_descs
  <2>2. TxTyped'
    BY <1>1, <1>2, <2>1 DEF Inv, TxTyped
  <2>3. TxRing'
    BY <1>1, <1>2, <2>1, RoundTheRing, SMTT(30) DEF TxRing, Idle, Unsent, Place
  <2>4. RxInv' /\ Rx!QueueBar' = Rx!QueueBar
    BY <1>1, <2>1 DEF RxInv, RxTyped, RxRing, First, Filled, Rx!QueueBar, Rx!FilledCount
  <2>5. Rx!QueueBar = <<>>
    BY <2>1, EmptyRing DEF RxInv
  <2> QED
    BY <1>1, <2>1, <2>2, <2>3, <2>4, <2>5 DEF Inv, RxInv, TxInv, Idle, Ready, Queue
<1> QED
  BY <1>3, <1>4, <1>5, <1>6 DEF New

(* The steps of the card and of the calls.                                 *)
LEMMA CardFills ==
  ASSUME Inv, CardReceives
  PROVE  /\ Inv' /\ UNCHANGED tx_buffer /\ SliceKept
         /\ pc \in Ready /\ pc' \in Ready /\ (Waits \/ Enters)
<1>1. /\ pc \in {"enable_tx", "running"} /\ pc' = pc /\ rst' = rst
      /\ UNCHANGED <<tdh, tdt, tx_status, tx_buffer, sending, tx_pc, data, calls, accepted, sent>>
      /\ Rx!CardWritesBuffer \/ Rx!CardWritesBack
  BY DEF CardReceives, Rx!Card, registers, tx, tx_descs, tx_rest
<1>2. RxInv /\ TxInv /\ pc \in Ready
  BY <1>1 DEF Inv, Ready
<1>3. RxInv' /\ (Waits \/ Enters)
  BY <1>1, <1>2, BufferFilled, BufferWrittenBack
<1>4. TxInv'
  BY <1>1, <1>2 DEF TxInv, TxTyped, TxRing, Unsent
<1>5. UNCHANGED <<rx_pc, lent>>
  BY <1>1 DEF Rx!CardWritesBuffer, Rx!CardWritesBack
<1>6. SliceKept
  <2>1. CASE Rx!CardWritesBuffer
    <3>1. rdh # rdt /\ rx_buffer' = [rx_buffer EXCEPT ![rdh] = arrived + 1]
      BY <2>1 DEF Rx!CardWritesBuffer
    <3> QED
      BY <1>2, <3>1 DEF RxInv, RxTyped, SliceKept
  <2>2. CASE Rx!CardWritesBack
    BY <2>2 DEF Rx!CardWritesBack, SliceKept
  <2> QED
    BY <1>1, <2>1, <2>2
<1> QED
  BY <1>1, <1>2, <1>3, <1>4, <1>5, <1>6 DEF Inv, Ready, Idle, RxInv, TxInv

LEMMA DriverReceives ==
  ASSUME Inv, Receiving
  PROVE  /\ Inv' /\ UNCHANGED <<rx_buffer, tx_buffer>>
         /\ pc \in Ready /\ pc' \in Ready /\ (Waits \/ Leaves)
<1>1. /\ pc = "running" /\ pc' = pc /\ rst' = rst
      /\ UNCHANGED <<tdh, tdt, tx_status, tx_buffer, sending, tx_pc, data, calls, accepted, sent>>
      /\ Rx!Receive \/ Rx!CheckStatus \/ Rx!ClearStatus \/ Rx!AdvanceTail
  BY DEF Receiving, Rx!Driver, registers, tx, tx_descs, tx_rest
<1>2. RxInv /\ TxInv /\ pc \in Ready
  BY <1>1 DEF Inv, Ready
<1>3. RxInv' /\ (Waits \/ Leaves) /\ UNCHANGED rx_buffer
  BY <1>1, <1>2, ReceiverWorks, PacketReturned
<1>4. TxInv'
  BY <1>1, <1>2 DEF TxInv, TxTyped, TxRing, Unsent
<1> QED
  BY <1>1, <1>2, <1>3, <1>4 DEF Inv, Ready, RxInv, TxInv

LEMMA Sends ==
  ASSUME Inv, CardSends \/ CallSend \/ InSend
  PROVE  Inv' /\ UNCHANGED <<rx_buffer, Queue, out>> /\ SendingKept
<1>1. /\ UNCHANGED <<pc, rst, rdh, rdt, rx_status, rx_buffer, filling, rx_pc, idx, lent, arrived, out>>
      /\ \/ Tx!CardBegins \/ Tx!CardWritesBack \/ Tx!Send
         \/ Tx!CheckStatus \/ Tx!CopyData \/ Tx!Describe \/ Tx!AdvanceTail
  BY DEF CardSends, CallSend, InSend, Tx!Card, Tx!InSend, registers, rx, rx_descs, rx_rest
<1>2. pc = "running"
  BY DEF CardSends, CallSend, InSend, Tx!InSend, Tx!CheckStatus, Tx!CopyData, Tx!Describe,
     Tx!AdvanceTail, Inv, Idle
<1>3. RxInv /\ TxInv
  BY <1>2 DEF Inv, Ready
<1>4. TxInv' /\ SendingKept
  <2>1. CASE Tx!CardBegins \/ Tx!CardWritesBack
    BY <1>3, <2>1, SendingStarts, PacketSent
       DEF SendingKept, Tx!CardBegins, Tx!CardWritesBack
  <2>2. CASE \/ Tx!Send \/ Tx!CheckStatus \/ Tx!Describe \/ Tx!AdvanceTail
    BY <1>3, <2>2, SendStarts, SendGoesOn, PacketAccepted DEF SendingKept
  <2>3. CASE Tx!CopyData
    BY <1>3, <2>3, DataCopied DEF SendingKept
  <2> QED
    BY <1>1, <2>1, <2>2, <2>3
<1>5. RxInv' /\ Rx!QueueBar' = Rx!QueueBar
  BY <1>1, <1>3 DEF RxInv, RxTyped, RxRing, First, Filled, Rx!QueueBar, Rx!FilledCount
<1> QED
  BY <1>1, <1>2, <1>3, <1>4, <1>5 DEF Inv, Ready, RxInv, TxInv, Queue

LEMMA EveryStep ==
  ASSUME Inv, [Next]_vars
  PROVE  /\ Inv' /\ SliceKept /\ SendingKept
         /\ \/ UNCHANGED <<Queue, out>>
            \/ pc \in Ready /\ pc' \in Ready /\ (Enters \/ Leaves)
<1>1. CASE ResetEnds \/ LinkComesUp \/ New
  BY <1>1, SetUpSteps DEF SliceKept, SendingKept
<1>2. CASE CardReceives \/ Receiving
  BY <1>2, CardFills, DriverReceives DEF SliceKept, SendingKept, Waits, Queue
<1>3. CASE CardSends \/ CallSend \/ InSend
  BY <1>3, Sends DEF SliceKept
<1>4. CASE UNCHANGED vars
  <2>1. /\ UNCHANGED <<pc, rst, rdh, rdt, rx_status, rx_buffer, filling, rx_pc, idx, lent, arrived, out>>
        /\ UNCHANGED <<tdh, tdt, tx_status, tx_buffer, sending, tx_pc, data, calls, accepted, sent>>
    BY <1>4 DEF vars, registers, rx, rx_descs, rx_rest, tx, tx_descs, tx_rest
  <2>2. /\ RxTyped' /\ TxTyped' /\ (RxInv => RxInv') /\ (TxInv => TxInv')
        /\ First' = First /\ Rx!QueueBar' = Rx!QueueBar
    BY <2>1 DEF Inv, RxTyped, TxTyped, RxInv, TxInv, RxRing, TxRing, First, Filled, Unsent,
       Rx!QueueBar, Rx!FilledCount
  <2> QED
    BY <2>1, <2>2 DEF Inv, Idle, Queue, SliceKept, SendingKept
<1> QED
  BY <1>1, <1>2, <1>3, <1>4 DEF Next

LEMMA Invariant == Spec => []Inv
<1>1. Inv /\ [Next]_vars => Inv'
  BY EveryStep
<1> QED
  BY <1>1, InvAtFirst, PTL DEF Spec

(* The receive ring, filled by the card while receive() empties it, is a   *)
(* queue of RX_DESC_COUNT - 1 packets from the end of set-up on: none is   *)
(* lost once accepted, none is returned twice or out of order, and what    *)
(* memory held before is never taken for a packet.                         *)
THEOREM RingIsFifo == Spec => ReceiveIsFifo
<1>1. Init => Ring!Init
  BY InvAtFirst
<1>2. Inv /\ [Next]_vars =>
        [Ring!Next]_<<IF pc \in {"enable_rx", "enable_tx", "running"}
                      THEN Rx!QueueBar ELSE <<>>, out>>
  <2> SUFFICES ASSUME Inv, [Next]_vars
               PROVE  Ring!Next \/ UNCHANGED <<Queue, out>>
    BY DEF Queue, Ready
  <2>1. \/ UNCHANGED <<Queue, out>>
        \/ pc \in Ready /\ pc' \in Ready /\ (Enters \/ Leaves)
    BY EveryStep
  <2>2. ASSUME pc \in Ready, pc' \in Ready, Enters PROVE Ring!Next
    BY <2>2 DEF Enters, Ring!Next, Ring!Enter, Ready, N
  <2>3. ASSUME pc \in Ready, pc' \in Ready, Leaves PROVE Ring!Next
    BY <2>3 DEF Leaves, Ring!Next, Ring!Leave, Ready
  <2> QED
    BY <2>1, <2>2, <2>3
<1> QED
  BY <1>1, <1>2, Invariant, PTL DEF Spec, ReceiveIsFifo, Ring!Spec

(* The card does not write to the buffer whose slice receive() returned    *)
(* until the next call of it: RDT gives the card the slot before that one. *)
THEOREM SliceIsKept == Spec => SliceUntouched
<1>1. Inv /\ [Next]_vars => SliceKept
  BY EveryStep
<1>2. Inv /\ [Next]_vars =>
        [lent # Rx!NoSlot /\ lent' = lent => rx_buffer'[lent] = rx_buffer[lent]]_Rx!vars
  BY <1>1 DEF SliceKept
<1> QED
  BY <1>2, Invariant, PTL DEF Spec, SliceUntouched, Rx!SliceUntouched

(* send() on a full ring, one whose head and tail are equal among them,    *)
(* disturbs nothing: what went out on the wire is what send() accepted,    *)
(* in order, and no buffer changes while the card reads it.                *)
THEOREM SendsWhatItAccepted == Spec => SentAsAccepted
<1>1. Inv => Tx!IsPrefix(sent, accepted)
  <2> SUFFICES ASSUME Inv PROVE Tx!IsPrefix(sent, accepted)
    OBVIOUS
  <2>1. CASE pc \in Ready
    <3>1. TxInv
      BY <2>1 DEF Inv
    <3>2. /\ accepted \in Seq(Nat) /\ sent \in Seq(Nat) /\ Len(sent) <= Len(accepted)
          /\ \A k \in 1 .. Len(sent) : sent[k] = accepted[k]
      BY <3>1, TxPlaces DEF TxInv, TxTyped, TxRing, Unsent
    <3> QED
      BY <3>2 DEF Tx!IsPrefix
  <2>2. CASE pc \notin Ready
    BY <2>2 DEF Inv, Idle, Ready, Tx!IsPrefix
  <2> QED
    BY <2>1, <2>2
<1>2. Inv /\ [Next]_vars => [sending => tx_buffer'[tdh] = tx_buffer[tdh]]_Tx!vars
  BY EveryStep DEF SendingKept
<1> QED
  BY <1>1, <1>2, Invariant, PTL DEF Spec, SentAsAccepted, Tx!SentAsAccepted
=============================================================================
