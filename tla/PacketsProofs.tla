---------------------------- MODULE PacketsProofs ----------------------------
(***************************************************************************)
(* Every IP header the kernel builds is accepted by whoever checks it in   *)
(* network byte order, every ping that fits is answered to its sender with *)
(* what it carried, and every datagram carries a checksum that is right,   *)
(* for all addresses, ports, lengths and contents.                         *)
(***************************************************************************)
EXTENDS Packets, SequenceTheorems, FiniteSetTheorems, WellFoundedInduction,
        TLAPS

(* Ranges as inequalities, which is what the arithmetic below needs.       *)
Below(x, n) == x \in Nat /\ x < n

LEMMA ByteIsBelow ==
  ASSUME NEW b
  PROVE  b \in Byte <=> Below(b, 256)
BY SMT DEF Byte, Below

-----------------------------------------------------------------------------
(* Two rounds of the loop in calc_checksum carry everything: what is left  *)
(* fits a word, is the sum up to a multiple of 65535, and 0 for 0 only.    *)
LEMMA FoldCarriesAll ==
  ASSUME NEW s, Below(s, 4294967296)
  PROVE  /\ Below(Fold(s), 65536)
         /\ \E k \in Nat : s = Fold(s) + 65535 * k
         /\ s > 0 => Fold(s) > 0
<1> DEFINE a == s % 65536  b == s \div 65536
           c == (a + b) % 65536  d == (a + b) \div 65536
<1>1. /\ Below(a, 65536) /\ Below(b, 65536) /\ s = a + 65536 * b
  BY SMT DEF Below
<1>2. /\ Below(c, 65536) /\ Below(d, 2) /\ a + b = c + 65536 * d
  <2> HIDE DEF a, b
  <2> QED
    BY <1>1, SMT DEF Below
<1>3. Fold(s) = c + d
  BY DEF Fold, Carry
<1> HIDE DEF a, b, c, d
<1>4. s = (c + d) + 65535 * (b + d)
  BY <1>1, <1>2, SMT DEF Below
<1>5. Below(c + d, 65536) /\ b + d \in Nat
  BY <1>1, <1>2, SMT DEF Below
<1>6. s > 0 => c + d > 0
  BY <1>1, <1>2, <1>4, SMT DEF Below
<1> QED
  BY <1>3, <1>4, <1>5, <1>6

(* A sum is all ones if it is a positive multiple of 65535.                *)
LEMMA FoldOfMultiple ==
  ASSUME NEW s, Below(s, 4294967296), s > 0, NEW k \in Int, s = 65535 * k
  PROVE  Fold(s) = 65535
<1>1. PICK j \in Nat : s = Fold(s) + 65535 * j
  BY FoldCarriesAll
<1>2. Below(Fold(s), 65536) /\ Fold(s) > 0
  BY FoldCarriesAll
<1> DEFINE f == Fold(s)
<1> HIDE DEF f
<1>3. f = 65535 * (k - j)
  BY <1>1, <1>2, SMT DEF f, Below
<1>4. f = 65535
  BY <1>2, <1>3, SMT DEF f, Below
<1> QED
  BY <1>4 DEF f

-----------------------------------------------------------------------------
(* The sums over a header, its low and its high bytes taken together.      *)
LowBytes(h) == h[1] + h[3] + h[5] + h[7] + h[9] + h[11] + h[13] + h[15] + h[17] + h[19]
HighBytes(h) == h[2] + h[4] + h[6] + h[8] + h[10] + h[12] + h[14] + h[16] + h[18] + h[20]

Header == [1..20 -> Byte]

(* The bytes one by one, as the arithmetic below needs them.               *)
LEMMA BytesOfHeader ==
  ASSUME NEW h \in Header
  PROVE  /\ Below(h[1], 256) /\ Below(h[2], 256) /\ Below(h[3], 256)
         /\ Below(h[4], 256) /\ Below(h[5], 256) /\ Below(h[6], 256)
         /\ Below(h[7], 256) /\ Below(h[8], 256) /\ Below(h[9], 256)
         /\ Below(h[10], 256) /\ Below(h[11], 256) /\ Below(h[12], 256)
         /\ Below(h[13], 256) /\ Below(h[14], 256) /\ Below(h[15], 256)
         /\ Below(h[16], 256) /\ Below(h[17], 256) /\ Below(h[18], 256)
         /\ Below(h[19], 256) /\ Below(h[20], 256)
<1>1. \A i \in 1..20 : h[i] \in Byte
  BY DEF Header
<1> QED
  BY <1>1, ByteIsBelow, SMT

LEMMA SumsOfHeader ==
  ASSUME NEW h \in Header
  PROVE  /\ Below(LowBytes(h), 2551) /\ Below(HighBytes(h), 2551)
         /\ LowBytes(h) >= h[1]
         /\ NativeSum(h) = LowBytes(h) + 256 * HighBytes(h)
         /\ NetworkSum(h) = 256 * LowBytes(h) + HighBytes(h)
<1>1. Below(LowBytes(h), 2551) /\ LowBytes(h) >= h[1]
  BY BytesOfHeader, SMT DEF LowBytes, Below
<1>2. Below(HighBytes(h), 2551)
  BY BytesOfHeader, SMT DEF HighBytes, Below
<1>3. NativeSum(h) = LowBytes(h) + 256 * HighBytes(h)
  BY BytesOfHeader, SMT DEF LowBytes, HighBytes, NativeSum, Below
<1>4. NetworkSum(h) = 256 * LowBytes(h) + HighBytes(h)
  BY BytesOfHeader, SMTT(60) DEF LowBytes, HighBytes, NetworkSum, Below
<1> QED
  BY <1>1, <1>2, <1>3, <1>4

(* A header is twenty bytes, and the checksum's two are its 11th and 12th. *)
LEMMA HeaderBytesType ==
  ASSUME NEW src \in Address, NEW dst \in Address, NEW n, Below(n, 65516),
         NEW protocol \in Byte, NEW c, Below(c, 65536)
  PROVE  LET h == HeaderBytes(src, dst, n, protocol, c)
             z == HeaderBytes(src, dst, n, protocol, 0) IN
         /\ h \in Header
         /\ h[1] = 69
         /\ Word(h, 3) = 20 + n
         /\ \A i \in 1..4 : h[12 + i] = src[i] /\ h[16 + i] = dst[i]
         /\ LowBytes(h) = LowBytes(z) + (c % 256)
         /\ HighBytes(h) = HighBytes(z) + c \div 256
<1> DEFINE t == 20 + n
           h == HeaderBytes(src, dst, n, protocol, c)
           z == HeaderBytes(src, dst, n, protocol, 0)
<1>1. /\ Below(t \div 256, 256) /\ Below(t % 256, 256)
      /\ t = 256 * (t \div 256) + (t % 256)
  BY SMT DEF Below
<1>2. Below(c \div 256, 256) /\ Below(c % 256, 256)
  BY SMT DEF Below
<1>3. \A i \in 1..4 : src[i] \in Byte /\ dst[i] \in Byte
  BY DEF Address
<1>4. /\ t \div 256 \in Byte /\ t % 256 \in Byte
      /\ c \div 256 \in Byte /\ c % 256 \in Byte
      /\ 0 \in Byte /\ 64 \in Byte /\ 69 \in Byte
  BY <1>1, <1>2, ByteIsBelow, SMT DEF Below
<1>5. h \in Header
  BY <1>3, <1>4, SMT DEF HeaderBytes, Header
<1>6. h[1] = 69 /\ Word(h, 3) = 20 + n
  BY <1>1, SMT DEF HeaderBytes, Word
<1>7. \A i \in 1..4 : h[12 + i] = src[i] /\ h[16 + i] = dst[i]
  BY SMT DEF HeaderBytes
<1>8. /\ LowBytes(h) = LowBytes(z) + (c % 256)
      /\ HighBytes(h) = HighBytes(z) + c \div 256
  <2>1. /\ h[11] = c % 256 /\ h[12] = c \div 256 /\ z[11] = 0 /\ z[12] = 0
        /\ h[1] = z[1] /\ h[2] = z[2] /\ h[3] = z[3] /\ h[4] = z[4] /\ h[5] = z[5]
        /\ h[6] = z[6] /\ h[7] = z[7] /\ h[8] = z[8] /\ h[9] = z[9] /\ h[10] = z[10]
        /\ h[13] = z[13] /\ h[14] = z[14] /\ h[15] = z[15] /\ h[16] = z[16]
        /\ h[17] = z[17] /\ h[18] = z[18] /\ h[19] = z[19] /\ h[20] = z[20]
    BY SMT DEF HeaderBytes
  <2> HIDE DEF h, z
  <2>2. LowBytes(h) = LowBytes(z) + (c % 256)
    BY <1>2, <1>5, <2>1, BytesOfHeader, SMT DEF LowBytes, Below
  <2>3. HighBytes(h) = HighBytes(z) + c \div 256
    BY <1>2, <1>5, <2>1, BytesOfHeader, SMT DEF HighBytes, Below
  <2> QED
    BY <2>2, <2>3
<1> QED
  BY <1>5, <1>6, <1>7, <1>8

(* Ipv4Header::new: the checksum is computed with the words in one byte    *)
(* order and verified with the words in the other.                         *)
THEOREM HeaderVerifies ==
  ASSUME NEW src \in Address, NEW dst \in Address, NEW n, Below(n, 65516),
         NEW protocol \in Byte
  PROVE  LET h == Ipv4Header(src, dst, n, protocol) IN
         /\ h \in Header
         /\ Fold(NetworkSum(h)) = 65535
         /\ Word(h, 3) = 20 + n
         /\ \A i \in 1..4 : h[12 + i] = src[i] /\ h[16 + i] = dst[i]
<1> DEFINE z == HeaderBytes(src, dst, n, protocol, 0)
           s == NativeSum(z)
           c == calc_checksum(z)
           h == HeaderBytes(src, dst, n, protocol, c)
           low == LowBytes(z)
           high == HighBytes(z)
<1>1. z \in Header
  <2>1. Below(0, 65536)
    BY SMT DEF Below
  <2> QED
    BY <2>1, HeaderBytesType
<1>2. /\ Below(low, 2551) /\ Below(high, 2551) /\ s = low + 256 * high
  BY <1>1, SumsOfHeader
<1>3. Below(s, 4294967296)
  BY <1>2, SMT DEF Below
<1>4. PICK k \in Nat : s = Fold(s) + 65535 * k
  BY <1>3, FoldCarriesAll
<1>5. Below(Fold(s), 65536)
  BY <1>3, FoldCarriesAll
<1>6. c = 65535 - Fold(s)
  BY DEF calc_checksum, Not
<1>7. Below(c, 65536)
  BY <1>5, <1>6, SMT DEF Below
<1>8. /\ h \in Header /\ h[1] = 69 /\ Word(h, 3) = 20 + n
      /\ \A i \in 1..4 : h[12 + i] = src[i] /\ h[16 + i] = dst[i]
      /\ LowBytes(h) = low + (c % 256) /\ HighBytes(h) = high + c \div 256
  <2> HIDE DEF c
  <2> QED
    BY <1>7, HeaderBytesType
<1>9. /\ NetworkSum(h) = 256 * LowBytes(h) + HighBytes(h)
      /\ Below(LowBytes(h), 2551) /\ Below(HighBytes(h), 2551)
      /\ LowBytes(h) >= 69
  BY <1>8, SumsOfHeader
<1>10. Fold(NetworkSum(h)) = 65535
  <2> DEFINE lh == LowBytes(h)  hh == HighBytes(h)  f == Fold(s)
  <2> HIDE DEF s, c, h, low, high, lh, hh, f
  <2>1. c = (c % 256) + 256 * (c \div 256)
    BY <1>7, SMT DEF Below
  <2>2. lh + 256 * hh = 65535 * (k + 1)
    <3> DEFINE cl == c % 256  ch == c \div 256
    <3>1. cl \in Nat /\ ch \in Nat
      BY <1>7, SMT DEF Below
    <3>2. c = cl + 256 * ch
      BY <2>1
    <3>3. lh = low + cl /\ hh = high + ch
      BY <1>8 DEF lh, hh
    <3>4. f \in Nat /\ low \in Nat /\ high \in Nat
      BY <1>2, <1>5 DEF f, Below
    <3>5. low + 256 * high = f + 65535 * k /\ c = 65535 - f
      BY <1>2, <1>4, <1>6 DEF f
    <3> HIDE DEF cl, ch
    <3> QED
      BY <3>1, <3>2, <3>3, <3>4, <3>5, SMT
  <2>3. NetworkSum(h) = 65535 * (256 * (k + 1) - hh)
    BY <2>2, <1>9, SMT DEF Below, lh, hh
  <2>4. Below(NetworkSum(h), 4294967296) /\ NetworkSum(h) > 0
    BY <1>9, SMT DEF Below
  <2>5. 256 * (k + 1) - hh \in Int
    BY <1>9, SMT DEF Below, hh
  <2> QED
    BY <2>3, <2>4, <2>5, FoldOfMultiple
<1> QED
  BY <1>8, <1>10 DEF Ipv4Header

-----------------------------------------------------------------------------
(* The sum over a message.  MapThenSumSet adds the bytes up in an order    *)
(* nobody knows, so everything here is by the size of the set still to be  *)
(* added: a set of least size for which a claim fails has a smaller one.   *)

LEMMA LeastNumber ==
  ASSUME NEW S \in SUBSET Nat, S # {}
  PROVE  \E x \in S : \A y \in S : x <= y
<1>1. \E x \in S : \A y \in S : ~ (<<y, x>> \in OpToRel(<, Nat))
  BY NatLessThanWellFounded, WFMin
<1>2. \A x, y \in S : ~ (<<y, x>> \in OpToRel(<, Nat)) => x <= y
  BY DEF OpToRel
<1> QED
  BY <1>1, <1>2

(* What the byte at i of a message counts in its sum.                      *)
Weight(m, i) == IF i % 2 = 1 THEN 256 * m[i] ELSE m[i]

Some(s) == CHOOSE x \in s : TRUE

(* Sum adds up one byte after the other.                                   *)
AddUp(m, g, s) == IF s = {} THEN 0 ELSE Weight(m, Some(s)) + g[s \ {Some(s)}]

SumsOf(m, S) == CHOOSE g : g = [s \in SUBSET S |-> AddUp(m, g, s)]

LEMMA SumIs == \A m : Sum(m) = SumsOf(m, DOMAIN m)[DOMAIN m]
  BY DEF Sum, MapThenSumSet, MapThenFoldSet, SumsOf, AddUp, Weight, Some

LEMMA SomeIsIn == \A s : s # {} => Some(s) \in s
  BY DEF Some

LEMMA OneLess ==
  ASSUME NEW S, IsFiniteSet(S), NEW s \in SUBSET S, s # {}
  PROVE  /\ s \ {Some(s)} \in SUBSET S
         /\ IsFiniteSet(s) /\ Cardinality(s) \in Nat
         /\ Cardinality(s \ {Some(s)}) \in Nat
         /\ Cardinality(s) = Cardinality(s \ {Some(s)}) + 1
<1>1. IsFiniteSet(s)
  BY FS_Subset
<1>2. Cardinality(s \ {Some(s)}) = Cardinality(s) - 1 /\ IsFiniteSet(s \ {Some(s)})
  BY <1>1, FS_RemoveElement, SomeIsIn
<1>3. Cardinality(s) \in Nat /\ Cardinality(s \ {Some(s)}) \in Nat
  BY <1>1, <1>2, FS_CardinalityType
<1> QED
  BY <1>1, <1>2, <1>3

LEMMA SumsExist ==
  ASSUME NEW m, NEW S, IsFiniteSet(S)
  PROVE  \A s \in SUBSET S : SumsOf(m, S)[s] = AddUp(m, SumsOf(m, S), s)
<1> DEFINE UpTo(g, k) == \A s \in SUBSET S : Cardinality(s) <= k => g[s] = AddUp(m, g, s)
           Bad == {k \in Nat : ~ \E g : UpTo(g, k)}
<1>1. 0 \notin Bad
  <2> DEFINE g == [s \in SUBSET S |-> 0]
  <2>1. ASSUME NEW s \in SUBSET S, Cardinality(s) <= 0 PROVE g[s] = AddUp(m, g, s)
    <3>1. ASSUME s # {} PROVE FALSE
      <4>1. Cardinality(s) = Cardinality(s \ {Some(s)}) + 1
            /\ Cardinality(s \ {Some(s)}) \in Nat
        BY <3>1, OneLess
      <4> QED
        BY <2>1, <4>1
    <3> QED
      BY <3>1 DEF AddUp
  <2> QED
    BY <2>1
<1>2. ASSUME NEW k \in Nat, NEW g, UpTo(g, k) PROVE \E h : UpTo(h, k + 1)
  <2> DEFINE h == [s \in SUBSET S |-> IF Cardinality(s) <= k THEN g[s] ELSE AddUp(m, g, s)]
  <2>1. ASSUME NEW s \in SUBSET S, Cardinality(s) <= k + 1 PROVE h[s] = AddUp(m, g, s)
    BY <1>2, <2>1
  <2>2. ASSUME NEW s \in SUBSET S, Cardinality(s) <= k + 1, s # {}
        PROVE  h[s \ {Some(s)}] = g[s \ {Some(s)}]
    <3>1. s \ {Some(s)} \in SUBSET S /\ Cardinality(s \ {Some(s)}) <= k
      BY <2>2, OneLess
    <3> QED
      BY <3>1
  <2>3. ASSUME NEW s \in SUBSET S, Cardinality(s) <= k + 1 PROVE h[s] = AddUp(m, h, s)
    <3> HIDE DEF h
    <3> QED
      BY <2>1, <2>2, <2>3 DEF AddUp
  <2> QED
    BY <2>3
<1>3. Bad = {}
  <2>1. SUFFICES ASSUME Bad # {} PROVE FALSE
    OBVIOUS
  <2>2. PICK k \in Bad : \A y \in Bad : k <= y
    <3>1. Bad \in SUBSET Nat
      OBVIOUS
    <3> HIDE DEF Bad
    <3> QED
      BY <2>1, <3>1, LeastNumber
  <2>3. k \in Nat /\ k # 0
    BY <1>1, <2>2
  <2>4. k - 1 \in Nat /\ k - 1 + 1 = k /\ k - 1 \notin Bad
    BY <2>2, <2>3
  <2>5. PICK g : UpTo(g, k - 1)
    BY <2>4
  <2>6. \E h : UpTo(h, k - 1 + 1)
    <3> HIDE DEF UpTo
    <3> QED
      BY <1>2, <2>4, <2>5
  <2> QED
    BY <2>2, <2>4, <2>6
<1>4. Cardinality(S) \in Nat
  BY FS_CardinalityType
<1>5. PICK g : UpTo(g, Cardinality(S))
  BY <1>3, <1>4
<1>6. \A s \in SUBSET S : g[s] = AddUp(m, g, s)
  BY <1>5, FS_Subset
<1> DEFINE G == [s \in SUBSET S |-> AddUp(m, g, s)]
<1>7. ASSUME NEW s \in SUBSET S PROVE AddUp(m, g, s) = AddUp(m, G, s)
  <2>1. s # {} => G[s \ {Some(s)}] = g[s \ {Some(s)}]
    BY <1>6
  <2> HIDE DEF G
  <2> QED
    BY <2>1 DEF AddUp
<1>8. G = [s \in SUBSET S |-> AddUp(m, G, s)]
  BY <1>7
<1> HIDE DEF G
<1>9. SumsOf(m, S) = [s \in SUBSET S |-> AddUp(m, SumsOf(m, S), s)]
  BY <1>8 DEF SumsOf
<1> HIDE DEF UpTo
<1> QED
  BY <1>9

(* Sums of bytes do not overflow the 32 bits of calc_checksum's sum.       *)
LEMMA SumBounds ==
  ASSUME NEW S, IsFiniteSet(S), NEW m, \A i \in S : Below(Weight(m, i), 65536)
  PROVE  \A s \in SUBSET S : /\ SumsOf(m, S)[s] \in Nat
                             /\ SumsOf(m, S)[s] <= 65536 * Cardinality(s)
<1> DEFINE F == SumsOf(m, S)
           Fits(s) == F[s] \in Nat /\ F[s] <= 65536 * Cardinality(s)
           Bad == {k \in Nat : \E s \in SUBSET S : Cardinality(s) = k /\ ~ Fits(s)}
<1>1. \A s \in SUBSET S : F[s] = AddUp(m, F, s)
  BY SumsExist
<1> HIDE DEF F
<1>2. Bad = {}
  <2>1. SUFFICES ASSUME Bad # {} PROVE FALSE
    OBVIOUS
  <2>2. PICK k \in Bad : \A y \in Bad : k <= y
    <3>1. Bad \in SUBSET Nat
      OBVIOUS
    <3> HIDE DEF Bad
    <3> QED
      BY <2>1, <3>1, LeastNumber
  <2>3. PICK s \in SUBSET S : Cardinality(s) = k /\ ~ Fits(s)
    BY <2>2
  <2>4. s # {}
    <3>1. ASSUME s = {} PROVE FALSE
      <4>1. F[s] = 0
        <5>1. AddUp(m, F, s) = 0
          BY <3>1 DEF AddUp
        <5> QED
          BY <1>1, <5>1
      <4>2. Cardinality(s) = 0
        BY <3>1, FS_EmptySet
      <4> QED
        BY <2>3, <4>1, <4>2
    <3> QED
      BY <3>1
  <2> DEFINE x == Some(s)
             r == s \ {x}
  <2>5. /\ r \in SUBSET S /\ Cardinality(r) \in Nat /\ Cardinality(s) = Cardinality(r) + 1
        /\ x \in S
    BY <2>4, OneLess, SomeIsIn
  <2>6. F[s] = Weight(m, x) + F[r]
    BY <1>1, <2>4 DEF AddUp
  <2> HIDE DEF x, r
  <2>7. Fits(r)
    <3>1. ASSUME ~ Fits(r) PROVE FALSE
      <4>1. Cardinality(r) \in Bad
        BY <2>5, <3>1
      <4>2. k \in Nat /\ k = Cardinality(r) + 1 /\ k <= Cardinality(r)
        BY <2>2, <2>3, <2>5, <4>1
      <4> QED
        BY <2>5, <4>2
    <3> QED
      BY <3>1
  <2>8. Below(Weight(m, x), 65536)
    BY <2>5
  <2>9. F[s] \in Nat /\ F[s] <= 65536 * Cardinality(s)
    BY <2>5, <2>6, <2>7, <2>8, SMT DEF Below
  <2> QED
    BY <2>3, <2>9
<1>3. ASSUME NEW s \in SUBSET S PROVE Fits(s)
  <2>1. Cardinality(s) \in Nat
    BY FS_Subset, FS_CardinalityType
  <2> QED
    BY <1>2, <2>1
<1> QED
  BY <1>3 DEF F

(* Two bytes that change, at a and b, change the sum by what they count.   *)
ChangeAt(S, m, w, a, b, p, q) ==
  /\ a \in S /\ b \in S /\ a # b /\ p \in Int /\ q \in Int
  /\ \A i \in S : Weight(m, i) \in Int
  /\ Weight(w, a) = Weight(m, a) + p /\ Weight(w, b) = Weight(m, b) + q
  /\ \A i \in S : i # a /\ i # b => Weight(w, i) = Weight(m, i)

LEMMA SumChanges ==
  ASSUME NEW S, IsFiniteSet(S), NEW m, NEW w, NEW a, NEW b, NEW p, NEW q,
         ChangeAt(S, m, w, a, b, p, q)
  PROVE  SumsOf(w, S)[S] = SumsOf(m, S)[S] + (p + q) /\ SumsOf(m, S)[S] \in Int
<1> /\ a \in S /\ b \in S /\ a # b /\ p \in Int /\ q \in Int
    /\ \A i \in S : Weight(m, i) \in Int
    /\ Weight(w, a) = Weight(m, a) + p /\ Weight(w, b) = Weight(m, b) + q
    /\ \A i \in S : i # a /\ i # b => Weight(w, i) = Weight(m, i)
  BY DEF ChangeAt
<1> DEFINE F == SumsOf(m, S)
           G == SumsOf(w, S)
           More(s) == (IF a \in s THEN p ELSE 0) + (IF b \in s THEN q ELSE 0)
           Right(s) == F[s] \in Int /\ G[s] = F[s] + More(s)
           Bad == {k \in Nat : \E s \in SUBSET S : Cardinality(s) = k /\ ~ Right(s)}
<1>1. /\ \A s \in SUBSET S : F[s] = AddUp(m, F, s)
      /\ \A s \in SUBSET S : G[s] = AddUp(w, G, s)
  BY SumsExist
<1> HIDE DEF F, G
<1>2. Bad = {}
  <2>1. SUFFICES ASSUME Bad # {} PROVE FALSE
    OBVIOUS
  <2>2. PICK k \in Bad : \A y \in Bad : k <= y
    <3>1. Bad \in SUBSET Nat
      OBVIOUS
    <3> HIDE DEF Bad
    <3> QED
      BY <2>1, <3>1, LeastNumber
  <2>3. PICK s \in SUBSET S : Cardinality(s) = k /\ ~ Right(s)
    BY <2>2
  <2>4. s # {}
    <3>1. ASSUME s = {} PROVE FALSE
      <4>1. F[s] = 0 /\ G[s] = 0
        BY <1>1, <3>1 DEF AddUp
      <4>2. More(s) = 0
        BY <3>1
      <4> QED
        BY <2>3, <4>1, <4>2
    <3> QED
      BY <3>1
  <2> DEFINE x == Some(s)
             r == s \ {x}
  <2>5. /\ r \in SUBSET S /\ Cardinality(r) \in Nat /\ Cardinality(s) = Cardinality(r) + 1
        /\ x \in S /\ x \in s
    BY <2>4, OneLess, SomeIsIn
  <2>6. F[s] = Weight(m, x) + F[r] /\ G[s] = Weight(w, x) + G[r]
    BY <1>1, <2>4 DEF AddUp
  <2>7. More(s) = More(r) + (IF x = a THEN p ELSE IF x = b THEN q ELSE 0)
    <3>1. \A y : y # x => (y \in r <=> y \in s)
      OBVIOUS
    <3>2. x \notin r
      OBVIOUS
    <3> HIDE DEF x, r
    <3>3. CASE x = a
      BY <2>5, <3>1, <3>2, <3>3
    <3>4. CASE x = b
      BY <2>5, <3>1, <3>2, <3>4
    <3>5. CASE x # a /\ x # b
      BY <2>5, <3>1, <3>2, <3>5
    <3> QED
      BY <3>3, <3>4, <3>5
  <2> HIDE DEF x, r
  <2>8. Right(r)
    <3>1. ASSUME ~ Right(r) PROVE FALSE
      <4>1. Cardinality(r) \in Bad
        BY <2>5, <3>1
      <4>2. k \in Nat /\ k = Cardinality(r) + 1 /\ k <= Cardinality(r)
        BY <2>2, <2>3, <2>5, <4>1
      <4> QED
        BY <2>5, <4>2
    <3> QED
      BY <3>1
  <2>9. Weight(w, x) = Weight(m, x) + (IF x = a THEN p ELSE IF x = b THEN q ELSE 0)
        /\ Weight(m, x) \in Int
    BY <2>5
  <2>10. More(r) \in Int
    OBVIOUS
  <2>11. Right(s)
    <3> DEFINE d == IF x = a THEN p ELSE IF x = b THEN q ELSE 0
               mr == More(r)
    <3>1. d \in Int
      OBVIOUS
    <3>2. F[s] = Weight(m, x) + F[r] /\ G[s] = Weight(m, x) + d + G[r]
          /\ F[r] \in Int /\ G[r] = F[r] + mr /\ More(s) = mr + d
          /\ Weight(m, x) \in Int /\ mr \in Int
      BY <2>6, <2>7, <2>8, <2>9, <2>10
    <3> HIDE DEF d, mr, More
    <3> QED
      BY <3>1, <3>2
  <2> QED
    BY <2>3, <2>11
<1>3. Cardinality(S) \in Nat
  BY FS_CardinalityType
<1>4. Right(S)
  BY <1>2, <1>3
<1>5. More(S) = p + q
  OBVIOUS
<1> QED
  BY <1>4, <1>5 DEF F, G

Message(n) == [1..n -> Byte]

LEMMA ByteWeight ==
  ASSUME NEW n \in Nat, NEW m \in Message(n), NEW i \in 1..n
  PROVE  /\ Below(m[i], 256) /\ Below(Weight(m, i), 65536)
         /\ i % 2 = 1 => Weight(m, i) = 256 * m[i]
         /\ i % 2 # 1 => Weight(m, i) = m[i]
<1>1. Below(m[i], 256)
  BY ByteIsBelow DEF Message
<1> QED
  BY <1>1, SMT DEF Below, Weight

(* The sum of at most so many bytes.                                       *)
LEMMA SumOfMessage ==
  ASSUME NEW n \in Nat, NEW m \in Message(n)
  PROVE  Sum(m) \in Nat /\ Sum(m) <= 65536 * n
<1>1. DOMAIN m = 1..n
  BY DEF Message
<1>2. IsFiniteSet(1..n) /\ Cardinality(1..n) = n
  BY FS_Interval
<1>3. \A i \in 1..n : Below(Weight(m, i), 65536)
  BY ByteWeight
<1>4. SumsOf(m, 1..n)[1..n] \in Nat /\ SumsOf(m, 1..n)[1..n] <= 65536 * n
  BY <1>2, <1>3, SumBounds
<1> QED
  BY <1>1, <1>4, SumIs

(* A checksum put where two zeros were counts as the word it is.           *)
LEMMA WeightOf ==
  ASSUME NEW m, NEW i
  PROVE  /\ i % 2 = 1 => Weight(m, i) = 256 * m[i]
         /\ i % 2 # 1 => Weight(m, i) = m[i]
  BY DEF Weight

LEMMA TwoBytesSet ==
  ASSUME NEW n \in Nat, NEW m \in Message(n), NEW w \in Message(n),
         NEW a \in 1..n, NEW b \in 1..n, a # b,
         Weight(m, a) = 0, Weight(m, b) = 0,
         \A i \in 1..n : i # a /\ i # b => w[i] = m[i]
  PROVE  Sum(w) = Sum(m) + (Weight(w, a) + Weight(w, b))
<1>1. DOMAIN m = 1..n /\ DOMAIN w = 1..n
  BY DEF Message
<1>2. IsFiniteSet(1..n)
  BY FS_Interval
<1>3. \A i \in 1..n : Weight(m, i) \in Int /\ Weight(w, i) \in Int
  BY ByteWeight DEF Below
<1>4. ASSUME NEW i \in 1..n, i # a, i # b PROVE Weight(w, i) = Weight(m, i)
  <2>1. w[i] = m[i]
    BY <1>4
  <2> QED
    BY <2>1 DEF Weight
<1>5. ChangeAt(1..n, m, w, a, b, Weight(w, a), Weight(w, b))
  BY <1>3, <1>4 DEF ChangeAt
<1>6. SumsOf(w, 1..n)[1..n] = SumsOf(m, 1..n)[1..n] + (Weight(w, a) + Weight(w, b))
  BY <1>2, <1>5, SumChanges
<1> QED
  BY <1>1, <1>6, SumIs

LEMMA SumWithChecksum ==
  ASSUME NEW n \in Nat, NEW m \in Message(n), NEW at \in 1..n, at + 1 \in 1..n,
         at \in {3, 7}, m[at] = 0, m[at + 1] = 0, NEW c, Below(c, 65536)
  PROVE  /\ WithChecksum(m, at, c) \in Message(n)
         /\ Sum(WithChecksum(m, at, c)) = Sum(m) + c
<1> DEFINE w == WithChecksum(m, at, c)
           hi == c \div 256
           lo == c % 256
           b == at + 1
<1>1. Below(hi, 256) /\ Below(lo, 256) /\ c = 256 * hi + lo
  BY SMT DEF Below
<1>2. Len(m) = n
  BY DEF Message
<1>3. w = [i \in 1..n |-> CASE i = at -> hi [] i = b -> lo [] OTHER -> m[i]]
  BY <1>2 DEF WithChecksum
<1>4. hi \in Byte /\ lo \in Byte
  BY <1>1, ByteIsBelow
<1>5. b \in 1..n /\ b # at /\ m[b] = 0 /\ at % 2 = 1 /\ b % 2 # 1
  OBVIOUS
<1> HIDE DEF hi, lo, b
<1>6. /\ w[at] = hi /\ w[b] = lo
      /\ \A i \in 1..n : i # at /\ i # b => w[i] = m[i]
  BY <1>3, <1>5
<1>7. w \in Message(n)
  BY <1>3, <1>4 DEF Message
<1> HIDE DEF w
<1>8. /\ Weight(w, at) = 256 * hi /\ Weight(m, at) = 0
      /\ Weight(w, b) = lo /\ Weight(m, b) = 0
  <2>1. Weight(w, at) = 256 * w[at] /\ Weight(m, at) = 256 * m[at]
    BY <1>5, WeightOf
  <2>2. Weight(w, b) = w[b] /\ Weight(m, b) = m[b]
    BY <1>5, WeightOf
  <2> QED
    BY <1>5, <1>6, <2>1, <2>2
<1>9. Sum(w) = Sum(m) + (Weight(w, at) + Weight(w, b))
  BY <1>5, <1>6, <1>7, <1>8, TwoBytesSet
<1>10. Weight(w, at) + Weight(w, b) = c
  BY <1>1, <1>8, SMT
<1>11. w \in Message(n) /\ Sum(w) = Sum(m) + c
  BY <1>7, <1>9, <1>10, SMT
<1> QED
  BY <1>11, SMT DEF w

(* What calc_checksum stores makes the sum all ones, and so does the        *)
(* 65535 that calc_udp_checksum stores for a sum that needs none.          *)
LEMMA ComplementVerifies ==
  ASSUME NEW s, Below(s, 4294901760), NEW c,
         \/ c = Not(Fold(s))
         \/ c = 65535 /\ Fold(s) = 65535
  PROVE  Below(c, 65536) /\ Fold(s + c) = 65535
<1> DEFINE f == Fold(s)
<1>1. Below(f, 65536) /\ \E k \in Nat : s = f + 65535 * k
  BY FoldCarriesAll, SMT DEF Below
<1>2. PICK k \in Nat : s = f + 65535 * k
  BY <1>1
<1> HIDE DEF f
<1>3. c = 65535 - f \/ (c = 65535 /\ f = 65535)
  BY SMT DEF f, Not
<1>4. Below(c, 65536)
  BY <1>1, <1>3, SMT DEF Below
<1>5. \E j \in Nat : s + c = 65535 * j
  <2>1. s + c = 65535 * (k + 1) \/ s + c = 65535 * (k + 2)
    BY <1>1, <1>2, <1>3, SMT DEF Below
  <2> DEFINE x == k + 1
             y == k + 2
  <2>2. x \in Nat /\ y \in Nat /\ (s + c = 65535 * x \/ s + c = 65535 * y)
    BY <2>1, SMT
  <2> HIDE DEF x, y
  <2> QED
    BY <2>2, SMT
<1>6. Below(s + c, 4294967296) /\ s + c > 0
  BY <1>1, <1>2, <1>3, <1>4, SMT DEF Below
<1> DEFINE t == s + c
<1>7. PICK j \in Nat : t = 65535 * j
  BY <1>5, SMT
<1>8. Below(t, 4294967296) /\ t > 0
  BY <1>6, SMT
<1> HIDE DEF t
<1>9. Fold(t) = 65535
  BY <1>7, <1>8, FoldOfMultiple, SMT
<1> QED
  BY <1>4, <1>9, SMT DEF t

-----------------------------------------------------------------------------
(* The datagrams.                                                          *)

LEMMA SequenceIsMessage ==
  ASSUME NEW m \in Seq(Byte)
  PROVE  Len(m) \in Nat /\ m \in Message(Len(m))
  BY LenProperties DEF Message

(* s is a sequence of n bytes.                                             *)
IsBytes(s, n) == s \in Seq(Byte) /\ Len(s) = n

(* st is s, of j bytes, and behind it t, of k bytes.                       *)
Joins(st, s, j, t, k) ==
  /\ \A i \in 1..j : st[i] = s[i]
  /\ \A i \in 1..k : st[j + i] = t[i]

LEMMA Joined ==
  ASSUME NEW s, NEW t, NEW j, NEW k, IsBytes(s, j), IsBytes(t, k)
  PROVE  IsBytes(s \o t, j + k) /\ Joins(s \o t, s, j, t, k)
<1>1. /\ s \in Seq(Byte) /\ t \in Seq(Byte) /\ j \in Nat /\ k \in Nat
      /\ Len(s) = j /\ Len(t) = k
  BY LenProperties DEF IsBytes
<1>2. /\ s \o t \in Seq(Byte) /\ Len(s \o t) = Len(s) + Len(t)
      /\ \A i \in 1 .. Len(s) + Len(t) :
           (s \o t)[i] = IF i <= Len(s) THEN s[i] ELSE t[i - Len(s)]
  BY <1>1, ConcatProperties, Zenon
<1>3. IsBytes(s \o t, j + k)
  BY <1>1, <1>2, Zenon DEF IsBytes
<1> DEFINE st == s \o t
<1> HIDE DEF st
<1>4. \A i \in 1 .. j + k : st[i] = IF i <= j THEN s[i] ELSE t[i - j]
  BY <1>1, <1>2, Zenon DEF st
<1>5. /\ \A i \in 1..j : st[i] = s[i]
      /\ \A i \in 1..k : st[j + i] = t[i]
  BY <1>1, <1>4, SMT
<1> QED
  BY <1>3, <1>5, Zenon DEF st, Joins

LEMMA WordBytes ==
  ASSUME NEW w, Below(w, 65536)
  PROVE  IsBytes(Bytes(w), 2)
<1>1. Below(w \div 256, 256) /\ Below(w % 256, 256)
  BY SMT DEF Below
<1>2. w \div 256 \in Byte /\ w % 256 \in Byte
  BY <1>1, ByteIsBelow
<1> QED
  BY <1>2, SMT DEF Bytes, IsBytes

(* The datagram before its checksum is put in.                             *)
Unsigned(p, q, data) ==
  Bytes(UdpHeader(p, q, Len(data)).src_port)
    \o Bytes(UdpHeader(p, q, Len(data)).dst_port)
    \o Bytes(UdpHeader(p, q, Len(data)).length) \o <<0, 0>> \o data

LEMMA SwappedType == \A w : Below(w, 65536) => Below(Swapped(w), 65536)
  BY SMT DEF Below, Swapped

LEMMA UnsignedType ==
  ASSUME NEW data \in UdpData, NEW p \in Ports, NEW q \in Ports
  PROVE  LET m == Unsigned(p, q, data)
         IN  /\ m \in Seq(Byte) /\ Len(m) = 8 + Len(data) /\ Len(m) <= 1008
             /\ m[7] = 0 /\ m[8] = 0
<1> DEFINE udp == UdpHeader(p, q, Len(data))
           a == Bytes(udp.src_port)
           b == Bytes(udp.dst_port)
           c == Bytes(udp.length)
           z == <<0, 0>>
<1>1. /\ data \in Seq(Byte) /\ Len(data) <= 1000 /\ Len(data) \in Nat
      /\ Below(p, 65536) /\ Below(q, 65536)
  BY PacketsAssumption DEF Below
<1>2. Below(8 + Len(data), 65536)
  BY <1>1, SMT DEF Below
<1>3. /\ udp.src_port = Swapped(p) /\ udp.dst_port = Swapped(q)
      /\ udp.length = Swapped(8 + Len(data))
  BY DEF UdpHeader
<1>4. /\ Below(udp.src_port, 65536) /\ Below(udp.dst_port, 65536)
      /\ Below(udp.length, 65536)
  BY <1>1, <1>2, <1>3, SwappedType
<1> HIDE DEF udp
<1>5. IsBytes(a, 2) /\ IsBytes(b, 2) /\ IsBytes(c, 2)
  BY <1>4, WordBytes
<1>6. IsBytes(z, 2) /\ z[1] = 0 /\ z[2] = 0
  <2>1. 0 \in Byte
    BY ByteIsBelow, SMT DEF Below
  <2> QED
    BY <2>1 DEF IsBytes
<1> HIDE DEF a, b, c, z
<1> DEFINE abc == (a \o b) \o c
           u == abc \o z
           n == Len(data)
<1>7. IsBytes(data, n) /\ n \in Nat /\ n <= 1000
  BY <1>1 DEF IsBytes
<1>8. IsBytes(abc, 2 + 2 + 2)
  BY <1>5, Joined, Zenon
<1> HIDE DEF abc
<1>9. IsBytes(u, 2 + 2 + 2 + 2) /\ Joins(u, abc, 2 + 2 + 2, z, 2)
  BY <1>6, <1>8, Joined, Zenon
<1> HIDE DEF u, n
<1>10. /\ IsBytes(u \o data, 2 + 2 + 2 + 2 + n)
       /\ Joins(u \o data, u, 2 + 2 + 2 + 2, data, n)
  BY <1>7, <1>9, Joined, Zenon
<1>11. Unsigned(p, q, data) = u \o data
  BY Zenon DEF Unsigned, u, abc, a, b, c, z, udp
<1> DEFINE m == Unsigned(p, q, data)
<1> HIDE DEF m
<1>12. /\ m \in Seq(Byte) /\ Len(m) = 2 + 2 + 2 + 2 + n
       /\ Joins(m, u, 2 + 2 + 2 + 2, data, n)
  BY <1>10, <1>11, Zenon DEF IsBytes, m
<1>13. u[7] = 0 /\ u[8] = 0
  BY <1>6, <1>9, SMT DEF Joins
<1>14. /\ m \in Seq(Byte) /\ Len(m) = 8 + n /\ Len(m) <= 1008
       /\ m[7] = 0 /\ m[8] = 0
  BY <1>7, <1>12, <1>13, SMT DEF Joins
<1> QED
  BY <1>14, Zenon DEF m, n

LEMMA UdpSum ==
  ASSUME NEW src \in Address, NEW dst \in Address, NEW n \in Nat, n <= 1008,
         NEW m \in Message(n)
  PROVE  LET s == PseudoHeader(src, dst, 17, n) + Sum(m)
         IN  Below(s, 4294901760) /\ s > 0 /\ PseudoHeader(src, dst, 17, n) \in Nat
<1>1. src \in Message(4) /\ dst \in Message(4)
  BY DEF Address, Message
<1>2. /\ Sum(src) \in Nat /\ Sum(src) <= 65536 * 4
      /\ Sum(dst) \in Nat /\ Sum(dst) <= 65536 * 4
  BY <1>1, SumOfMessage
<1>3. Sum(m) \in Nat /\ Sum(m) <= 65536 * n
  BY SumOfMessage
<1> QED
  BY <1>2, <1>3, SMT DEF PseudoHeader, Below

(* calc_udp_checksum: right for the receiver, and never 0.                 *)
LEMMA DatagramVerifies ==
  ASSUME NEW src \in Address, NEW dst \in Address, NEW n \in Nat, n >= 8, n <= 1008,
         NEW m \in Message(n), m[7] = 0, m[8] = 0
  PROVE  LET w == WithChecksum(m, 7, calc_udp_checksum(src, dst, 17, m))
         IN  /\ Word(w, 7) # 0
             /\ Fold(PseudoHeader(src, dst, 17, n) + Sum(w)) = 65535
<1> DEFINE ph == PseudoHeader(src, dst, 17, n)
           s == ph + Sum(m)
           c == calc_udp_checksum(src, dst, 17, m)
           w == WithChecksum(m, 7, c)
<1>1. Below(s, 4294901760) /\ s > 0 /\ ph \in Nat
  BY UdpSum
<1>2. Len(m) = n
  BY DEF Message
<1>3. c = IF Fold(s) = 65535 THEN 65535 ELSE Not(Fold(s))
  BY <1>2 DEF calc_udp_checksum
<1> HIDE DEF c, s, ph
<1>4. Below(c, 65536) /\ Fold(s + c) = 65535
  BY <1>1, <1>3, ComplementVerifies
<1>5. Below(Fold(s), 65536) /\ Fold(s) > 0
  BY <1>1, FoldCarriesAll, SMT DEF Below
<1>6. c # 0
  BY <1>3, <1>5, SMT DEF Not, Below
<1>7. Sum(w) = Sum(m) + c
  BY <1>4, SumWithChecksum
<1>8. ph + Sum(w) = s + c
  <2>1. Sum(m) \in Nat
    BY SumOfMessage
  <2> QED
    BY <1>1, <1>4, <1>7, <2>1 DEF s, Below
<1>9. w[7] = c \div 256 /\ w[8] = c % 256
  BY <1>2 DEF WithChecksum
<1>10. Word(w, 7) = c
  BY <1>4, <1>9, SMT DEF Word, Below
<1> QED
  BY <1>4, <1>6, <1>8, <1>10 DEF c, ph

LEMMA SendUdpVerifies ==
  ASSUME SendUdp
  PROVE  UdpChecksumAccepted'
<1>1. PICK src \in Addresses, dst \in Addresses, data \in UdpData,
            p \in Ports, q \in Ports :
        /\ asked' = [kind |-> "udp", src |-> src, dst |-> dst, src_port |-> p,
                     dst_port |-> q, data |-> data]
        /\ frame' = build_udp_packet(src, dst, p, q, data)
  BY DEF SendUdp
<1> DEFINE m == Unsigned(p, q, data)
           n == Len(m)
           w == WithChecksum(m, 7, calc_udp_checksum(src, dst, 17, m))
<1>2. /\ m \in Seq(Byte) /\ n = 8 + Len(data) /\ n <= 1008 /\ m[7] = 0 /\ m[8] = 0
      /\ Len(data) \in Nat
  BY UnsignedType, PacketsAssumption
<1>3. frame' = [ip |-> Ipv4Header(src, dst, n, 17), payload |-> w]
  BY <1>1 DEF build_udp_packet, Unsigned
<1>4. src \in Address /\ dst \in Address /\ 17 \in Byte
  BY PacketsAssumption, ByteIsBelow, SMT DEF Below
<1> HIDE DEF m
<1>5. m \in Message(n) /\ n \in Nat /\ n >= 8
  BY <1>2, SequenceIsMessage
<1>6. Word(w, 7) # 0 /\ Fold(PseudoHeader(src, dst, 17, n) + Sum(w)) = 65535
  BY <1>2, <1>4, <1>5, DatagramVerifies
<1>7. Word(frame'.ip, 3) = 20 + n
  <2>1. Below(n, 65516)
    BY <1>2, <1>5, SMT DEF Below
  <2> QED
    BY <1>3, <1>4, <2>1, HeaderVerifies
<1>8. Word(frame'.ip, 3) - 20 = n
  BY <1>5, <1>7
<1>9. frame'.payload = w /\ asked'.src = src /\ asked'.dst = dst
  BY <1>1, <1>3
<1> HIDE DEF w, n
<1> QED
  BY <1>6, <1>8, <1>9 DEF UdpChecksumAccepted

-----------------------------------------------------------------------------
(* The pings and what the kernel answers.                                  *)

(* The checksum of a message whose checksum bytes are still 0.              *)
LEMMA SmallSum ==
  ASSUME NEW n \in Nat, n <= 1008, NEW m \in Message(n)
  PROVE  /\ Below(Not(Fold(Sum(m))), 65536)
         /\ Fold(Sum(m) + Not(Fold(Sum(m)))) = 65535
<1>1. Sum(m) \in Nat /\ Sum(m) <= 65536 * n
  BY SumOfMessage
<1>2. Below(Sum(m), 4294901760)
  BY <1>1, SMT DEF Below
<1> QED
  BY <1>2, ComplementVerifies, SMT

(* An EchoRequest is a message, 8 bytes longer than what it carries.       *)
LEMMA RequestIsMessage ==
  ASSUME NEW data \in EchoData, NEW src, NEW dst
  PROVE  \E n \in Nat : /\ EchoRequest(src, dst, data) \in Message(n)
                        /\ n <= 1008
<1> DEFINE head == <<8, 0, 0, 0, 1, 2, 3, 4>>
           m == head \o data
           n == Len(data)
<1>1. IsBytes(data, n) /\ n \in Nat /\ n <= 1000
  BY PacketsAssumption DEF IsBytes
<1>2. IsBytes(head, 8) /\ head[3] = 0 /\ head[4] = 0
  <2>1. 8 \in Byte /\ 0 \in Byte /\ 1 \in Byte /\ 2 \in Byte /\ 3 \in Byte /\ 4 \in Byte
    BY ByteIsBelow, SMT DEF Below
  <2> QED
    BY <2>1, SMT DEF IsBytes
<1> HIDE DEF head, n
<1>3. IsBytes(m, 8 + n) /\ Joins(m, head, 8, data, n)
  BY <1>1, <1>2, Joined, Zenon
<1>4. EchoRequest(src, dst, data) = WithChecksum(m, 3, Not(Fold(Sum(m))))
  BY Zenon DEF EchoRequest, m, head
<1> HIDE DEF m
<1>5. m \in Seq(Byte) /\ Len(m) = 8 + n
  BY <1>3 DEF IsBytes
<1>6. m[3] = 0 /\ m[4] = 0
  BY <1>2, <1>3, SMT DEF Joins
<1> DEFINE k == 8 + n
<1>7. k \in Nat /\ k <= 1008 /\ 3 \in 1..k /\ 4 \in 1..k
  BY <1>1, SMT
<1>8. m \in Message(k)
  BY <1>5, SequenceIsMessage
<1> HIDE DEF k
<1> DEFINE c == Not(Fold(Sum(m)))
<1>9. Below(c, 65536)
  BY <1>7, <1>8, SmallSum, SMT
<1> HIDE DEF c
<1>10. WithChecksum(m, 3, c) \in Message(k)
  BY <1>6, <1>7, <1>8, <1>9, SumWithChecksum, SMT
<1> QED
  BY <1>4, <1>7, <1>10 DEF c

LEMMA PaddedIsMessage ==
  ASSUME NEW n \in Nat, NEW m \in Message(n)
  PROVE  \E k \in Nat : /\ Padded(m) \in Message(k) /\ Len(Padded(m)) = k
                        /\ k >= 26 /\ k >= n
                        /\ \A i \in 1..n : Padded(m)[i] = m[i]
<1> DEFINE k == IF n < 26 THEN 26 ELSE n
           w == [i \in 1..k |-> IF i <= n THEN m[i] ELSE 0]
<1>1. Len(m) = n
  BY DEF Message
<1>2. Padded(m) = w
  BY <1>1 DEF Padded
<1>3. k \in Nat /\ k >= 26 /\ k >= n
  OBVIOUS
<1>4. 0 \in Byte
  BY ByteIsBelow, SMT DEF Below
<1> HIDE DEF k
<1>5. w \in Message(k)
  <2>1. ASSUME NEW i \in 1..k PROVE (IF i <= n THEN m[i] ELSE 0) \in Byte
    BY <1>3, <1>4 DEF Message
  <2> QED
    BY <2>1 DEF Message
<1>6. Len(w) = k /\ \A i \in 1..n : w[i] = m[i]
  BY <1>3
<1> QED
  BY <1>2, <1>3, <1>5, <1>6

LEMMA HeaderTurned ==
  ASSUME NEW src \in Address, NEW dst \in Address, NEW n, Below(n, 65516),
         NEW h, h = Ipv4Header(src, dst, n, 1)
  PROVE  [i \in 1..4 |-> h[12 + i]] = src /\ [i \in 1..4 |-> h[16 + i]] = dst
<1>1. 1 \in Byte
  BY ByteIsBelow, SMT DEF Below
<1>2. \A i \in 1..4 : h[12 + i] = src[i] /\ h[16 + i] = dst[i]
  BY <1>1, HeaderVerifies, SMT
<1> QED
  BY <1>2, SMT DEF Address

(* The reply to a ping, whatever its addresses and data are.               *)
LEMMA ReplyVerifies ==
  ASSUME NEW src \in Address, NEW dst \in Address, NEW n \in Nat, n <= 1008,
         NEW m \in Message(n), NEW request,
         request = [ip |-> Ipv4Header(src, dst, n, 1), payload |-> Padded(m)],
         Len(request.payload) <= 64
  PROVE  LET r == EchoReply(request) IN
         /\ TargetOf(r.ip) = src /\ SourceOf(r.ip) = dst
         /\ r.payload[1] = 0 /\ Fold(Sum(r.payload)) = 65535
         /\ Len(r.payload) >= n
         /\ \A i \in 5..n : i <= 62 => r.payload[i] = m[i]
<1> DEFINE p == Padded(m)
<1>1. PICK k \in Nat : /\ p \in Message(k) /\ Len(p) = k /\ k >= 26 /\ k >= n
                       /\ \A i \in 1..n : p[i] = m[i]
  BY PaddedIsMessage
<1>2. request.payload = p /\ request.ip = Ipv4Header(src, dst, n, 1) /\ k <= 64
  BY <1>1
<1> HIDE DEF p
<1> DEFINE icmp == [i \in 1..k |-> IF i \in 5..CopyLen(k) THEN p[i] ELSE 0]
           c == Not(Fold(Sum(icmp)))
           w == WithChecksum(icmp, 3, c)
           h == Ipv4Header(dst, src, k, 1)
<1>3. Below(n, 65516) /\ Below(k, 65516)
  BY <1>1, <1>2, SMT DEF Below
<1>4. EchoReply(request) = [ip |-> h, payload |-> w]
  <2> DEFINE q == request.payload
             g == request.ip
  <2>1. q = p /\ g = Ipv4Header(src, dst, n, 1) /\ Len(q) = k
    BY <1>1, <1>2
  <2> HIDE DEF q, g
  <2>2. [i \in 1..4 |-> g[12 + i]] = src /\ [i \in 1..4 |-> g[16 + i]] = dst
    BY <1>3, <2>1, HeaderTurned, SMT
  <2> QED
    BY <2>1, <2>2, Zenon DEF EchoReply, calc_icmp_checksum, q, g
<1>5. icmp \in Message(k)
  <2>1. 0 \in Byte
    BY ByteIsBelow, SMT DEF Below
  <2> QED
    BY <1>1, <2>1 DEF Message
<1>6. /\ icmp[1] = 0 /\ icmp[3] = 0 /\ icmp[4] = 0
      /\ \A i \in 5..n : i <= 62 => icmp[i] = m[i]
  <2>1. icmp[1] = 0 /\ icmp[3] = 0 /\ icmp[4] = 0
    BY <1>1
  <2>2. ASSUME NEW i \in 5..n, i <= 62 PROVE icmp[i] = m[i]
    <3>1. i \in 1..k /\ i \in 1..n /\ i \in 5..CopyLen(k)
      BY <1>1, <2>2 DEF CopyLen
    <3> QED
      BY <1>1, <3>1
  <2> QED
    BY <2>1, <2>2
<1> HIDE DEF icmp
<1>7. Below(c, 65536) /\ Fold(Sum(icmp) + c) = 65535
  BY <1>2, <1>5, SmallSum, SMT
<1> HIDE DEF c
<1>8. Sum(w) = Sum(icmp) + c /\ w \in Message(k)
  BY <1>1, <1>5, <1>6, <1>7, SumWithChecksum, SMT
<1>9. Len(icmp) = k /\ Len(w) = k
  BY <1>5, <1>8 DEF Message
<1>10. w[1] = 0 /\ \A i \in 5..n : i <= 62 => w[i] = m[i]
  <2>1. \A i \in 1..k : i # 3 /\ i # 4 => w[i] = icmp[i]
    BY <1>9 DEF WithChecksum
  <2> HIDE DEF w
  <2> QED
    BY <1>1, <1>6, <2>1
<1>11. TargetOf(h) = src /\ SourceOf(h) = dst
  BY <1>3, HeaderTurned, SMT DEF TargetOf, SourceOf
<1> HIDE DEF w, h
<1> DEFINE r == EchoReply(request)
<1>12. r.ip = h /\ r.payload = w
  BY <1>4
<1> HIDE DEF r
<1>13. Fold(Sum(w)) = 65535
  BY <1>7, <1>8, SMT
<1>14. /\ TargetOf(r.ip) = src /\ SourceOf(r.ip) = dst
       /\ r.payload[1] = 0 /\ Fold(Sum(r.payload)) = 65535
       /\ Len(r.payload) >= n
       /\ \A i \in 5..n : i <= 62 => r.payload[i] = m[i]
  BY <1>1, <1>9, <1>10, <1>11, <1>12, <1>13, SMT
<1> QED
  BY <1>14, SMT DEF r

-----------------------------------------------------------------------------
(* One exchange.                                                           *)

(* A ping is on the wire as its sender asked for it.                       *)
PingSent ==
  \E src \in Address, dst \in Address, n \in Nat : \E m \in Message(n) :
    /\ n <= 1008
    /\ asked = [kind |-> "ping", src |-> src, dst |-> dst, message |-> m]
    /\ frame = [ip |-> Ipv4Header(src, dst, n, 1), payload |-> Padded(m)]

ExchangeInv ==
  /\ asked.kind = "ping" => PingSent
  /\ EchoAnswersPing
  /\ UdpChecksumAccepted

LEMMA PingExchange == Ping => ExchangeInv'
<1> SUFFICES ASSUME Ping PROVE ExchangeInv'
  OBVIOUS
<1>1. PICK src \in Addresses, dst \in Addresses, data \in EchoData :
        LET m == EchoRequest(src, dst, data) IN
        /\ asked' = [kind |-> "ping", src |-> src, dst |-> dst, message |-> m]
        /\ frame' = [ip |-> Ipv4Header(src, dst, Len(m), 1), payload |-> Padded(m)]
  BY DEF Ping
<1> DEFINE m == EchoRequest(src, dst, data)
<1>2. PICK n \in Nat : m \in Message(n) /\ n <= 1008
  BY RequestIsMessage
<1>3. asked' = [kind |-> "ping", src |-> src, dst |-> dst, message |-> m]
      /\ frame' = [ip |-> Ipv4Header(src, dst, Len(m), 1), payload |-> Padded(m)]
  BY <1>1
<1> HIDE DEF m
<1>4. Len(m) = n
  BY <1>2 DEF Message
<1>5. src \in Address /\ dst \in Address
  BY PacketsAssumption
<1>6. PingSent'
  BY <1>2, <1>3, <1>4, <1>5 DEF PingSent
<1>7. asked'.kind = "ping"
  BY <1>3
<1> QED
  BY <1>6, <1>7 DEF ExchangeInv, EchoAnswersPing, UdpChecksumAccepted

LEMMA ReplyExchange == ExchangeInv /\ build_echo_reply => ExchangeInv'
<1> SUFFICES ASSUME ExchangeInv, build_echo_reply PROVE ExchangeInv'
  OBVIOUS
<1>1. PingSent
  BY DEF ExchangeInv, build_echo_reply
<1>2. PICK src \in Address, dst \in Address, n \in Nat : \E m \in Message(n) :
        /\ n <= 1008
        /\ asked = [kind |-> "ping", src |-> src, dst |-> dst, message |-> m]
        /\ frame = [ip |-> Ipv4Header(src, dst, n, 1), payload |-> Padded(m)]
  BY <1>1 DEF PingSent
<1>3. PICK m \in Message(n) :
        /\ n <= 1008
        /\ asked = [kind |-> "ping", src |-> src, dst |-> dst, message |-> m]
        /\ frame = [ip |-> Ipv4Header(src, dst, n, 1), payload |-> Padded(m)]
  BY <1>2
<1>4. Len(m) = n
  BY DEF Message
<1>5. CASE asked'.kind = "panic"
  BY <1>5 DEF ExchangeInv, EchoAnswersPing, UdpChecksumAccepted
<1>6. CASE /\ Len(frame.payload) <= 64
           /\ asked' = [asked EXCEPT !.kind = "answered"]
           /\ frame' = EchoReply(frame)
  <2>1. asked' = [kind |-> "answered", src |-> src, dst |-> dst, message |-> m]
    BY <1>3, <1>6
  <2>2. LET r == EchoReply(frame) IN
        /\ TargetOf(r.ip) = src /\ SourceOf(r.ip) = dst
        /\ r.payload[1] = 0 /\ Fold(Sum(r.payload)) = 65535
        /\ Len(r.payload) >= n
        /\ \A i \in 5..n : i <= 62 => r.payload[i] = m[i]
    BY <1>3, <1>6, ReplyVerifies, SMT
  <2>3. asked'.kind = "answered" /\ asked'.src = src /\ asked'.dst = dst
        /\ asked'.message = m
    BY <2>1
  <2>4. EchoAnswersPing'
    BY <1>4, <1>6, <2>2, <2>3, SMT DEF EchoAnswersPing
  <2> QED
    BY <2>3, <2>4 DEF ExchangeInv, UdpChecksumAccepted
<1>7. CASE asked' = [asked EXCEPT !.kind = "panic"]
  <2>1. asked' = [kind |-> "panic", src |-> src, dst |-> dst, message |-> m]
    BY <1>3, <1>7
  <2> QED
    BY <1>5, <2>1
<1> QED
  BY <1>6, <1>7 DEF build_echo_reply

LEMMA UdpExchange == SendUdp => ExchangeInv'
<1> SUFFICES ASSUME SendUdp PROVE ExchangeInv'
  OBVIOUS
<1>1. asked'.kind = "udp"
  BY DEF SendUdp
<1>2. UdpChecksumAccepted'
  BY SendUdpVerifies
<1> QED
  BY <1>1, <1>2 DEF ExchangeInv, EchoAnswersPing

LEMMA ExchangesHold == Spec => []ExchangeInv
<1>1. Init => ExchangeInv
  BY DEF Init, ExchangeInv, EchoAnswersPing, UdpChecksumAccepted
<1>2. ExchangeInv /\ [Next]_vars => ExchangeInv'
  <2>1. ExchangeInv /\ UNCHANGED vars => ExchangeInv'
    BY DEF vars, ExchangeInv, PingSent, EchoAnswersPing, UdpChecksumAccepted
  <2> QED
    BY <2>1, PingExchange, ReplyExchange, UdpExchange DEF Next
<1> QED
  BY <1>1, <1>2, PTL DEF Spec

(* A ping of any content is answered to its sender with what it sent, as   *)
(* far as it is copied, and a checksum that is right (build_echo_reply).   *)
THEOREM PingsAnswered == Spec => []EchoAnswersPing
<1>1. ExchangeInv => EchoAnswersPing
  BY DEF ExchangeInv
<1> QED
  BY <1>1, ExchangesHold, PTL

(* Every datagram's checksum is there and right, for every address, port   *)
(* and content, odd lengths and sums of all ones included                  *)
(* (calc_udp_checksum, build_udp_packet).                                  *)
THEOREM DatagramsAccepted == Spec => []UdpChecksumAccepted
<1>1. ExchangeInv => UdpChecksumAccepted
  BY DEF ExchangeInv
<1> QED
  BY <1>1, ExchangesHold, PTL

-----------------------------------------------------------------------------
LEMMA ChecksumKeepsLength ==
  ASSUME NEW m, Len(m) \in Nat, NEW at, NEW c
  PROVE  Len(WithChecksum(m, at, c)) = Len(m)
BY SMT DEF WithChecksum

LEMMA PingLength ==
  ASSUME NEW data \in EchoData, NEW src, NEW dst
  PROVE  /\ Below(Len(EchoRequest(src, dst, data)), 65516)
         /\ Len(Padded(EchoRequest(src, dst, data))) \in Nat
<1> DEFINE r == EchoRequest(src, dst, data)
<1>1. PICK n \in Nat : r \in Message(n) /\ n <= 1008
  BY RequestIsMessage
<1> HIDE DEF r
<1>2. Len(r) = n /\ Len(Padded(r)) \in Nat
  BY <1>1, PaddedIsMessage DEF Message
<1> QED
  BY <1>1, <1>2, SMT DEF Below, r

LEMMA DatagramLength ==
  ASSUME NEW data \in UdpData, NEW src, NEW dst, NEW p \in Ports, NEW q \in Ports
  PROVE  \E n : /\ Below(n, 65516)
               /\ Len(build_udp_packet(src, dst, p, q, data).payload) = n
               /\ build_udp_packet(src, dst, p, q, data).ip = Ipv4Header(src, dst, n, 17)
<1> DEFINE m == Unsigned(p, q, data)
<1>1. m \in Seq(Byte) /\ Len(m) <= 1008
  BY UnsignedType, SMT
<1>2. build_udp_packet(src, dst, p, q, data) =
        [ip |-> Ipv4Header(src, dst, Len(m), 17),
         payload |-> WithChecksum(m, 7, calc_udp_checksum(src, dst, 17, m))]
  BY DEF build_udp_packet, Unsigned
<1> HIDE DEF m
<1>3. Below(Len(m), 65516)
  BY <1>1, SMT DEF Below
<1>4. Len(WithChecksum(m, 7, calc_udp_checksum(src, dst, 17, m))) = Len(m)
  BY <1>3, ChecksumKeepsLength DEF Below
<1> QED
  BY <1>2, <1>3, <1>4

(* The header of the frame on the wire is one that Ipv4Header::new built,  *)
(* and the kernel's count what is behind it.                               *)
BuiltHeader ==
  \E src \in Address, dst \in Address, protocol \in Byte, n \in Nat :
    /\ Below(n, 65516)
    /\ frame.ip = Ipv4Header(src, dst, n, protocol)
    /\ asked.kind \in {"answered", "udp"} => n = Len(frame.payload)

HeaderInv ==
  /\ asked.kind = "nothing" => frame = NoFrame
  /\ asked.kind # "nothing" => BuiltHeader
  /\ asked.kind = "ping" => Len(frame.payload) \in Nat

LEMMA InitHeader == Init => HeaderInv
BY DEF Init, HeaderInv

LEMMA PingHeader == HeaderInv /\ Ping => HeaderInv'
<1> SUFFICES ASSUME HeaderInv, Ping PROVE HeaderInv'
  OBVIOUS
<1>1. PICK src \in Addresses, dst \in Addresses, data \in EchoData :
        LET m == EchoRequest(src, dst, data) IN
        /\ asked' = [kind |-> "ping", src |-> src, dst |-> dst, message |-> m]
        /\ frame' = [ip |-> Ipv4Header(src, dst, Len(m), 1), payload |-> Padded(m)]
  BY DEF Ping
<1> DEFINE m == EchoRequest(src, dst, data)
<1>2. Below(Len(m), 65516) /\ Len(Padded(m)) \in Nat
  BY PingLength
<1>3. src \in Address /\ dst \in Address /\ 1 \in Byte
  BY PacketsAssumption, ByteIsBelow, SMT DEF Below
<1>4. asked'.kind = "ping" /\ frame'.ip = Ipv4Header(src, dst, Len(m), 1)
      /\ frame'.payload = Padded(m)
  BY <1>1
<1> HIDE DEF m
<1>5. BuiltHeader'
  BY <1>2, <1>3, <1>4 DEF BuiltHeader, Below
<1> QED
  BY <1>2, <1>4, <1>5 DEF HeaderInv

LEMMA ReplyHeader == ExchangeInv /\ HeaderInv /\ build_echo_reply => HeaderInv'
<1> SUFFICES ASSUME ExchangeInv, HeaderInv, build_echo_reply PROVE HeaderInv'
  OBVIOUS
<1>0. PICK from, to, message :
        asked = [kind |-> "ping", src |-> from, dst |-> to, message |-> message]
  BY DEF ExchangeInv, PingSent, build_echo_reply
<1>1. asked.kind = "ping" /\ Len(frame.payload) \in Nat
  BY DEF HeaderInv, build_echo_reply
<1>2. PICK src \in Address, dst \in Address, protocol \in Byte, n \in Nat :
        Below(n, 65516) /\ frame.ip = Ipv4Header(src, dst, n, protocol)
  BY <1>1 DEF HeaderInv, BuiltHeader
<1>3. CASE Len(frame.payload) <= 64 /\ frame' = EchoReply(frame)
             /\ asked' = [asked EXCEPT !.kind = "answered"]
  <2> DEFINE len == Len(frame.payload)
             src_ip == [i \in 1..4 |-> frame.ip[12 + i]]
             dst_ip == [i \in 1..4 |-> frame.ip[16 + i]]
             icmp == [i \in 1..len |-> IF i \in 5..CopyLen(len)
                                        THEN frame.payload[i] ELSE 0]
  <2>1. src_ip \in Address /\ dst_ip \in Address
    BY <1>2, HeaderVerifies, SMT DEF Address
  <2>2. frame'.ip = Ipv4Header(dst_ip, src_ip, len, 1)
        /\ frame'.payload = WithChecksum(icmp, 3, calc_icmp_checksum(icmp))
    BY <1>3 DEF EchoReply
  <2>3. Len(icmp) = len
    BY <1>1, SMT
  <2> HIDE DEF icmp, src_ip, dst_ip
  <2>4. Len(frame'.payload) = len
    BY <1>1, <2>2, <2>3, ChecksumKeepsLength
  <2>5. Below(len, 65516) /\ 1 \in Byte
    BY <1>1, <1>3, ByteIsBelow, SMT DEF Below
  <2>6. BuiltHeader'
    BY <2>1, <2>2, <2>4, <2>5 DEF BuiltHeader, Below
  <2>7. asked'.kind \notin {"nothing", "ping"}
    BY <1>0, <1>3
  <2> QED
    BY <2>6, <2>7 DEF HeaderInv
<1>4. CASE UNCHANGED frame /\ asked' = [asked EXCEPT !.kind = "panic"]
  <2>1. asked'.kind = "panic"
    BY <1>0, <1>4
  <2>2. BuiltHeader'
    BY <1>2, <1>4, <2>1 DEF BuiltHeader
  <2> QED
    BY <2>1, <2>2 DEF HeaderInv
<1> QED
  BY <1>3, <1>4 DEF build_echo_reply

LEMMA UdpHeaderBuilt == HeaderInv /\ SendUdp => HeaderInv'
<1> SUFFICES ASSUME HeaderInv, SendUdp PROVE HeaderInv'
  OBVIOUS
<1>1. PICK src \in Addresses, dst \in Addresses, data \in UdpData,
            src_port \in Ports, dst_port \in Ports :
        /\ asked'.kind = "udp"
        /\ frame' = build_udp_packet(src, dst, src_port, dst_port, data)
  BY DEF SendUdp
<1>2. PICK n : /\ Below(n, 65516) /\ Len(frame'.payload) = n
               /\ frame'.ip = Ipv4Header(src, dst, n, 17)
  BY <1>1, DatagramLength
<1>3. src \in Address /\ dst \in Address /\ 17 \in Byte
  BY PacketsAssumption, ByteIsBelow, SMT DEF Below
<1>4. BuiltHeader'
  BY <1>2, <1>3 DEF BuiltHeader
<1> QED
  BY <1>1, <1>4 DEF HeaderInv

LEMMA HeaderInvAccepts == HeaderInv => HeaderAccepted
<1>1. ASSUME HeaderInv, frame # NoFrame
      PROVE  /\ Fold(NetworkSum(frame.ip)) = 65535
             /\ asked.kind \in {"answered", "udp"} =>
                   Word(frame.ip, 3) = 20 + Len(frame.payload)
  <2>1. PICK src \in Address, dst \in Address, protocol \in Byte, n \in Nat :
          /\ Below(n, 65516)
          /\ frame.ip = Ipv4Header(src, dst, n, protocol)
          /\ asked.kind \in {"answered", "udp"} => n = Len(frame.payload)
    BY <1>1 DEF HeaderInv, BuiltHeader
  <2>2. Fold(NetworkSum(frame.ip)) = 65535 /\ Word(frame.ip, 3) = 20 + n
    BY <2>1, HeaderVerifies
  <2> QED
    BY <2>1, <2>2
<1> QED
  BY <1>1 DEF HeaderAccepted

(* Whatever is pinged and sent, every IP header on the wire checks at its  *)
(* receiver, and the kernel's have the right length.                       *)
THEOREM HeadersAccepted == Spec => []HeaderAccepted
<1>1. HeaderInv /\ UNCHANGED vars => HeaderInv'
  BY DEF vars, HeaderInv, BuiltHeader
<1>2. ExchangeInv /\ HeaderInv /\ [Next]_vars => HeaderInv'
  BY <1>1, PingHeader, ReplyHeader, UdpHeaderBuilt DEF Next
<1> QED
  BY InitHeader, <1>2, ExchangesHold, HeaderInvAccepts, PTL DEF Spec
==============================================================================
