-------------------------- MODULE UdfaEngine_proofs --------------------------
(***************************************************************************)
(* Proofs about a whole run of the engine, composed from those about the   *)
(* input loop and the kernel: what the input loop leaves behind is what    *)
(* the kernel's theorems assume, and what the kernel leaves behind is what *)
(* the host reads.  Then those about the loading of its automata: no node  *)
(* of a network is forgotten, the rules tell the nodes apart, and the      *)
(* table that the kernel runs on is that of the automaton.                 *)
(***************************************************************************)
EXTENDS UdfaEngine, AutomatonLoader, ArithmeticLemmas, SequenceTheorems

-----------------------------------------------------------------------------
(***************************************************************************)
(* The input loop, for every file, number of packets and width of the      *)
(* fetched word.                                                           *)
(***************************************************************************)
(* the size of a packet that is not the last one *)
FullSize == packet_size + Padding(packet_size)

PacketTypeOK ==
  /\ input \in Seq(Byte) /\ payload \in Seq(Byte) /\ payloads \in Seq(Byte)
  /\ payload_sizes \in Seq(Nat) /\ padded_sizes \in Seq(Nat)
  /\ pos \in 0..Len(input) /\ reading \in BOOLEAN

(* While the file is read, all packets are full, and the one that is being *)
(* filled has the bytes that have been read since.                         *)
Reading ==
  /\ pos = Len(payload_sizes) * packet_size + Len(payload)
  /\ Len(input) > 0 => Len(payload) < packet_size
  /\ Len(payloads) = Len(payload_sizes) * FullSize
  /\ \A j \in 1..Len(payload_sizes) : payload_sizes[j] = FullSize
  /\ \A k \in 1..Len(payload) : payload[k] = input[Len(payload_sizes) * packet_size + k]

(* Byte by byte, packet j has its piece of the file and zeros behind it. *)
HasPiece(j) ==
  /\ FileBytes(j) \in 0..payload_sizes[j]
  /\ (j - 1) * packet_size + FileBytes(j) <= Len(input)
  /\ (j - 1) * payload_sizes[1] + payload_sizes[j] <= Len(payloads)
  /\ \A k \in 1..payload_sizes[j] :
       payloads[(j - 1) * payload_sizes[1] + k] =
         IF k <= FileBytes(j) THEN input[(j - 1) * packet_size + k] ELSE 0

Finished == payload = <<>> /\ Len(payload_sizes) * packet_size >= Len(input)

PInv ==
  /\ PacketTypeOK /\ LayoutOK
  /\ \A j \in 1..Len(payload_sizes) : HasPiece(j)
  /\ reading => Reading
  /\ ~reading => Finished

-----------------------------------------------------------------------------
(* A multiple of the word has no remainder. *)
LEMMA MultipleHasNoRest ==
  ASSUME NEW a \in Nat, NEW b \in Nat \ {0}
  PROVE  (b * a) % b = 0
<1>1. b * a \in Nat OBVIOUS
<1>2. b * a = b * ((b * a) \div b) + ((b * a) % b) /\ (b * a) \div b \in Nat /\ (b * a) % b \in 0..b-1
  BY <1>1, DivMod
<1>3. 0 + b * a = ((b * a) % b) + b * ((b * a) \div b) /\ 0 \in 0..b-1 BY <1>1, <1>2
<1>4. 0 = (b * a) % b
  <2> DEFINE q == (b * a) \div b
             r == (b * a) % b
  <2>1. q \in Nat /\ r \in 0..b-1 /\ 0 + b * a = r + b * q BY <1>2, <1>3
  <2>2. b \in Nat /\ 0 \in 0..b-1 OBVIOUS
  <2> HIDE DEF q, r
  <2>3. 0 = r BY <2>1, <2>2, DigitsUnique
  <2> QED BY <2>3 DEF r
<1> QED BY <1>4

(* Padding fills up to the next multiple of the word, and no further. *)
LEMMA PaddedSize ==
  ASSUME NEW n \in Nat
  PROVE  /\ Padding(n) \in 0..FetchBytes-1
         /\ (n + Padding(n)) % FetchBytes = 0
         /\ \E a \in Nat : n + Padding(n) = FetchBytes * a
<1> USE PacketizerAssumption
<1>1. /\ n \div FetchBytes \in Nat /\ n % FetchBytes \in 0..FetchBytes-1
      /\ n = FetchBytes * (n \div FetchBytes) + (n % FetchBytes)
  BY DivMod
<1>2. Padding(n) \in 0..FetchBytes-1 BY <1>1 DEF Padding
<1>3. \E a \in Nat : n + Padding(n) = FetchBytes * a
  <2>1. CASE n % FetchBytes = 0
    <3>1. n + Padding(n) = FetchBytes * (n \div FetchBytes) BY <1>1, <2>1 DEF Padding
    <3> QED BY <1>1, <3>1
  <2>2. CASE n % FetchBytes # 0
    <3> DEFINE q == n \div FetchBytes
               r == n % FetchBytes
    <3>1. q \in Nat /\ r \in Nat /\ n = FetchBytes * q + r BY <1>1
    <3>2. n + Padding(n) = n + (FetchBytes - r) BY <2>2 DEF Padding
    <3>3. FetchBytes * (q + 1) = FetchBytes * q + FetchBytes BY <3>1
    <3>4. n + Padding(n) = FetchBytes * (q + 1) /\ q + 1 \in Nat
      <4> HIDE DEF q, r
      <4> QED BY <3>1, <3>2, <3>3
    <3> QED BY <3>4
  <2> QED BY <2>1, <2>2
<1>4. (n + Padding(n)) % FetchBytes = 0
  <2>1. PICK a \in Nat : n + Padding(n) = FetchBytes * a BY <1>3
  <2> QED BY <2>1, MultipleHasNoRest
<1> QED BY <1>2, <1>3, <1>4

(* Filling a packet up to the fetched word keeps its bytes and adds zeros. *)
LEMMA PaddedPacket ==
  ASSUME NEW n \in Nat \ {0}
  PROVE  (n + Padding(n)) % FetchBytes = 0 /\ n + Padding(n) \in Nat \ {0} /\ n <= n + Padding(n)
<1>1. Padding(n) \in 0..FetchBytes-1 /\ (n + Padding(n)) % FetchBytes = 0 BY PaddedSize
<1> DEFINE d == Padding(n)
<1>2. d \in Nat BY <1>1, PacketizerAssumption
<1>3. n + d \in Nat \ {0} /\ n <= n + d
  <2> HIDE DEF d
  <2> QED BY <1>2
<1> QED BY <1>1, <1>3

(* A shorter packet is not larger after padding. *)
LEMMA PaddedSizeGrows ==
  ASSUME NEW m \in Nat, NEW n \in Nat, m <= n
  PROVE  m + Padding(m) <= n + Padding(n)
<1> USE PacketizerAssumption
<1>1. PICK a \in Nat : m + Padding(m) = FetchBytes * a BY PaddedSize
<1>2. PICK b \in Nat : n + Padding(n) = FetchBytes * b BY PaddedSize
<1>3. Padding(m) \in 0..FetchBytes-1 /\ Padding(n) \in 0..FetchBytes-1 BY PaddedSize
<1>4. ~(b < a)
  <2>1. SUFFICES ASSUME b < a PROVE FALSE OBVIOUS
  <2>2. FetchBytes * b + FetchBytes <= FetchBytes * a BY <2>1, MultipleGap
  <2> QED BY <1>1, <1>2, <1>3, <2>2
<1>5. FetchBytes * a <= FetchBytes * b
  BY <1>4, ProductGrows
<1> QED BY <1>1, <1>2, <1>5

(* The packets asked for are enough for the file, and none is empty. *)
LEMMA PacketSizeFacts ==
  ASSUME NEW total \in Nat
  PROVE  PacketSizeOf(total) \in Nat /\ (PacketSizeOf(total) = 0 <=> total = 0)
<1> USE PacketizerAssumption
<1>1. /\ total \div NPackets \in Nat /\ total % NPackets \in 0..NPackets-1
      /\ total = NPackets * (total \div NPackets) + (total % NPackets)
  BY DivMod
<1>2. CASE total % NPackets = 0
  <2>1. PacketSizeOf(total) = total \div NPackets BY <1>2 DEF PacketSizeOf
  <2>2. NPackets * (total \div NPackets) = total BY <1>1, <1>2
  <2> DEFINE q == total \div NPackets
  <2>3. q \in Nat /\ NPackets * q = total BY <1>1, <2>2
  <2>4. q = 0 <=> total = 0
    <3> HIDE DEF q
    <3>1. q = 0 => NPackets * q = 0 OBVIOUS
    <3>2. q > 0 => NPackets * q >= NPackets
      <4>1. ASSUME q > 0 PROVE 0 < q /\ 0 \in Nat BY <4>1, <2>3
      <4>2. ASSUME q > 0 PROVE NPackets * 0 + NPackets <= NPackets * q
        BY <4>1, <4>2, <2>3, MultipleGap
      <4> QED BY <4>2
    <3> QED BY <2>3, <3>1, <3>2
  <2> QED BY <2>1, <2>3, <2>4
<1>3. CASE total % NPackets # 0
  <2>1. PacketSizeOf(total) = total \div NPackets + 1 BY <1>3 DEF PacketSizeOf
  <2>2. total # 0
    <3>1. 0 % NPackets = 0 BY MultipleHasNoRest
    <3> QED BY <1>3, <3>1
  <2> QED BY <1>1, <2>1, <2>2
<1> QED BY <1>2, <1>3

-----------------------------------------------------------------------------
(* What a packet adds to the arrays. *)
LEMMA PacketAdded ==
  ASSUME PacketTypeOK, NEW p \in Seq(Byte), AddPacket(p)
  PROVE  LET n == Len(payload_sizes)
             w == Len(p) + Padding(Len(p)) IN
         /\ payload' = <<>> /\ padded_sizes' \in Seq(Nat)
         /\ payload_sizes' \in Seq(Nat) /\ Len(payload_sizes') = n + 1
         /\ \A j \in 1..n : payload_sizes'[j] = payload_sizes[j]
         /\ payload_sizes'[n + 1] = w
         /\ payloads' \in Seq(Byte) /\ Len(payloads') = Len(payloads) + w
         /\ \A i \in 1..Len(payloads) : payloads'[i] = payloads[i]
         /\ \A k \in 1..w : payloads'[Len(payloads) + k] = IF k <= Len(p) THEN p[k] ELSE 0
<1> USE PacketizerAssumption
<1> DEFINE n == Len(payload_sizes)
           d == Padding(Len(p))
           w == Len(p) + d
<1>1. Len(p) \in Nat /\ n \in Nat /\ Len(payloads) \in Nat BY LenProperties DEF PacketTypeOK
<1>2. d \in Nat BY <1>1, PaddedSize
<1>3. payload' = <<>> BY DEF AddPacket
<1>4. padded_sizes' \in Seq(Nat)
  <2> DEFINE last == IF padded_sizes = <<>> THEN 0 ELSE padded_sizes[Len(padded_sizes)]
  <2>1. last \in Nat
    <3>1. CASE padded_sizes = <<>> BY <3>1
    <3>2. CASE padded_sizes # <<>>
      <4>1. Len(padded_sizes) \in 1..Len(padded_sizes) BY <3>2, EmptySeq, LenProperties DEF PacketTypeOK
      <4> QED BY <3>2, <4>1, ElementOfSeq DEF PacketTypeOK
    <3> QED BY <3>1, <3>2
  <2>2. padded_sizes' = IF d = 0 THEN padded_sizes ELSE Append(padded_sizes, d + last)
    BY DEF AddPacket, SetPaddedBytes
  <2>3. d + last \in Nat BY <1>2, <2>1
  <2> HIDE DEF d, last
  <2>4. padded_sizes \in Seq(Nat) BY DEF PacketTypeOK
  <2> QED BY <2>2, <2>3, <2>4, AppendProperties
<1>5. /\ payload_sizes' \in Seq(Nat) /\ Len(payload_sizes') = n + 1
      /\ \A j \in 1..n : payload_sizes'[j] = payload_sizes[j]
      /\ payload_sizes'[n + 1] = w
  <2>1. payload_sizes' = Append(payload_sizes, w) BY DEF AddPacket
  <2>2. w \in Nat BY <1>1, <1>2
  <2>3. payload_sizes \in Seq(Nat) BY DEF PacketTypeOK
  <2> HIDE DEF w
  <2> QED BY <2>1, <2>2, <2>3, AppendProperties
<1>6. Zeros(d) \in Seq(Byte) /\ Len(Zeros(d)) = d /\ \A k \in 1..d : Zeros(d)[k] = 0
  <2> HIDE DEF d
  <2> QED BY <1>2 DEF Zeros
<1>7. /\ payloads \o p \in Seq(Byte) /\ Len(payloads \o p) = Len(payloads) + Len(p)
      /\ \A i \in 1..Len(payloads) + Len(p) :
           (payloads \o p)[i] = IF i <= Len(payloads) THEN payloads[i] ELSE p[i - Len(payloads)]
  BY ConcatProperties DEF PacketTypeOK
<1>8. /\ payloads' \in Seq(Byte) /\ Len(payloads') = Len(payloads) + Len(p) + d
      /\ \A i \in 1..Len(payloads) + Len(p) + d :
           payloads'[i] = IF i <= Len(payloads) + Len(p) THEN (payloads \o p)[i]
                          ELSE Zeros(d)[i - (Len(payloads) + Len(p))]
  <2>1. payloads' = (payloads \o p) \o Zeros(d) BY DEF AddPacket
  <2> DEFINE s == payloads \o p
             z == Zeros(d)
  <2>2. s \in Seq(Byte) /\ z \in Seq(Byte) /\ payloads' = s \o z BY <1>6, <1>7, <2>1
  <2>3. Len(s) = Len(payloads) + Len(p) /\ Len(z) = d BY <1>6, <1>7
  <2> HIDE DEF s, z, d
  <2>4. /\ s \o z \in Seq(Byte) /\ Len(s \o z) = Len(s) + Len(z)
        /\ \A i \in 1..Len(s) + Len(z) : (s \o z)[i] = IF i <= Len(s) THEN s[i] ELSE z[i - Len(s)]
    BY <2>2, ConcatProperties
  <2>5. /\ payloads' \in Seq(Byte) /\ Len(payloads') = Len(payloads) + Len(p) + d
        /\ \A i \in 1..Len(payloads) + Len(p) + d :
             payloads'[i] = IF i <= Len(payloads) + Len(p) THEN s[i] ELSE z[i - (Len(payloads) + Len(p))]
    BY <2>2, <2>3, <2>4
  <2> QED BY <2>5 DEF s, z
<1>9. \A i \in 1..Len(payloads) : payloads'[i] = payloads[i]
  <2> HIDE DEF d
  <2> QED BY <1>1, <1>2, <1>7, <1>8
<1>10. ASSUME NEW k \in 1..w
       PROVE  payloads'[Len(payloads) + k] = IF k <= Len(p) THEN p[k] ELSE 0
  <2> DEFINE i == Len(payloads) + k
  <2>1. i \in 1..Len(payloads) + Len(p) + d /\ i - Len(payloads) = k BY <1>1, <1>2
  <2>2. CASE k <= Len(p)
    <3>1. i \in 1..Len(payloads) + Len(p) /\ ~(i <= Len(payloads)) BY <1>1, <2>2
    <3> HIDE DEF i, d
    <3> QED BY <1>1, <1>7, <1>8, <2>1, <2>2, <3>1 DEF i
  <2>3. CASE ~(k <= Len(p))
    <3>1. ~(i <= Len(payloads) + Len(p)) /\ i - (Len(payloads) + Len(p)) \in 1..d
      BY <1>1, <1>2, <2>3
    <3>2. payloads'[i] = Zeros(d)[i - (Len(payloads) + Len(p))]
      <4> HIDE DEF i, d
      <4> QED BY <1>8, <2>1, <3>1
    <3> HIDE DEF i, d
    <3> QED BY <1>6, <2>3, <3>1, <3>2 DEF i
  <2> QED BY <2>2, <2>3
<1>11. Len(payloads') = Len(payloads) + w BY <1>1, <1>2, <1>8
<1> QED BY <1>3, <1>4, <1>5, <1>8, <1>9, <1>10, <1>11

(* A packet is added behind full ones: it is full itself, or the last one. *)
LEMMA PacketKeepsLayout ==
  ASSUME PInv, Reading, UNCHANGED input, NEW p \in Seq(Byte), AddPacket(p),
         0 < Len(p), Len(p) <= packet_size,
         Len(payload_sizes) * packet_size + Len(p) <= Len(input),
         \A k \in 1..Len(p) : p[k] = input[Len(payload_sizes) * packet_size + k],
         Len(p) = packet_size \/ Len(payload_sizes) * packet_size + Len(p) = Len(input)
  PROVE  LayoutOK' /\ \A j \in 1..Len(payload_sizes') : HasPiece(j)'
<1> USE PacketizerAssumption
<1> DEFINE n == Len(payload_sizes)
           S == packet_size
           W == FullSize
           l == Len(p)
           w == l + Padding(l)
<1>1. PacketTypeOK BY DEF PInv
<1>2. l \in Nat \ {0} /\ n \in Nat /\ Len(payloads) \in Nat /\ Len(input) \in Nat
  BY <1>1, LenProperties DEF PacketTypeOK
<1>3. S \in Nat /\ l <= S /\ n * S + l <= Len(input) /\ S' = S
  BY <1>2, PacketSizeFacts DEF packet_size
<1>4. S \in Nat \ {0} /\ n * S \in Nat BY <1>2, <1>3
<1>5. W % FetchBytes = 0 /\ W \in Nat \ {0} /\ S <= W
  BY <1>4, PaddedPacket DEF FullSize
<1>6. w % FetchBytes = 0 /\ w \in Nat \ {0} /\ l <= w
  BY <1>2, PaddedPacket
<1>7. w <= W BY <1>2, <1>3, PaddedSizeGrows DEF FullSize
<1>8. Len(payloads) = n * W /\ \A j \in 1..n : payload_sizes[j] = W BY DEF Reading
<1>9. /\ Len(payload_sizes') = n + 1
      /\ \A j \in 1..n : payload_sizes'[j] = W
      /\ payload_sizes'[n + 1] = w
      /\ Len(payloads') = n * W + w
      /\ \A i \in 1..n * W : payloads'[i] = payloads[i]
      /\ \A k \in 1..w : payloads'[n * W + k] = IF k <= l THEN p[k] ELSE 0
  <2>1. /\ Len(payload_sizes') = n + 1
        /\ \A j \in 1..n : payload_sizes'[j] = payload_sizes[j]
        /\ payload_sizes'[n + 1] = w
        /\ Len(payloads') = Len(payloads) + w
        /\ \A i \in 1..Len(payloads) : payloads'[i] = payloads[i]
        /\ \A k \in 1..w : payloads'[Len(payloads) + k] = IF k <= l THEN p[k] ELSE 0
    BY <1>1, PacketAdded
  <2> HIDE DEF n, W, w, l
  <2> QED BY <2>1, <1>8
<1>10. n * W \in Nat /\ n * payload_sizes'[1] = n * W
  <2>1. CASE n = 0
    <3>1. payload_sizes'[1] = w BY <1>9, <2>1
    <3>2. 0 * w = 0 /\ 0 * W = 0 BY <1>5, <1>6
    <3> QED BY <2>1, <3>1, <3>2
  <2>2. CASE n # 0
    <3>1. payload_sizes'[1] = W BY <1>2, <1>9, <2>2
    <3> QED BY <1>2, <1>5, <3>1
  <2> QED BY <2>1, <2>2
<1>11. payload_sizes'[1] \in Nat /\ w <= payload_sizes'[1] /\ (n # 0 => payload_sizes'[1] = W)
  <2>1. CASE n = 0 BY <1>6, <1>9, <2>1
  <2>2. CASE n # 0
    <3>1. payload_sizes'[1] = W BY <1>2, <1>9, <2>2
    <3> QED BY <1>5, <1>7, <3>1
  <2> QED BY <2>1, <2>2
<1>12. LayoutOK'
  <2> HIDE DEF n, S, W, w, l
  <2>1. ASSUME NEW j \in 1..n+1
        PROVE  /\ payload_sizes'[j] > 0 /\ payload_sizes'[j] % FetchBytes = 0
               /\ payload_sizes'[j] <= payload_sizes'[1]
               /\ j < n + 1 => payload_sizes'[j] = payload_sizes'[1]
    <3>1. CASE j = n + 1 BY <1>6, <1>9, <1>11, <3>1
    <3>2. CASE j # n + 1
      <4>1. j \in 1..n /\ n # 0 BY <1>2, <3>2
      <4>2. payload_sizes'[j] = W /\ payload_sizes'[1] = W BY <1>9, <1>11, <4>1
      <4> QED BY <1>5, <4>2
    <3> QED BY <3>1, <3>2
  <2>2. Len(payloads') = n * payload_sizes'[1] + payload_sizes'[n + 1]
    BY <1>9, <1>10
  <2>3. Len(payload_sizes') # 0 /\ Len(payload_sizes') - 1 = n BY <1>2, <1>9
  <2>4. \A j \in 1..Len(payload_sizes') :
          /\ payload_sizes'[j] > 0 /\ payload_sizes'[j] % FetchBytes = 0
          /\ payload_sizes'[j] <= payload_sizes'[1]
          /\ j < Len(payload_sizes') => payload_sizes'[j] = payload_sizes'[1]
    BY <1>9, <2>1
  <2>5. Len(payloads') = IF Len(payload_sizes') = 0 THEN 0
          ELSE (Len(payload_sizes') - 1) * payload_sizes'[1] + payload_sizes'[Len(payload_sizes')]
    BY <1>9, <2>2, <2>3, Zenon
  <2> QED BY <2>4, <2>5, Zenon DEF LayoutOK
<1>13. ASSUME NEW j \in 1..n PROVE HasPiece(j)'
  <2>1. HasPiece(j) BY DEF PInv
  <2>2. n # 0 /\ 1 \in 1..n /\ j - 1 \in Nat /\ j - 1 < n BY <1>2
  <2>3. payload_sizes[j] = W /\ payload_sizes[1] = W /\ payload_sizes'[j] = W /\ payload_sizes'[1] = W
    BY <1>8, <1>9, <2>2
  <2>4. (j - 1) * W \in Nat /\ (j - 1) * W + W <= n * W
    <3>1. (j - 1) * W \in Nat BY <1>5, <2>2
    <3>2. W * (j - 1) + W <= W * n BY <1>2, <1>5, <2>2, MultipleGap
    <3>3. W * (j - 1) = (j - 1) * W /\ W * n = n * W BY <1>2, <1>5, <2>2
    <3> QED BY <3>1, <3>2, <3>3
  <2>5. FileBytes(j)' = FileBytes(j) BY <1>3 DEF FileBytes
  <2>6. /\ FileBytes(j) \in 0..W
        /\ (j - 1) * S + FileBytes(j) <= Len(input)
        /\ (j - 1) * W + W <= Len(payloads)
        /\ \A k \in 1..W : payloads[(j - 1) * W + k] =
             IF k <= FileBytes(j) THEN input[(j - 1) * S + k] ELSE 0
    BY <2>1, <2>3 DEF HasPiece
  <2>7. ASSUME NEW k \in 1..W
        PROVE  payloads'[(j - 1) * W + k] = IF k <= FileBytes(j) THEN input[(j - 1) * S + k] ELSE 0
    <3> DEFINE i == (j - 1) * W + k
    <3>1. i \in 1..n * W
      <4> DEFINE b == (j - 1) * W
                 m == n * W
      <4>1. b \in Nat /\ m \in Nat /\ b + W <= m BY <1>10, <2>4
      <4> HIDE DEF b, m, W
      <4>2. b + k \in 1..m BY <1>5, <4>1
      <4> QED BY <4>2 DEF b, m
    <3>2. payloads'[i] = payloads[i] BY <1>9, <3>1
    <3> QED BY <2>6, <3>2
  <2>8. (j - 1) * W + W <= Len(payloads')
    <3> DEFINE b == (j - 1) * W
               m == n * W
    <3>1. b \in Nat /\ m \in Nat /\ b + W <= m /\ Len(payloads') = m + w BY <1>9, <1>10, <2>4
    <3> HIDE DEF b, m, W, w
    <3>2. b + W <= Len(payloads') BY <1>5, <1>6, <3>1
    <3> QED BY <3>2 DEF b
  <2> HIDE DEF S, W, w
  <2>9. packet_size' = packet_size BY <1>3 DEF S
  <2> QED BY <2>3, <2>5, <2>6, <2>7, <2>8, <2>9 DEF HasPiece, S
<1>14. ASSUME NEW j, j = n + 1 PROVE HasPiece(j)'
  <2>1. FileBytes(j)' = l
    <3>1. FileBytes(j)' = IF j * S <= Len(input) THEN S ELSE Len(input) - (j - 1) * S
      BY <1>3 DEF FileBytes
    <3>2. j * S = n * S + S /\ (j - 1) * S = n * S BY <1>2, <1>4, <1>14
    <3> DEFINE m == n * S
               f == FileBytes(j)'
    <3>3. m \in Nat /\ m + l <= Len(input) /\ (l = S \/ m + l = Len(input)) BY <1>3, <1>4
    <3>4. f = IF m + S <= Len(input) THEN S ELSE Len(input) - m BY <3>1, <3>2
    <3>5. f = l
      <4> HIDE DEF m, S, l, f
      <4> QED BY <1>2, <1>3, <3>3, <3>4
    <3> QED BY <3>5
  <2>2. (j - 1) * payload_sizes'[1] = n * W /\ (j - 1) * S = n * S BY <1>2, <1>10, <1>14
  <2>3. l \in 0..w BY <1>2, <1>6
  <2>4. ASSUME NEW k \in 1..w
        PROVE  payloads'[n * W + k] = IF k <= l THEN input[n * S + k] ELSE 0
    <3>1. payloads'[n * W + k] = IF k <= l THEN p[k] ELSE 0 BY <1>9
    <3>2. k <= l => p[k] = input[n * S + k] BY <1>2
    <3> QED BY <3>1, <3>2
  <2>5. packet_size' = S /\ input' = input BY <1>3 DEF S
  <2>6. payload_sizes'[j] = w /\ Len(payloads') = n * W + w BY <1>9, <1>14
  <2> HIDE DEF S, W, w, l, n
  <2> QED BY <1>3, <1>10, <2>1, <2>2, <2>3, <2>4, <2>5, <2>6 DEF HasPiece
<1>15. ASSUME NEW j \in 1..n+1 PROVE HasPiece(j)'
  <2>1. CASE j = n + 1 BY <1>14, <2>1
  <2>2. CASE j # n + 1
    <3>1. j \in 1..n BY <1>2, <2>2
    <3> QED BY <1>13, <3>1
  <2> QED BY <2>1, <2>2
<1> QED BY <1>9, <1>12, <1>15

-----------------------------------------------------------------------------
(* Equal bytes make equal packets. *)
LEMMA PieceIsStored ==
  ASSUME PInv, NEW j \in 1..Len(payload_sizes)
  PROVE  LET k == FileBytes(j) IN
         StoredPacket(j) = SubSeq(input, (j - 1) * packet_size + 1, (j - 1) * packet_size + k)
                             \o Zeros(payload_sizes[j] - k)
<1> USE PacketizerAssumption
<1> DEFINE k == FileBytes(j)
           z == payload_sizes[j]
           a == (j - 1) * payload_sizes[1]
           b == (j - 1) * packet_size
           left == SubSeq(payloads, a + 1, a + z)
           piece == SubSeq(input, b + 1, b + k)
           zeros == Zeros(z - k)
<1>1. /\ input \in Seq(Byte) /\ payloads \in Seq(Byte) /\ payload_sizes \in Seq(Nat)
      /\ Len(payload_sizes) \in Nat
  BY LenProperties DEF PInv, PacketTypeOK
<1>2. /\ k \in 0..z /\ b + k <= Len(input) /\ a + z <= Len(payloads)
      /\ \A i \in 1..z : payloads[a + i] = IF i <= k THEN input[b + i] ELSE 0
  <2>1. HasPiece(j) BY DEF PInv
  <2> QED BY <2>1 DEF HasPiece
<1>3. a \in Nat /\ b \in Nat /\ z \in Nat
  <2>1. z \in Nat /\ 1 \in 1..Len(payload_sizes) BY <1>1, ElementOfSeq
  <2>2. payload_sizes[1] \in Nat BY <1>1, <2>1, ElementOfSeq
  <2>3. packet_size \in Nat BY <1>1, LenProperties, PacketSizeFacts DEF packet_size
  <2>4. j - 1 \in Nat BY <1>1
  <2> QED BY <2>1, <2>2, <2>3, <2>4
<1>4. k \in Nat /\ z - k \in Nat BY <1>2, <1>3
<1> HIDE DEF k, z, a, b
<1>5. /\ left \in Seq(Byte) /\ Len(left) = z /\ \A i \in 1..z : left[i] = payloads[a + i]
  <2>1. \A i \in a + 1 .. a + z : payloads[i] \in Byte
    <3>1. \A i \in a + 1 .. a + z : i \in 1..Len(payloads) BY <1>1, <1>2, <1>3, LenProperties
    <3> QED BY <1>1, <3>1, ElementOfSeq
  <2>2. /\ left \in Seq(Byte) /\ Len(left) = IF a + 1 <= a + z THEN a + z - (a + 1) + 1 ELSE 0
        /\ \A i \in 1 .. a + z - (a + 1) + 1 : left[i] = payloads[a + 1 + i - 1]
    BY <1>3, <2>1, SubSeqProperties
  <2> HIDE DEF left
  <2> QED BY <1>3, <2>2
<1>6. /\ piece \in Seq(Byte) /\ Len(piece) = k /\ \A i \in 1..k : piece[i] = input[b + i]
  <2>1. \A i \in b + 1 .. b + k : input[i] \in Byte
    <3>1. \A i \in b + 1 .. b + k : i \in 1..Len(input) BY <1>1, <1>2, <1>3, <1>4, LenProperties
    <3> QED BY <1>1, <3>1, ElementOfSeq
  <2>2. /\ piece \in Seq(Byte) /\ Len(piece) = IF b + 1 <= b + k THEN b + k - (b + 1) + 1 ELSE 0
        /\ \A i \in 1 .. b + k - (b + 1) + 1 : piece[i] = input[b + 1 + i - 1]
    BY <1>3, <1>4, <2>1, SubSeqProperties
  <2> HIDE DEF piece
  <2> QED BY <1>3, <1>4, <2>2
<1>7. /\ zeros \in Seq(Byte) /\ Len(zeros) = z - k /\ \A i \in 1..z - k : zeros[i] = 0
  <2> DEFINE d == z - k
  <2>1. d \in Nat BY <1>4
  <2> HIDE DEF d
  <2>2. Zeros(d) \in Seq(Byte) /\ Len(Zeros(d)) = d /\ \A i \in 1..d : Zeros(d)[i] = 0
    BY <2>1 DEF Zeros
  <2> QED BY <2>2 DEF d
<1> HIDE DEF left, piece, zeros
<1>8. /\ piece \o zeros \in Seq(Byte) /\ Len(piece \o zeros) = z
      /\ \A i \in 1..z : (piece \o zeros)[i] = IF i <= k THEN piece[i] ELSE zeros[i - k]
  <2>1. /\ piece \o zeros \in Seq(Byte) /\ Len(piece \o zeros) = Len(piece) + Len(zeros)
        /\ \A i \in 1..Len(piece) + Len(zeros) :
             (piece \o zeros)[i] = IF i <= Len(piece) THEN piece[i] ELSE zeros[i - Len(piece)]
    BY <1>6, <1>7, ConcatProperties
  <2>2. Len(piece) + Len(zeros) = z BY <1>3, <1>4, <1>6, <1>7
  <2> QED BY <1>6, <2>1, <2>2
<1>9. ASSUME NEW i \in 1..z PROVE left[i] = (piece \o zeros)[i]
  <2>1. CASE i <= k
    <3>1. i \in 1..k BY <1>3, <1>4, <2>1
    <3> QED BY <1>2, <1>5, <1>6, <1>8, <2>1, <3>1
  <2>2. CASE ~(i <= k)
    <3>1. i - k \in 1..z - k BY <1>3, <1>4, <2>2
    <3> QED BY <1>2, <1>5, <1>7, <1>8, <2>2, <3>1
  <2> QED BY <2>1, <2>2
<1>10. left = piece \o zeros BY <1>5, <1>8, <1>9, SeqEqual
<1> QED BY <1>10 DEF left, piece, zeros, k, z, a, b, StoredPacket

-----------------------------------------------------------------------------
(* Nothing has been read and no packet is stored. *)
LEMMA PInvInit == PacketizerInit => PInv
<1> SUFFICES ASSUME PacketizerInit PROVE PInv OBVIOUS
<1>1. input \in Seq(Byte) BY SeqDef DEF PacketizerInit
<1>2. Len(input) \in Nat BY <1>1, LenProperties
<1>3. /\ pos = 0 /\ payload = <<>> /\ payloads = <<>> /\ payload_sizes = <<>> /\ padded_sizes = <<>>
      /\ reading = TRUE
  BY DEF PacketizerInit
<1>4. PacketTypeOK BY <1>1, <1>2, <1>3 DEF PacketTypeOK
<1>5. LayoutOK BY <1>3 DEF LayoutOK
<1>6. packet_size \in Nat /\ (Len(input) > 0 => packet_size > 0)
  BY <1>2, PacketSizeFacts DEF packet_size
<1>7. FullSize \in Nat
  <2>1. Padding(packet_size) \in 0..FetchBytes-1 BY <1>6, PaddedSize
  <2> QED BY <1>6, <2>1, PacketizerAssumption DEF FullSize
<1>8. 0 * packet_size = 0 /\ 0 * FullSize = 0 BY <1>6, <1>7
<1>9. Reading BY <1>2, <1>3, <1>6, <1>8 DEF Reading
<1> QED BY <1>3, <1>4, <1>5, <1>9 DEF PInv

(* The bytes of the packet that is being filled, and where they end. *)
LEMMA FillFacts ==
  ASSUME PInv, Reading
  PROVE  /\ input \in Seq(Byte) /\ Len(input) \in Nat /\ payload \in Seq(Byte) /\ Len(payload) \in Nat
         /\ Len(payload_sizes) \in Nat /\ packet_size \in Nat /\ (packet_size = 0 <=> Len(input) = 0)
         /\ FullSize \in Nat /\ Len(payload_sizes) * packet_size \in Nat
         /\ pos = Len(payload_sizes) * packet_size + Len(payload)
<1>1. PacketTypeOK BY DEF PInv
<1>2. /\ input \in Seq(Byte) /\ Len(input) \in Nat /\ payload \in Seq(Byte) /\ Len(payload) \in Nat
      /\ Len(payload_sizes) \in Nat
  BY <1>1, LenProperties DEF PacketTypeOK
<1>3. packet_size \in Nat /\ (packet_size = 0 <=> Len(input) = 0)
  BY <1>2, PacketSizeFacts DEF packet_size
<1>4. FullSize \in Nat
  <2>1. Padding(packet_size) \in 0..FetchBytes-1 BY <1>3, PaddedSize
  <2> QED BY <1>3, <2>1, PacketizerAssumption DEF FullSize
<1>5. Len(payload_sizes) * packet_size \in Nat BY <1>2, <1>3
<1> QED BY <1>2, <1>3, <1>4, <1>5 DEF Reading

(* A byte completes the packet or lengthens the payload. *)
LEMMA ReadByteKeeps == PInv /\ ReadByte => PInv'
<1> SUFFICES ASSUME PInv, ReadByte PROVE PInv' OBVIOUS
<1> DEFINE n == Len(payload_sizes)
           S == packet_size
           b == n * S
           p == Append(payload, input[pos + 1])
<1>1. reading /\ Reading /\ PacketTypeOK /\ LayoutOK /\ (\A j \in 1..n : HasPiece(j)) /\ pos < Len(input)
  BY DEF PInv, ReadByte
<1>2. reading' = TRUE /\ input' = input /\ pos' = pos + 1
  BY <1>1 DEF ReadByte, PacketTypeOK
<1>3. /\ input \in Seq(Byte) /\ Len(input) \in Nat /\ payload \in Seq(Byte) /\ Len(payload) \in Nat
      /\ n \in Nat /\ S \in Nat /\ (S = 0 <=> Len(input) = 0) /\ FullSize \in Nat /\ b \in Nat
      /\ pos = b + Len(payload)
  BY <1>1, FillFacts
<1>4. S' = S /\ FullSize' = FullSize BY <1>2 DEF packet_size, FullSize
<1>5. pos + 1 \in 1..Len(input) /\ input[pos + 1] \in Byte
  <2>1. pos + 1 \in 1..Len(input) BY <1>1, <1>3
  <2> QED BY <1>3, <2>1, ElementOfSeq
<1>6. /\ p \in Seq(Byte) /\ Len(p) = Len(payload) + 1
      /\ \A k \in 1..Len(payload) : p[k] = payload[k]
      /\ p[Len(payload) + 1] = input[pos + 1]
  BY <1>3, <1>5, AppendProperties
<1>7. Len(payload) < S BY <1>1, <1>3 DEF Reading
<1>8. \A k \in 1..Len(p) : p[k] = input[b + k]
  <2> TAKE k \in 1..Len(p)
  <2>1. CASE k = Len(payload) + 1
    <3>1. b + k = pos + 1 BY <1>3, <2>1
    <3> QED BY <1>6, <2>1, <3>1
  <2>2. CASE k # Len(payload) + 1
    <3>1. k \in 1..Len(payload) BY <1>3, <1>6, <2>2
    <3> QED BY <1>1, <1>6, <3>1 DEF Reading
  <2> QED BY <2>1, <2>2
<1>9. CASE Len(p) = S
  <2>1. AddPacket(p) BY <1>9 DEF ReadByte
  <2>2. 0 < Len(p) /\ Len(p) <= S /\ b + Len(p) <= Len(input)
    BY <1>3, <1>5, <1>6, <1>9
  <2>3. LayoutOK' /\ \A j \in 1..Len(payload_sizes') : HasPiece(j)'
    <3>1. UNCHANGED input BY <1>2
    <3> HIDE DEF p
    <3> QED BY <1>1, <1>6, <1>8, <1>9, <2>1, <2>2, <3>1, PacketKeepsLayout
  <2>4. /\ payload' = <<>> /\ padded_sizes' \in Seq(Nat)
        /\ payload_sizes' \in Seq(Nat) /\ Len(payload_sizes') = n + 1
        /\ \A j \in 1..n : payload_sizes'[j] = payload_sizes[j]
        /\ payload_sizes'[n + 1] = Len(p) + Padding(Len(p))
        /\ payloads' \in Seq(Byte) /\ Len(payloads') = Len(payloads) + (Len(p) + Padding(Len(p)))
    <3> HIDE DEF p
    <3> QED BY <1>1, <1>6, <2>1, PacketAdded
  <2>5. PacketTypeOK'
    <3>1. pos' \in 0..Len(input') BY <1>2, <1>5
    <3> QED BY <1>2, <1>3, <2>4, <3>1 DEF PacketTypeOK
  <2>6. Len(p) + Padding(Len(p)) = FullSize BY <1>9 DEF FullSize
  <2>7. Reading'
    <3>1. Len(payload') = 0 /\ Len(payload_sizes') = n + 1 BY <2>4
    <3>2. (n + 1) * S = b + S /\ (n + 1) * FullSize = n * FullSize + FullSize BY <1>3
    <3>3. pos' = (n + 1) * S + 0 BY <1>2, <1>3, <1>6, <1>9, <3>2
    <3>4. Len(payloads') = (n + 1) * FullSize BY <1>1, <2>4, <2>6, <3>2 DEF Reading
    <3>5. \A j \in 1..n+1 : payload_sizes'[j] = FullSize
      <4> TAKE j \in 1..n+1
      <4>1. CASE j = n + 1 BY <2>4, <2>6, <4>1
      <4>2. CASE j # n + 1
        <5>1. j \in 1..n BY <1>3, <4>2
        <5> QED BY <1>1, <2>4, <5>1 DEF Reading
      <4> QED BY <4>1, <4>2
    <3>6. 0 < S BY <1>3, <1>7
    <3> HIDE DEF n, b, p
    <3> QED BY <1>4, <3>1, <3>3, <3>4, <3>5, <3>6 DEF Reading
  <2> QED BY <1>2, <2>3, <2>5, <2>7 DEF PInv
<1>10. CASE Len(p) # S
  <2>1. payload' = p /\ UNCHANGED <<payloads, payload_sizes, padded_sizes>> BY <1>10 DEF ReadByte
  <2>2. PacketTypeOK'
    <3>1. pos' \in 0..Len(input') BY <1>2, <1>5
    <3> QED BY <1>1, <1>2, <1>3, <1>6, <2>1, <3>1 DEF PacketTypeOK
  <2>3. LayoutOK' BY <1>1, <2>1 DEF LayoutOK
  <2>4. \A j \in 1..Len(payload_sizes') : HasPiece(j)'
    BY <1>1, <1>2, <1>4, <2>1 DEF HasPiece, FileBytes
  <2>5. Reading'
    <3>1. Len(p) < S BY <1>3, <1>6, <1>7, <1>10
    <3>2. pos' = b + Len(p) BY <1>2, <1>3, <1>6
    <3> HIDE DEF p
    <3> QED BY <1>1, <1>2, <1>4, <1>8, <2>1, <3>1, <3>2 DEF Reading
  <2> QED BY <1>2, <2>2, <2>3, <2>4, <2>5 DEF PInv
<1> QED BY <1>9, <1>10

(* The end of the file stores what is left, if any, as the last packet. *)
LEMMA EndOfFileKeeps == PInv /\ EndOfFile => PInv'
<1> SUFFICES ASSUME PInv, EndOfFile PROVE PInv' OBVIOUS
<1> DEFINE n == Len(payload_sizes)
           S == packet_size
           b == n * S
<1>1. /\ reading /\ Reading /\ PacketTypeOK /\ LayoutOK /\ (\A j \in 1..n : HasPiece(j))
      /\ pos = Len(input) /\ reading' = FALSE /\ input' = input /\ pos' = pos
  BY DEF PInv, EndOfFile
<1>2. /\ input \in Seq(Byte) /\ Len(input) \in Nat /\ payload \in Seq(Byte) /\ Len(payload) \in Nat
      /\ n \in Nat /\ S \in Nat /\ (S = 0 <=> Len(input) = 0) /\ b \in Nat
      /\ pos = b + Len(payload)
  BY <1>1, FillFacts
<1>3. S' = S BY <1>1 DEF packet_size
<1>4. CASE 0 < Len(payload) /\ Len(payload) < S
  <2>1. AddPacket(payload) BY <1>4 DEF EndOfFile
  <2>2. b + Len(payload) = Len(input) BY <1>1, <1>2
  <2>3. LayoutOK' /\ \A j \in 1..Len(payload_sizes') : HasPiece(j)'
    <3>1. \A k \in 1..Len(payload) : payload[k] = input[b + k] BY <1>1 DEF Reading
    <3>2. Len(payload) <= S /\ b + Len(payload) <= Len(input) BY <1>2, <1>4, <2>2
    <3> QED BY <1>1, <1>2, <1>4, <2>1, <2>2, <3>1, <3>2, PacketKeepsLayout
  <2>4. /\ payload' = <<>> /\ padded_sizes' \in Seq(Nat)
        /\ payload_sizes' \in Seq(Nat) /\ Len(payload_sizes') = n + 1 /\ payloads' \in Seq(Byte)
    BY <1>1, <1>2, <2>1, PacketAdded
  <2>5. PacketTypeOK'
    <3>1. pos' \in 0..Len(input')
      <4>1. pos' = Len(input) /\ Len(input') = Len(input) BY <1>1
      <4> QED BY <1>2, <4>1
    <3>2. payload' \in Seq(Byte)
      <4>1. payload' = <<>> BY <2>4
      <4> QED BY <4>1, EmptySeq
    <3>3. reading' \in BOOLEAN BY <1>1
    <3> QED BY <1>1, <1>2, <2>4, <3>1, <3>2, <3>3 DEF PacketTypeOK
  <2>6. Finished'
    <3>1. (n + 1) * S = b + S BY <1>2
    <3>2. (n + 1) * S >= Len(input) BY <1>2, <1>4, <2>2, <3>1
    <3> HIDE DEF n
    <3> QED BY <1>1, <1>3, <2>4, <3>2 DEF Finished
  <2> QED BY <1>1, <2>3, <2>5, <2>6 DEF PInv
<1>5. CASE ~(0 < Len(payload) /\ Len(payload) < S)
  <2>1. UNCHANGED <<payload, payloads, payload_sizes, padded_sizes>> BY <1>5 DEF EndOfFile
  <2>2. Len(payload) = 0
    <3>1. CASE Len(input) = 0
      <4>1. b \in Nat /\ Len(payload) \in Nat /\ 0 = b + Len(payload) BY <1>1, <1>2, <3>1
      <4> HIDE DEF b
      <4> QED BY <4>1
    <3>2. CASE Len(input) > 0
      <4>1. Len(payload) < S BY <1>1, <3>2 DEF Reading
      <4> QED BY <1>2, <1>5, <4>1
    <3> QED BY <1>2, <3>1, <3>2
  <2>3. payload = <<>> BY <1>2, <2>2, EmptySeq
  <2>4. b = Len(input) BY <1>1, <1>2, <2>2
  <2>5. Finished' BY <1>1, <1>2, <1>3, <2>1, <2>3, <2>4 DEF Finished
  <2>6. PacketTypeOK' BY <1>1, <1>2, <2>1 DEF PacketTypeOK
  <2>7. LayoutOK' BY <1>1, <2>1 DEF LayoutOK
  <2>8. \A j \in 1..Len(payload_sizes') : HasPiece(j)'
    BY <1>1, <1>3, <2>1 DEF HasPiece, FileBytes
  <2> QED BY <1>1, <2>5, <2>6, <2>7, <2>8 DEF PInv
<1> QED BY <1>4, <1>5

(* Hence the invariant is inductive. *)
LEMMA PInvNext == PInv /\ [PacketizerNext]_packetVars => PInv'
<1>1. CASE ReadByte BY <1>1, ReadByteKeeps
<1>2. CASE EndOfFile BY <1>2, EndOfFileKeeps
<1>3. CASE UNCHANGED packetVars
  BY <1>3 DEF PInv, PacketTypeOK, LayoutOK, HasPiece, FileBytes, packet_size, Reading, FullSize, Finished,
              packetVars
<1> QED BY <1>1, <1>2, <1>3 DEF PacketizerNext

(* What the invariant says of a file that has been read is the property. *)
LEMMA PInvHoldsTheFile == PInv => PacketsHoldTheFile
<1> SUFFICES ASSUME PInv PROVE PacketsHoldTheFile OBVIOUS
<1>1. \A j \in 1..Len(payload_sizes) :
        LET k == FileBytes(j) IN
        StoredPacket(j) = SubSeq(input, (j - 1) * packet_size + 1, (j - 1) * packet_size + k)
                            \o Zeros(payload_sizes[j] - k)
  BY PieceIsStored
<1>2. ~reading => payload = <<>> /\ Len(payload_sizes) * packet_size >= Len(input)
  BY DEF PInv, Finished
<1>3. ASSUME reading PROVE payload = SubSeq(input, Len(payload_sizes) * packet_size + 1, pos)
  <2> DEFINE b == Len(payload_sizes) * packet_size
             l == Len(payload)
  <2>1. /\ Reading /\ input \in Seq(Byte) /\ Len(input) \in Nat /\ payload \in Seq(Byte)
        /\ l \in Nat /\ b \in Nat /\ pos = b + l
    BY <1>3, FillFacts DEF PInv
  <2>2. b + l <= Len(input) BY <2>1 DEF PInv, PacketTypeOK
  <2>3. \A k \in 1..l : payload[k] = input[b + k] BY <2>1 DEF Reading
  <2> DEFINE s == SubSeq(input, b + 1, b + l)
  <2>4. s \in Seq(Byte) /\ Len(s) = l /\ \A k \in 1..l : s[k] = input[b + k]
    <3>3. b \in Nat /\ l \in Nat BY <2>1
    <3> HIDE DEF b, l
    <3>1. \A i \in b + 1 .. b + l : input[i] \in Byte
      <4>1. \A i \in b + 1 .. b + l : i \in 1..Len(input) BY <2>1, <2>2
      <4> QED BY <2>1, <4>1, ElementOfSeq
    <3>2. /\ s \in Seq(Byte) /\ Len(s) = IF b + 1 <= b + l THEN b + l - (b + 1) + 1 ELSE 0
          /\ \A i \in 1 .. b + l - (b + 1) + 1 : s[i] = input[b + 1 + i - 1]
      BY <2>1, <3>1, SubSeqProperties
    <3> HIDE DEF s
    <3> QED BY <3>2, <3>3
  <2>5. payload = s
    <3> HIDE DEF s, b
    <3> QED BY <2>1, <2>3, <2>4, SeqEqual
  <2> QED BY <2>1, <2>5
<1> QED BY <1>1, <1>2, <1>3 DEF PacketsHoldTheFile

-----------------------------------------------------------------------------
(* Whatever the file, the number of packets and the width of a word: no    *)
(* byte is lost, duplicated or moved by the input loop of main.            *)
THEOREM PacketsHold == PacketizerSpec => []PacketsHoldTheFile
<1>1. PacketizerInit => PInv BY PInvInit
<1>2. PInv /\ [PacketizerNext]_packetVars => PInv' BY PInvNext
<1>3. PInv => PacketsHoldTheFile BY PInvHoldsTheFile
<1> QED BY <1>1, <1>2, <1>3, PTL DEF PacketizerSpec

(* The packets have at all times the layout the kernel's theorems assume:   *)
(* the part LayoutOK of LaunchOK, what add_packet and set_padded_bytes      *)
(* leave to udfa_host.cu and udfa_gpu.cu.                                  *)
THEOREM PacketsAreLaidOut == PacketizerSpec => []LayoutOK
<1>1. PacketizerInit => PInv BY PInvInit
<1>2. PInv /\ [PacketizerNext]_packetVars => PInv' BY PInvNext
<1>3. PInv => LayoutOK BY DEF PInv
<1> QED BY <1>1, <1>2, <1>3, PTL DEF PacketizerSpec

-----------------------------------------------------------------------------
(***************************************************************************)
(* The whole run.                                                          *)
(***************************************************************************)
KP == INSTANCE UdfaKernel_proofs

Phases == {"input", "undefined", "tune", "launch", "kernel", "report", "done"}

(* from the allocation of the match arrays to their release *)
Allocated == {"tune", "launch", "kernel", "report"}

(* There is a packet only if there is a file, and the file has been read *)
(* when udfa_run begins.                                                 *)
InputInv ==
  /\ PInv
  /\ payload_sizes # <<>> => Len(input) > 0
  /\ phase # "input" => ~reading
  /\ phase \in Allocated => payload_sizes # <<>>

GeometryInv ==
  /\ phase \in Phases
  /\ blockSize_ \in 1..MaxBlock
  /\ phase \in {"launch", "kernel", "report"} =>
       blockDim \in 1..(IF Tuning THEN MaxBlock ELSE ThreadsPerBlock)

(* Nothing is in the arrays before the launch, then what the kernel's      *)
(* invariant says, and the host goes on only when all threads have ended.  *)
DeviceInv ==
  /\ phase \in {"input", "tune", "launch"} => match_array = <<>> /\ match_count = <<>>
  /\ phase \in {"kernel", "report"} => KP!KInv /\ KP!CountsMatch
  /\ phase = "report" => KP!KernelDone

EInv == InputInv /\ GeometryInv /\ DeviceInv

-----------------------------------------------------------------------------
(* A packet is not larger than the file. *)
LEMMA PacketSizeAtMost ==
  ASSUME NEW total \in Nat
  PROVE  PacketSizeOf(total) <= total
<1> USE PacketizerAssumption
<1> DEFINE q == total \div NPackets
           r == total % NPackets
<1>1. q \in Nat /\ r \in 0..NPackets-1 /\ total = NPackets * q + r BY DivMod
<1>2. 1 * q <= NPackets * q /\ 1 * q = q /\ NPackets * q \in Nat
  <2>1. 1 <= NPackets /\ 1 \in Nat /\ NPackets \in Nat OBVIOUS
  <2> HIDE DEF q
  <2> QED BY <1>1, <2>1, ProductGrows
<1>3. PacketSizeOf(total) = IF r = 0 THEN q ELSE q + 1 BY DEF PacketSizeOf
<1> HIDE DEF q, r
<1> QED BY <1>1, <1>2, <1>3

(* What the input loop leaves to udfa_run is what the launch needs: the    *)
(* first packet is full, as no packet is larger than the file.             *)
LEMMA FirstPacketIsFull ==
  ASSUME InputInv, payload_sizes # <<>>
  PROVE  packet_size \in 1..payload_sizes[1]
<1>1. PacketTypeOK /\ Len(input) > 0 BY DEF InputInv, PInv
<1>2. Len(input) \in Nat /\ Len(payload_sizes) \in Nat \ {0} /\ payload_sizes[1] \in Nat
  <2>1. Len(input) \in Nat /\ Len(payload_sizes) \in Nat \ {0}
    BY <1>1, LenProperties, EmptySeq DEF PacketTypeOK
  <2>2. 1 \in 1..Len(payload_sizes) BY <2>1
  <2> QED BY <1>1, <2>1, <2>2, ElementOfSeq DEF PacketTypeOK
<1>3. packet_size \in Nat \ {0} /\ packet_size <= Len(input)
  BY <1>1, <1>2, PacketSizeFacts, PacketSizeAtMost DEF packet_size
<1>4. HasPiece(1) BY <1>2 DEF InputInv, PInv
<1>5. FileBytes(1) = packet_size
  <2>1. 1 * packet_size = packet_size BY <1>3
  <2> QED BY <1>3, <2>1 DEF FileBytes
<1>6. packet_size \in 0..payload_sizes[1] BY <1>4, <1>5 DEF HasPiece
<1> QED BY <1>2, <1>3, <1>6

(* What the packetizer has left is what the kernel assumes of its packets. *)
LEMMA LaunchHypothesis ==
  ASSUME InputInv, payload_sizes # <<>>, blockDim \in Nat \ {0}
  PROVE  KP!LaunchOK
<1>1. packet_size \in 1..payload_sizes[1] BY FirstPacketIsFull
<1>2. PacketTypeOK /\ LayoutOK BY DEF InputInv, PInv
<1>3. Len(payload_sizes) \in Nat \ {0} BY <1>2, LenProperties, EmptySeq DEF PacketTypeOK
<1>4. KP!LayoutOK BY <1>2, <1>3 DEF PacketTypeOK, LayoutOK, KP!LayoutOK
<1> QED BY <1>1, <1>4 DEF KP!LaunchOK

(* The kernel of UdfaEngine is the one the theorems are about. *)
LEMMA SameKernel ==
  /\ K!KernelNext <=> KP!KernelNext
  /\ K!KernelDone <=> KP!KernelDone
  /\ K!Threads = KP!Threads /\ K!Started = KP!Started
  /\ K!Slots = KP!Slots /\ K!MatchVecSize = KP!MatchVecSize
<1>1. K!Threads = KP!Threads BY DEF K!Threads, KP!Threads, K!GridX, KP!GridX
<1>2. /\ K!MatchVecSize = KP!MatchVecSize /\ K!Slots = KP!Slots
      /\ \A t : K!DfaId(t) = KP!DfaId(t) /\ K!Slot(t) = KP!Slot(t) /\ K!InputStart(t) = KP!InputStart(t)
  BY DEF K!MatchVecSize, KP!MatchVecSize, K!Slots, KP!Slots, K!GridX, KP!GridX, K!DfaId, KP!DfaId,
         K!Slot, KP!Slot, K!InputStart, KP!InputStart
<1>3. \A t, n : K!MatchAddress(t, n) = KP!MatchAddress(t, n)
  BY <1>2 DEF K!MatchAddress, KP!MatchAddress
<1>4. /\ \A t : (K!Working(t) <=> KP!Working(t)) /\ (K!MoreInput(t) <=> KP!MoreInput(t))
      /\ \A d, s, c : K!Entry(d, s, c) = KP!Entry(d, s, c)
      /\ \A f, i, v : K!Put(f, i, v) = KP!Put(f, i, v)
  BY <1>2 DEF K!Working, KP!Working, K!MoreInput, KP!MoreInput, K!Entry, KP!Entry, K!Put, KP!Put
<1>5. ASSUME NEW t PROVE K!ThreadStep(t) <=> KP!ThreadStep(t)
  <2>1. K!Return(t) <=> KP!Return(t) BY <1>4 DEF K!Return, KP!Return, K!hostVars, KP!hostVars
  <2>2. K!Finish(t) <=> KP!Finish(t)
    BY <1>2, <1>4 DEF K!Finish, KP!Finish, K!hostVars, KP!hostVars
  <2>3. K!ScanByte(t) <=> KP!ScanByte(t)
    BY <1>2, <1>3, <1>4 DEF K!ScanByte, KP!ScanByte, K!hostVars, KP!hostVars
  <2> QED BY <2>1, <2>2, <2>3 DEF K!ThreadStep, KP!ThreadStep
<1>6. K!KernelNext <=> KP!KernelNext BY <1>1, <1>5 DEF K!KernelNext, KP!KernelNext
<1>7. K!KernelDone <=> KP!KernelDone BY <1>1 DEF K!KernelDone, KP!KernelDone
<1> QED BY <1>1, <1>2, <1>6, <1>7 DEF K!Started, KP!Started

(* The proofs of the kernel assume what the engine assumes. *)
LEMMA SameAssumption == KP!KernelAssumption
BY AutomataAssumption DEF K!KernelAssumption, KP!KernelAssumption, K!State, KP!State

-----------------------------------------------------------------------------
(* The arrays at the launch are those the kernel's invariant starts from.  *)
LEMMA LaunchInit ==
  ASSUME InputInv, payload_sizes # <<>>, blockDim \in Nat \ {0},
         thr = [t \in K!Threads |-> K!Started], match_array = <<>>, match_count = <<>>
  PROVE  KP!KInv /\ KP!CountsMatch
<1>1. KP!LaunchOK BY LaunchHypothesis
<1>2. thr = [t \in KP!Threads |-> KP!Started] BY SameKernel
<1>3. KP!KernelInit BY <1>1, <1>2 DEF KP!KernelInit, KP!LaunchOK, KP!Launch
<1>4. KP!KInv BY <1>3, KP!KInvInit, SameAssumption
<1>5. \A t \in KP!Threads : thr[t].pc = "run" BY <1>2 DEF KP!Started
<1> QED BY <1>4, <1>5 DEF KP!CountsMatch

(* A step of the kernel, or of the host that leaves the device alone. *)
LEMMA KernelKeeps ==
  ASSUME KP!KInv, KP!CountsMatch, KP!KernelNext \/ UNCHANGED KP!kernelVars
  PROVE  KP!KInv' /\ KP!CountsMatch'
<1>1. [KP!KernelNext]_(KP!kernelVars) OBVIOUS
<1> QED BY <1>1, SameAssumption, KP!KInvNext, KP!CountsMatchNext

(* At first nothing is on the device. *)
LEMMA EInvInit == EngineInit => EInv
<1> SUFFICES ASSUME EngineInit PROVE EInv OBVIOUS
<1>1. PInv BY PInvInit DEF EngineInit
<1>2. /\ phase = "input" /\ blockSize_ = 1 /\ blockDim = ThreadsPerBlock /\ payload_sizes = <<>>
      /\ match_array = <<>> /\ match_count = <<>>
  BY DEF EngineInit, PacketizerInit
<1>3. InputInv BY <1>1, <1>2 DEF InputInv, Allocated
<1>4. GeometryInv BY <1>2, EngineAssumption DEF GeometryInv, Phases
<1>5. DeviceInv BY <1>2 DEF DeviceInv
<1> QED BY <1>3, <1>4, <1>5 DEF EInv

(* A byte more, or the end of the file: a packet needs a file. *)
LEMMA InputKeeps == EInv /\ Input => EInv'
<1> SUFFICES ASSUME EInv, Input PROVE EInv' OBVIOUS
<1>1. /\ phase = "input" /\ phase' = "input" /\ PacketizerNext /\ PInv
      /\ UNCHANGED <<blockSize_, blockDim, match_array, match_count>>
  BY DEF Input, gpuVars, EInv, InputInv
<1>2. PInv' BY <1>1, PInvNext
<1>3. Len(input) \in Nat /\ pos \in Nat /\ input' = input
  <2>1. Len(input) \in Nat BY <1>1, LenProperties DEF PInv, PacketTypeOK
  <2> QED BY <1>1, <2>1 DEF PInv, PacketTypeOK, PacketizerNext, ReadByte, EndOfFile
<1>4. payload_sizes' # <<>> => Len(input') > 0
  <2>1. CASE ReadByte BY <1>3, <2>1 DEF ReadByte
  <2>2. CASE EndOfFile
    <3>1. CASE 0 < Len(payload) /\ Len(payload) < packet_size
      <4>1. packet_size # 0 /\ packet_size \in Nat
        <5>1. packet_size \in Nat /\ Len(payload) \in Nat
          BY <1>1, <1>3, PacketSizeFacts, LenProperties DEF packet_size, PInv, PacketTypeOK
        <5> QED BY <3>1, <5>1
      <4> QED BY <1>3, <4>1, PacketSizeFacts DEF packet_size
    <3>2. CASE ~(0 < Len(payload) /\ Len(payload) < packet_size)
      <4>1. payload_sizes' = payload_sizes BY <2>2, <3>2 DEF EndOfFile
      <4> QED BY <1>3, <4>1 DEF EInv, InputInv
    <3> QED BY <3>1, <3>2
  <2> QED BY <1>1, <2>1, <2>2 DEF PacketizerNext
<1>5. InputInv' BY <1>1, <1>2, <1>4 DEF InputInv, Allocated
<1>6. GeometryInv' BY <1>1 DEF EInv, GeometryInv, Phases
<1>7. DeviceInv' BY <1>1 DEF EInv, DeviceInv
<1> QED BY <1>5, <1>6, <1>7 DEF EInv

(* The packets are never touched again. *)
LEMMA InputKept ==
  ASSUME InputInv, UNCHANGED packetVars, phase' # "input" => ~reading,
         phase' \in Allocated => payload_sizes # <<>>
  PROVE  InputInv'
<1>1. PInv' BY PInvNext DEF InputInv
<1> QED BY <1>1 DEF InputInv, packetVars

(* The steps of the host that leave the arrays and the threads alone. *)
LEMMA HostKeeps ==
  ASSUME EInv, Allocate \/ TuneStep \/ SetGeometry \/ Synchronize \/ ReportPacket \/ NextSubset
  PROVE  EInv'
<1>1. UNCHANGED packetVars /\ UNCHANGED gpuVars
  BY DEF Allocate, TuneStep, SetGeometry, Synchronize, ReportPacket, NextSubset
<1>2. InputInv'
  <2>1. InputInv /\ (phase' # "input" => ~reading) /\ (phase' \in Allocated => payload_sizes # <<>>)
    BY DEF EInv, InputInv, Allocate, TuneStep, SetGeometry, Synchronize, ReportPacket, NextSubset, Allocated
  <2> QED BY <1>1, <2>1, InputKept
<1>3. GeometryInv'
  <2> USE EngineAssumption DEF EInv, GeometryInv, Phases
  <2>1. CASE Allocate BY <2>1 DEF Allocate
  <2>2. CASE TuneStep BY <2>2 DEF TuneStep
  <2>3. CASE SetGeometry BY <2>3 DEF SetGeometry
  <2>4. CASE Synchronize BY <2>4 DEF Synchronize
  <2>5. CASE ReportPacket \/ NextSubset BY <2>5 DEF ReportPacket, NextSubset
  <2> QED BY <2>1, <2>2, <2>3, <2>4, <2>5
<1>4. DeviceInv'
  <2>1. CASE Allocate \/ TuneStep \/ SetGeometry
    <3>1. phase \in {"input", "tune"} /\ phase' \in {"undefined", "tune", "launch"}
      BY <2>1 DEF Allocate, TuneStep, SetGeometry
    <3> QED BY <1>1, <3>1 DEF EInv, DeviceInv, gpuVars
  <2>2. CASE Synchronize \/ ReportPacket \/ NextSubset
    <3>1. /\ phase \in {"kernel", "report"} /\ phase' = "report" /\ KP!KInv /\ KP!CountsMatch
          /\ KP!KernelDone /\ blockDim' = blockDim
      BY <2>2, SameKernel DEF Synchronize, ReportPacket, NextSubset, EInv, DeviceInv
    <3>2. UNCHANGED KP!kernelVars
      BY <1>1, <3>1 DEF gpuVars, packetVars, KP!kernelVars, packet_size
    <3>3. KP!KInv' /\ KP!CountsMatch' BY <3>1, <3>2, KernelKeeps
    <3>4. KP!KernelDone'
      BY <3>1, <3>2 DEF KP!kernelVars, KP!KernelDone, KP!Threads, KP!GridX
    <3> QED BY <3>1, <3>3, <3>4 DEF DeviceInv
  <2> QED BY <2>1, <2>2
<1> QED BY <1>2, <1>3, <1>4 DEF EInv

(* The launch starts the threads; the result arrays hold nothing yet. *)
LEMMA LaunchKeeps == EInv /\ Launch => EInv'
<1> SUFFICES ASSUME EInv, Launch PROVE EInv' OBVIOUS
<1>1. /\ phase = "launch" /\ phase' = "kernel" /\ UNCHANGED packetVars
      /\ UNCHANGED <<blockSize_, blockDim, match_array, match_count>>
      /\ thr' = [t \in K!Threads |-> K!Started]
      /\ match_array = <<>> /\ match_count = <<>>
  BY DEF Launch, EInv, DeviceInv
<1>2. InputInv' BY <1>1, InputKept DEF EInv, InputInv, Allocated
<1>3. GeometryInv' BY <1>1 DEF EInv, GeometryInv, Phases
<1>4. KP!KInv' /\ KP!CountsMatch'
  <2>1. payload_sizes' # <<>> BY <1>1, <1>2 DEF InputInv, Allocated
  <2>2. blockDim' \in Nat \ {0} BY <1>1, EngineAssumption DEF EInv, GeometryInv
  <2>3. (thr = [t \in K!Threads |-> K!Started])'
    BY <1>1 DEF K!Threads, K!GridX, K!Started, packetVars
  <2>4. (InputInv /\ payload_sizes # <<>> /\ blockDim \in Nat \ {0}
         /\ thr = [t \in K!Threads |-> K!Started] /\ match_array = <<>> /\ match_count = <<>>)'
    BY <1>1, <1>2, <2>1, <2>2, <2>3
  <2> QED BY <2>4, LaunchInit, PTL
<1>5. DeviceInv' BY <1>1, <1>4 DEF DeviceInv
<1> QED BY <1>2, <1>3, <1>5 DEF EInv

(* A step of a thread keeps the invariant of the kernel. *)
LEMMA KernelStepKeeps == EInv /\ Kernel => EInv'
<1> SUFFICES ASSUME EInv, Kernel PROVE EInv' OBVIOUS
<1>1. /\ phase = "kernel" /\ phase' = "kernel" /\ UNCHANGED packetVars
      /\ UNCHANGED <<blockSize_, blockDim>> /\ KP!KernelNext
  BY SameKernel DEF Kernel
<1>2. InputInv' BY <1>1, InputKept DEF EInv, InputInv, Allocated
<1>3. GeometryInv' BY <1>1 DEF EInv, GeometryInv, Phases
<1>4. KP!KInv' /\ KP!CountsMatch' BY <1>1, KernelKeeps DEF EInv, DeviceInv
<1>5. DeviceInv' BY <1>1, <1>4 DEF DeviceInv
<1> QED BY <1>2, <1>3, <1>5 DEF EInv

(* After the last subset nothing of a launch is left. *)
LEMMA ExitKeeps == EInv /\ Exit => EInv'
<1> SUFFICES ASSUME EInv, Exit PROVE EInv' OBVIOUS
<1>1. /\ phase = "report" /\ phase' = "done" /\ UNCHANGED packetVars /\ UNCHANGED <<blockSize_, blockDim>>
  BY DEF Exit
<1>2. InputInv' BY <1>1, InputKept DEF EInv, InputInv, Allocated
<1>3. GeometryInv' BY <1>1 DEF EInv, GeometryInv, Phases
<1>4. DeviceInv' BY <1>1 DEF DeviceInv
<1> QED BY <1>2, <1>3, <1>4 DEF EInv

(* Hence the invariant of the engine is inductive. *)
LEMMA EInvNext == EInv /\ [EngineNext]_engineVars => EInv'
<1> SUFFICES ASSUME EInv, [EngineNext]_engineVars PROVE EInv' OBVIOUS
<1>1. CASE EngineNext
  BY <1>1, InputKeeps, HostKeeps, LaunchKeeps, KernelStepKeeps, ExitKeeps DEF EngineNext
<1>2. CASE UNCHANGED engineVars
  <2>1. UNCHANGED packetVars /\ phase' = phase BY <1>2 DEF engineVars
  <2>2. InputInv' BY <2>1, InputKept DEF EInv, InputInv
  <2>3. GeometryInv' BY <1>2 DEF engineVars, EInv, GeometryInv
  <2>4. DeviceInv'
    <3>1. UNCHANGED KP!kernelVars
      BY <1>2 DEF engineVars, gpuVars, packetVars, KP!kernelVars, packet_size
    <3>2. phase \in {"kernel", "report"} => KP!KInv' /\ KP!CountsMatch'
      BY <3>1, KernelKeeps DEF EInv, DeviceInv
    <3>3. KP!KernelDone => KP!KernelDone'
      BY <3>1 DEF KP!kernelVars, KP!KernelDone, KP!Threads, KP!GridX
    <3> QED BY <1>2, <2>1, <3>2, <3>3 DEF engineVars, gpuVars, EInv, DeviceInv
  <2> QED BY <2>2, <2>3, <2>4 DEF EInv
<1> QED BY <1>1, <1>2

-----------------------------------------------------------------------------
(* Whatever the file, the number of packets, the tuning and the geometry:  *)
(* the kernel is launched on packets that have the layout its index        *)
(* arithmetic needs, with a packet size that is at most the first packet's *)
(* and with a legal block size.                                            *)
THEOREM LaunchesAreLegal == EngineSpec => []LaunchIsLegal
<1>1. EInv => LaunchIsLegal
  <2> SUFFICES ASSUME EInv PROVE LaunchIsLegal OBVIOUS
  <2>1. LayoutOK BY DEF EInv, InputInv, PInv
  <2>2. ASSUME phase \in {"launch", "kernel"}
        PROVE  /\ packet_size \in 1..payload_sizes[1]
               /\ blockDim \in 1..(IF Tuning THEN MaxBlock ELSE ThreadsPerBlock)
    <3>1. InputInv /\ payload_sizes # <<>> BY <2>2 DEF EInv, InputInv, Allocated
    <3> QED BY <2>2, <3>1, FirstPacketIsFull DEF EInv, GeometryInv
  <2> QED BY <2>1, <2>2 DEF LaunchIsLegal
<1> QED BY <1>1, EInvInit, EInvNext, PTL DEF EngineSpec

(* The host never reads a count or a match that no thread of the run has   *)
(* written, though the arrays come uninitialized from malloc and           *)
(* cudaMalloc: for every file, every automata and any number of threads.   *)
THEOREM HostReadsOnlyWritten == EngineSpec => []HostReadsWhatWasWritten
<1>1. EInv => HostReadsWhatWasWritten
  <2> SUFFICES ASSUME EInv, phase = "report" 
               PROVE  \A s \in 0..(K!Slots - 1) :
                        /\ s \in DOMAIN match_count
                        /\ \A i \in 0..match_count[s]-1 : K!MatchVecSize * s + i \in DOMAIN match_array
    BY DEF HostReadsWhatWasWritten
  <2>1. KP!KInv /\ KP!CountsMatch /\ KP!KernelDone BY DEF EInv, DeviceInv
  <2>2. KP!ResultsWritten BY <2>1, SameAssumption, KP!ResultsAreWritten
  <2> QED BY <2>2, SameKernel DEF KP!ResultsWritten
<1> QED BY <1>1, EInvInit, EInvNext, PTL DEF EngineSpec

-----------------------------------------------------------------------------
(***************************************************************************)
(* The reports, for every file whose offsets are known.                    *)
(***************************************************************************)
(* The reference is defined at every place of the file. *)
LEMMA StateAfterFacts ==
  ASSUME PacketTypeOK, NEW d \in 0..NSubsets-1
  PROVE  /\ StateAfter(d)[0] = 0
         /\ \A k \in 0..Len(input) : StateAfter(d)[k] \in K!State
         /\ \A k \in 1..Len(input) :
              StateAfter(d)[k] =
                Delta[d][<<IF (k - 1) % packet_size = 0 THEN 0 ELSE StateAfter(d)[k-1], input[k]>>]
<1> DEFINE N == Len(input)
           Before(k, q) == IF (k - 1) % packet_size = 0 THEN 0 ELSE q
           Step(k, q) == Delta[d][<<Before(k, q), input[k]>>]
           After(w) == [k \in 0..N |-> IF k = 0 THEN 0 ELSE Step(k, w[k-1])]
<1>1. N \in Nat /\ \A k \in 1..N : input[k] \in Byte
  BY LenProperties, ElementOfSeq DEF PacketTypeOK
<1>2. 0 \in K!State
  BY AutomataAssumption DEF K!KernelAssumption, K!State
<1>3. \A k \in 1..N, q \in K!State : Step(k, q) \in K!State
  <2>1. SUFFICES ASSUME NEW k \in 1..N, NEW q \in K!State PROVE Step(k, q) \in K!State
    OBVIOUS
  <2>2. Before(k, q) \in K!State
    BY <1>2
  <2> HIDE DEF Before
  <2> QED BY <1>1, <2>2, AutomataAssumption DEF K!KernelAssumption
<1> HIDE DEF Step
<1>4. \E w : w = After(w)
  <2> DEFINE F == [k \in 1..N |-> [q \in K!State |-> Step(k, q)]]
  <2>1. StaysIn(F, N, K!State)
    BY <1>3 DEF StaysIn
  <2>2. \A k \in 1..N : F[k] = [q \in K!State |-> Step(k, q)]
    OBVIOUS
  <2> HIDE DEF F, N
  <2>3. PICK w \in [0..N -> K!State] : IsRecursion(w, 0, F, N)
    BY <1>1, <1>2, <2>1, RecursionExists
  <2> USE DEF IsRecursion
  <2>4. ASSUME NEW k \in 0..N PROVE w[k] = IF k = 0 THEN 0 ELSE Step(k, w[k-1])
    <3>1. CASE k = 0
      BY <2>3, <3>1
    <3>2. CASE k # 0
      <4>1. k \in 1..N /\ k - 1 \in 0..N
        BY <1>1, <3>2
      <4>2. w[k-1] \in K!State /\ w[k] = F[k][w[k-1]] /\ F[k] = [q \in K!State |-> Step(k, q)]
        BY <2>2, <2>3, <4>1
      <4> QED BY <3>2, <4>2
    <3> QED BY <3>1, <3>2
  <2>5. w = [k \in 0..N |-> w[k]]
    BY <2>3
  <2>6. w = After(w)
    BY <2>4, <2>5
  <2> QED BY <2>6
<1>5. StateAfter(d) = After(StateAfter(d))
  BY <1>4 DEF StateAfter, Step
<1> DEFINE W == StateAfter(d)
<1> HIDE DEF W
<1>6. W = After(W)
  BY <1>5 DEF W
<1>7. W[0] = 0 /\ \A k \in 1..N : W[k] = Step(k, W[k-1])
  <2>1. 0 \in 0..N /\ \A k \in 1..N : k \in 0..N /\ k # 0
    BY <1>1
  <2> HIDE DEF N
  <2> QED BY <1>6, <2>1
<1>8. \A k \in Nat : k <= N => W[k] \in K!State
  <2> DEFINE T == {k \in Nat : k <= N => W[k] \in K!State}
  <2>1. 0 \in T
    BY <1>2, <1>7
  <2>2. ASSUME NEW k \in Nat, k \in T PROVE k + 1 \in T
    <3>1. SUFFICES ASSUME k + 1 <= N PROVE W[k+1] \in K!State
      OBVIOUS
    <3>2. k + 1 \in 1..N /\ k <= N /\ (k + 1) - 1 = k
      BY <1>1, <3>1
    <3>3. W[k] \in K!State
      BY <2>2, <3>2
    <3>4. W[k+1] = Step(k + 1, W[k])
      BY <1>7, <3>2
    <3> HIDE DEF N
    <3> QED BY <1>3, <3>2, <3>3, <3>4
  <2> HIDE DEF T
  <2>3. \A k \in Nat : k \in T
    BY <2>1, <2>2, Inductive
  <2> QED BY <2>3 DEF T
<1>9. \A k \in 0..N : W[k] \in K!State
  BY <1>1, <1>8
<1> QED BY <1>7, <1>9 DEF W, Step

(* Without padding a packet has as many bytes as its piece of the file. *)
NoPadding == padded_sizes = <<>> => \A j \in 1..Len(payload_sizes) : payload_sizes[j] = FileBytes(j)

LEMMA NoPaddingNext == PInv /\ NoPadding /\ [PacketizerNext]_packetVars => NoPadding'
<1> SUFFICES ASSUME PInv, NoPadding, [PacketizerNext]_packetVars PROVE NoPadding'
  OBVIOUS
<1> DEFINE n == Len(payload_sizes)  S == packet_size
<1>1. /\ payload_sizes \in Seq(Nat) /\ n \in Nat /\ padded_sizes \in Seq(Nat) /\ payload \in Seq(Byte)
      /\ Len(payload) \in Nat /\ Len(input) \in Nat
  BY LenProperties DEF PInv, PacketTypeOK
<1>2. input' = input /\ S' = S /\ \A j : FileBytes(j)' = FileBytes(j)
  BY DEF PacketizerNext, ReadByte, EndOfFile, packetVars, packet_size, FileBytes
<1>3. CASE UNCHANGED <<payload_sizes, padded_sizes>>
  BY <1>2, <1>3 DEF NoPadding
<1>4. ASSUME NEW p \in Seq(Byte), AddPacket(p), Len(p) = FileBytes(n + 1)
      PROVE  NoPadding'
  <2>1. SUFFICES ASSUME padded_sizes' = <<>>, NEW j \in 1..Len(payload_sizes')
                 PROVE  payload_sizes'[j] = FileBytes(j)
    BY <1>2 DEF NoPadding
  <2>2. Padding(Len(p)) = 0 /\ padded_sizes = <<>>
    <3>1. Padding(Len(p)) = 0
      <4>1. SUFFICES ASSUME Padding(Len(p)) # 0 PROVE FALSE
        OBVIOUS
      <4>2. PICK e : padded_sizes' = Append(padded_sizes, e)
        BY <1>4, <4>1 DEF AddPacket, SetPaddedBytes
      <4>3. Append(padded_sizes, e) = <<>>
        BY <2>1, <4>2
      <4>4. padded_sizes \in Seq(Nat \cup {e})
        BY <1>1
      <4>5. Append(padded_sizes, e) # <<>>
        BY <4>4, AppendProperties
      <4> QED BY <4>3, <4>5
    <3> QED BY <1>4, <2>1, <3>1 DEF AddPacket, SetPaddedBytes
  <2>3. Len(p) \in Nat
    BY LenProperties
  <2>4. payload_sizes' = Append(payload_sizes, Len(p))
    <3>1. Len(p) + 0 = Len(p)
      BY <2>3
    <3> QED BY <1>4, <2>2, <3>1 DEF AddPacket
  <2>5. CASE j = n + 1
    <3>1. payload_sizes'[n + 1] = Len(p)
      BY <1>1, <2>3, <2>4
    <3> QED BY <1>4, <2>5, <3>1
  <2>6. CASE j # n + 1
    <3>1. j \in 1..n
      BY <1>1, <2>3, <2>4, <2>6
    <3>2. payload_sizes'[j] = payload_sizes[j]
      BY <1>1, <2>3, <2>4, <3>1
    <3> QED BY <2>2, <3>1, <3>2 DEF NoPadding
  <2> QED BY <2>5, <2>6
<1>5. CASE ReadByte
  <2> DEFINE p == Append(payload, input[pos + 1])
  <2>1. CASE Len(p) = S
    <3>1. AddPacket(p)
      BY <1>5, <2>1 DEF ReadByte
    <3>2. input[pos + 1] \in Byte /\ p \in Seq(Byte) /\ pos \in Nat /\ pos < Len(input)
      <4>1. pos + 1 \in 1..Len(input) /\ input \in Seq(Byte)
        BY <1>1, <1>5 DEF PInv, PacketTypeOK, ReadByte
      <4>2. input[pos + 1] \in Byte
        BY <4>1, ElementOfSeq
      <4> QED BY <1>1, <1>5, <4>2, AppendProperties DEF PInv, PacketTypeOK, ReadByte
    <3>3. Reading /\ Len(p) = Len(payload) + 1
      BY <1>1, <1>5 DEF PInv, ReadByte
    <3>4. n * S \in Nat /\ S \in Nat /\ pos = n * S + Len(payload) /\ S = Len(payload) + 1
      BY <1>1, <2>1, <3>3, FillFacts, <1>5 DEF PInv, ReadByte
    <3>5. (n + 1) * S = n * S + S
      BY <1>1, <3>4
    <3>6. (n + 1) * S <= Len(input)
      <4> DEFINE b == n * S  e == (n + 1) * S
      <4>1. b \in Nat /\ pos = b + Len(payload) /\ e = b + S
        BY <3>4, <3>5
      <4> HIDE DEF b, e
      <4>2. e <= Len(input)
        BY <1>1, <3>2, <3>4, <4>1
      <4> QED BY <4>2 DEF e
    <3>7. FileBytes(n + 1) = S
      BY <3>6 DEF FileBytes
    <3> HIDE DEF p
    <3> QED BY <1>4, <2>1, <3>1, <3>2, <3>7
  <2>2. CASE Len(p) # S
    BY <1>3, <1>5, <2>2 DEF ReadByte
  <2> QED BY <2>1, <2>2
<1>6. CASE EndOfFile
  <2>1. CASE 0 < Len(payload) /\ Len(payload) < S
    <3>1. AddPacket(payload) /\ Reading /\ pos = Len(input)
      BY <1>6, <2>1 DEF EndOfFile, PInv
    <3>2. n * S \in Nat /\ S \in Nat /\ pos = n * S + Len(payload)
      BY <1>1, <3>1, FillFacts, <1>6 DEF PInv, EndOfFile
    <3>3. (n + 1) * S = n * S + S
      BY <1>1, <3>2
    <3>4. ~((n + 1) * S <= Len(input)) /\ Len(input) - ((n + 1) - 1) * S = Len(payload)
      <4> DEFINE b == n * S  e == (n + 1) * S
      <4>1. (n + 1) - 1 = n
        BY <1>1
      <4>2. b \in Nat /\ Len(input) = b + Len(payload) /\ e = b + S
        BY <3>1, <3>2, <3>3
      <4> HIDE DEF b, e
      <4>3. ~(e <= Len(input)) /\ Len(input) - b = Len(payload)
        BY <1>1, <2>1, <3>2, <4>2
      <4> QED BY <4>1, <4>3 DEF b, e
    <3>5. FileBytes(n + 1) = Len(payload)
      BY <3>4 DEF FileBytes
    <3> QED BY <1>1, <1>4, <3>1, <3>5
  <2>2. CASE ~(0 < Len(payload) /\ Len(payload) < S)
    BY <1>3, <1>6, <2>2 DEF EndOfFile
  <2> QED BY <2>1, <2>2
<1> QED BY <1>3, <1>5, <1>6 DEF PacketizerNext, packetVars

-----------------------------------------------------------------------------
(* What is fixed when the kernel runs on a file whose offsets are known. *)
Stored ==
  /\ InputInv /\ NoPadding /\ OffsetsKnown
  /\ ~reading /\ payload_sizes # <<>>

(* where byte p of packet b is in the file, both counted from 0, and the   *)
(* place counted from 1                                                    *)
Place(b, p) == b * payload_sizes[1] + p + 1

(* Then a byte of a packet is the byte of the file at its place, and the   *)
(* reference is restarted where a packet begins.                           *)
LEMMA FileIsStored ==
  ASSUME Stored, NEW b \in 0..Len(payload_sizes)-1, NEW p \in 0..payload_sizes[b+1]-1
  PROVE  /\ Place(b, p) \in Nat \ {0} /\ b * payload_sizes[1] \in Nat
         /\ Place(b, p) <= Len(input) =>
              /\ payloads[Place(b, p)] = input[Place(b, p)]
              /\ (Place(b, p) - 1) % packet_size = 0 <=> p = 0
<1> DEFINE n == Len(payload_sizes)  S == packet_size  s1 == payload_sizes[1]  N == Len(input)
<1>1. /\ PacketTypeOK /\ LayoutOK /\ Finished /\ N > 0 /\ NoPadding /\ OffsetsKnown /\ HasPiece(b + 1)
      /\ \A j \in 1..n : HasPiece(j)
  <2>1. PInv /\ Finished /\ Len(input) > 0 /\ NoPadding /\ OffsetsKnown
    BY DEF Stored, InputInv, PInv
  <2>2. b + 1 \in 1..n
    BY <2>1, LenProperties DEF PInv, PacketTypeOK
  <2> QED BY <2>1, <2>2 DEF PInv
<1>2. /\ N \in Nat \ {0} /\ n \in Nat \ {0} /\ b + 1 \in 1..n /\ 1 \in 1..n
  BY <1>1, LenProperties, EmptySeq DEF PacketTypeOK, Stored
<1>3. S \in 1..s1 /\ S \in Nat \ {0} /\ s1 \in Nat \ {0}
  <2>1. S \in 1..s1
    BY FirstPacketIsFull DEF Stored
  <2>2. s1 \in Nat
    BY <1>1, <1>2, ElementOfSeq DEF PacketTypeOK
  <2> QED BY <2>1, <2>2
<1>4. S <= N
  BY <1>2, PacketSizeAtMost DEF packet_size
<1>5. payload_sizes[b+1] \in Nat /\ p \in Nat /\ p < payload_sizes[b+1] /\ b \in Nat
  <2>1. payload_sizes[b+1] \in Nat
    BY <1>1, <1>2, ElementOfSeq DEF PacketTypeOK
  <2> QED BY <1>2, <2>1
<1>6. b * s1 \in Nat
  BY <1>3, <1>5, ProductGrows
<1>7. Place(b, p) \in Nat \ {0} /\ Place(b, p) - 1 = b * s1 + p /\ Place(b, p) = b * s1 + (p + 1)
  <2> DEFINE e == b * s1
  <2>1. e \in Nat /\ Place(b, p) = e + p + 1
    BY <1>6 DEF Place
  <2> HIDE DEF e
  <2>2. Place(b, p) \in Nat \ {0} /\ Place(b, p) - 1 = e + p /\ Place(b, p) = e + (p + 1)
    BY <1>5, <2>1
  <2> QED BY <2>2 DEF e
<1>8. \A k \in 1..payload_sizes[b+1] :
        payloads[b * s1 + k] = IF k <= FileBytes(b + 1) THEN input[b * S + k] ELSE 0
  <2>1. (b + 1) - 1 = b
    BY <1>5
  <2> QED BY <1>1, <2>1 DEF HasPiece
<1>9. p + 1 \in 1..payload_sizes[b+1]
  BY <1>5
<1>10. FileBytes(1) = S
  <2>1. 1 * S = S
    BY <1>3
  <2> QED BY <1>4, <2>1 DEF FileBytes
<1>11. CASE padded_sizes = <<>>
  <2>1. s1 = S /\ payload_sizes[b+1] = FileBytes(b + 1)
    BY <1>1, <1>2, <1>10, <1>11 DEF NoPadding
  <2>2. payload_sizes[b+1] <= s1
    BY <1>1, <1>2 DEF LayoutOK
  <2>3. payloads[Place(b, p)] = input[Place(b, p)]
    BY <1>5, <1>7, <1>8, <1>9, <2>1
  <2>4. p \in 0..S-1
    BY <1>3, <1>5, <2>1, <2>2
  <2>5. (b * S + p) % S = p
    <3> DEFINE a == b * S + p
    <3>1. a \in Nat /\ a = p + S * b
      BY <1>3, <1>5, <1>6, <2>1
    <3> HIDE DEF a
    <3>2. a \div S \in Nat /\ a % S \in 0..S-1 /\ a = S * (a \div S) + (a % S)
      BY <1>3, <3>1, DivMod
    <3> DEFINE q == a \div S  r == a % S
    <3> HIDE DEF q, r
    <3>3. q \in Nat /\ r \in 0..S-1 /\ p + S * b = r + S * q
      <4>1. S * q \in Nat
        BY <1>3, <3>1, RoundedDown DEF q
      <4> QED BY <3>1, <3>2, <4>1 DEF q, r
    <3>4. p = r
      BY <1>3, <1>5, <2>4, <3>3, DigitsUnique
    <3> QED BY <3>4 DEF r, a
  <2> QED BY <1>6, <1>7, <2>1, <2>3, <2>5
<1>12. CASE Len(payload_sizes) = 1
  <2>1. b = 0 /\ b * s1 = 0 /\ b * S = 0
    BY <1>2, <1>3, <1>5, <1>12
  <2>2. N <= S
    <3>1. 1 * S >= N
      BY <1>1, <1>12 DEF Finished
    <3> QED BY <1>2, <1>3, <3>1
  <2>3. S = N
    BY <1>2, <1>3, <1>4, <2>2
  <2>4. Place(b, p) = p + 1
    BY <1>5, <1>7, <2>1
  <2>5. ASSUME Place(b, p) <= N
        PROVE  /\ payloads[Place(b, p)] = input[Place(b, p)]
               /\ (Place(b, p) - 1) % S = 0 <=> p = 0
    <3>1. p + 1 <= S
      BY <2>3, <2>4, <2>5
    <3>2. FileBytes(b + 1) = S
      BY <1>10, <2>1
    <3>3. payloads[b * s1 + (p + 1)] = input[b * S + (p + 1)]
      BY <1>8, <1>9, <3>1, <3>2
    <3>4. 0 + (p + 1) = p + 1
      BY <1>5
    <3>5. payloads[Place(b, p)] = input[Place(b, p)]
      BY <2>1, <2>4, <3>3, <3>4
    <3>6. Place(b, p) - 1 = p /\ p % S = p
      <4>1. p \in 0..S-1
        BY <1>3, <1>5, <3>1
      <4>2. p % S = p
        BY <1>3, <4>1
      <4> QED BY <1>5, <2>4, <4>2
    <3> QED BY <3>5, <3>6
  <2> QED BY <1>6, <1>7, <2>5
<1> QED BY <1>1, <1>11, <1>12 DEF OffsetsKnown


(* After a byte a thread is where the reference is. *)
AtPlace(d, b, p, s) ==
  /\ p = 0 => s = 0
  /\ p > 0 /\ Place(b, p - 1) <= Len(input) => s = StateAfter(d)[Place(b, p - 1)]

LEMMA ByteFollows ==
  ASSUME Stored, NEW b \in 0..Len(payload_sizes)-1, NEW p \in 0..payload_sizes[b+1]-1,
         NEW d \in 0..NSubsets-1, NEW s \in K!State, AtPlace(d, b, p, s), Place(b, p) <= Len(input)
  PROVE  Delta[d][<<s, payloads[Place(b, p)]>>] = StateAfter(d)[Place(b, p)]
<1> DEFINE k == Place(b, p)
<1>1. /\ k \in Nat \ {0} /\ b * payload_sizes[1] \in Nat
      /\ payloads[k] = input[k] /\ ((k - 1) % packet_size = 0 <=> p = 0)
  BY FileIsStored
<1>2. PacketTypeOK /\ Len(input) \in Nat
  BY LenProperties DEF Stored, InputInv, PInv, PacketTypeOK
<1>3. k \in 1..Len(input)
  BY <1>1, <1>2
<1>4. StateAfter(d)[k]
        = Delta[d][<<IF (k - 1) % packet_size = 0 THEN 0 ELSE StateAfter(d)[k-1], input[k]>>]
  BY <1>2, <1>3, StateAfterFacts
<1>5. s = IF (k - 1) % packet_size = 0 THEN 0 ELSE StateAfter(d)[k-1]
  <2>1. CASE p = 0
    BY <1>1, <2>1 DEF AtPlace
  <2>2. CASE p # 0
    <3>1. p \in Nat /\ p > 0
      <4>1. payload_sizes[b+1] \in Int
        BY <1>2, LenProperties, ElementOfSeq DEF PacketTypeOK, Stored
      <4> QED BY <2>2, <4>1
    <3>2. Place(b, p - 1) = k - 1
      <4> DEFINE e == b * payload_sizes[1]
      <4>1. e \in Nat /\ Place(b, p - 1) = e + (p - 1) + 1 /\ k = e + p + 1
        BY <1>1 DEF Place
      <4> HIDE DEF e, k
      <4> QED BY <3>1, <4>1
    <3>3. k - 1 <= Len(input)
      BY <1>2, <1>3
    <3> QED BY <1>1, <2>2, <3>1, <3>2, <3>3 DEF AtPlace
  <2> QED BY <2>1, <2>2
<1> HIDE DEF k
<1>6. Delta[d][<<s, payloads[k]>>] = StateAfter(d)[k]
  BY <1>1, <1>4, <1>5
<1> QED BY <1>6 DEF k

-----------------------------------------------------------------------------
(* A list of matches that are found in order. *)
OffsetsIncrease(f) == \A i, j \in 1..Len(f) : i < j => f[i].off < f[j].off

Below(f, p) == \A i \in 1..Len(f) : f[i].off \in Nat /\ f[i].off < p

LEMMA OneMore ==
  ASSUME NEW M, NEW f \in Seq(M), NEW p \in Int, OffsetsIncrease(f), Below(f, p), NEW e \in M, e.off = p
  PROVE  /\ Append(f, e) \in Seq(M) /\ Len(Append(f, e)) = Len(f) + 1 /\ Append(f, e)[Len(f) + 1] = e
         /\ \A i \in 1..Len(f) : Append(f, e)[i] = f[i]
         /\ OffsetsIncrease(Append(f, e))
<1> DEFINE g == Append(f, e)  n == Len(f)
<1>1. /\ n \in Nat /\ g \in Seq(M) /\ Len(g) = n + 1 /\ g[n + 1] = e
      /\ \A i \in 1..n : g[i] = f[i]
  BY LenProperties, AppendProperties
<1> HIDE DEF g
<1>2. ASSUME NEW i \in 1..n+1, NEW j \in 1..n+1, i < j PROVE g[i].off < g[j].off
  <2>1. i \in 1..n
    BY <1>1, <1>2
  <2>2. CASE j = n + 1
    BY <1>1, <2>1, <2>2 DEF Below
  <2>3. CASE j # n + 1
    <3>1. j \in 1..n
      BY <1>1, <2>3
    <3> HIDE DEF n
    <3> QED BY <1>1, <1>2, <2>1, <3>1 DEF OffsetsIncrease, n
  <2> QED BY <2>2, <2>3
<1>3. OffsetsIncrease(g)
  BY <1>1, <1>2 DEF OffsetsIncrease
<1> QED BY <1>1, <1>3 DEF g, n

(* The matches of packet b that DFA d has found in its first p bytes: those *)
(* of the reference, in order, and perhaps others behind the file.         *)
FoundSoFar(d, b, p, f) ==
  /\ f \in Seq([off : Nat, stat : K!State]) /\ OffsetsIncrease(f)
  /\ \A i \in 1..Len(f) :
       /\ f[i].off < p
       /\ Place(b, f[i].off) <= Len(input) =>
            f[i].stat = StateAfter(d)[Place(b, f[i].off)] /\ f[i].stat \in Accept[d]
  /\ \A k \in 0..p-1 :
       Place(b, k) <= Len(input) /\ StateAfter(d)[Place(b, k)] \in Accept[d] =>
         \E i \in 1..Len(f) : f[i].off = k

(* One more byte, with or without a match. *)
LEMMA ByteFound ==
  ASSUME NEW d, NEW b, NEW p \in Nat, NEW f, NEW u \in K!State, FoundSoFar(d, b, p, f),
         Place(b, p) <= Len(input) => u = StateAfter(d)[Place(b, p)]
  PROVE  /\ u \in Accept[d] => FoundSoFar(d, b, p + 1, Append(f, [off |-> p, stat |-> u]))
         /\ u \notin Accept[d] => FoundSoFar(d, b, p + 1, f)
<1> DEFINE M == [off : Nat, stat : K!State]  e == [off |-> p, stat |-> u]  g == Append(f, e)  n == Len(f)
<1>1. f \in Seq(M) /\ n \in Nat /\ OffsetsIncrease(f) /\ e \in M /\ e.off = p /\ e.stat = u
  <2>1. f \in Seq(M) /\ OffsetsIncrease(f)
    BY Zenon DEF FoundSoFar
  <2>2. e \in M /\ e.off = p /\ e.stat = u
    OBVIOUS
  <2> HIDE DEF M, e
  <2> QED BY <2>1, <2>2, LenProperties
<1>2. \A i \in 1..n : f[i] \in M /\ f[i].off < p /\ f[i].off \in Nat
  <2>1. \A m \in M : m.off \in Nat
    OBVIOUS
  <2>2. \A i \in 1..n : f[i].off < p
    BY DEF FoundSoFar
  <2> HIDE DEF M
  <2>3. \A i \in 1..n : f[i] \in M
    BY <1>1, ElementOfSeq
  <2> QED BY <2>1, <2>2, <2>3
<1> HIDE DEF M, e
<1>3. \A k \in 0..(p + 1) - 1 : k \in 0..p-1 \/ k = p
  OBVIOUS
<1>4. ASSUME u \in Accept[d] PROVE FoundSoFar(d, b, p + 1, g)
  <2>1. /\ g \in Seq(M) /\ Len(g) = n + 1 /\ g[n + 1] = e /\ OffsetsIncrease(g)
        /\ \A i \in 1..n : g[i] = f[i]
    <3>1. Below(f, p)
      BY <1>2 DEF Below
    <3> QED BY <1>1, <3>1, OneMore
  <2> HIDE DEF g
  <2>2. ASSUME NEW i \in 1..Len(g)
        PROVE  /\ g[i].off < p + 1
               /\ Place(b, g[i].off) <= Len(input) =>
                    g[i].stat = StateAfter(d)[Place(b, g[i].off)] /\ g[i].stat \in Accept[d]
    <3>1. CASE i = n + 1
      BY <1>1, <1>4, <2>1, <3>1
    <3>2. CASE i # n + 1
      <4>1. i \in 1..n
        BY <1>1, <2>1, <3>2
      <4>2. g[i] = f[i] /\ f[i].off < p /\ f[i].off \in Nat
        BY <1>2, <2>1, <4>1
      <4>3. Place(b, f[i].off) <= Len(input) =>
              f[i].stat = StateAfter(d)[Place(b, f[i].off)] /\ f[i].stat \in Accept[d]
        BY <4>1 DEF FoundSoFar
      <4>4. f[i].off < p + 1
        BY <4>2
      <4> QED BY <4>2, <4>3, <4>4
    <3> QED BY <3>1, <3>2
  <2>3. ASSUME NEW k \in 0..(p + 1) - 1, Place(b, k) <= Len(input), StateAfter(d)[Place(b, k)] \in Accept[d]
        PROVE  \E i \in 1..Len(g) : g[i].off = k
    <3>1. CASE k = p
      <4>1. n + 1 \in 1..Len(g)
        BY <1>1, <2>1
      <4> QED BY <1>1, <2>1, <3>1, <4>1
    <3>2. CASE k \in 0..p-1
      <4>1. PICK i \in 1..n : f[i].off = k
        BY <2>3, <3>2 DEF FoundSoFar
      <4>2. i \in 1..Len(g)
        BY <1>1, <2>1
      <4> QED BY <2>1, <4>1, <4>2
    <3> QED BY <1>3, <3>1, <3>2
  <2> QED BY <2>1, <2>2, <2>3 DEF FoundSoFar, M
<1>5. ASSUME u \notin Accept[d] PROVE FoundSoFar(d, b, p + 1, f)
  <2>1. ASSUME NEW k \in 0..(p + 1) - 1, Place(b, k) <= Len(input), StateAfter(d)[Place(b, k)] \in Accept[d]
        PROVE  \E i \in 1..Len(f) : f[i].off = k
    <3>1. k # p
      BY <1>5, <2>1
    <3> QED BY <1>3, <2>1, <3>1 DEF FoundSoFar
  <2>2. \A i \in 1..n : f[i].off < p + 1
    BY <1>2
  <2> QED BY <1>1, <2>1, <2>2 DEF FoundSoFar, M
<1> QED BY <1>4, <1>5 DEF g, e


-----------------------------------------------------------------------------
(* Every thread is where the reference is, and has found what it finds. *)
ThreadRight(t) ==
  /\ AtPlace(KP!DfaId(t), t.bx, thr[t].p, thr[t].state)
  /\ FoundSoFar(KP!DfaId(t), t.bx, thr[t].p, KP!FoundBy(t))

ThreadsRight == \A t \in KP!Threads : KP!Working(t) => ThreadRight(t)

(* The reference depends on the file only. *)
LEMMA SameReference ==
  ASSUME UNCHANGED packetVars
  PROVE  /\ \A d : StateAfter(d)' = StateAfter(d) /\ FileMatches(d)' = FileMatches(d)
         /\ \A b, p : Place(b, p)' = Place(b, p)
         /\ Len(input)' = Len(input)
<1>1. input' = input /\ payload_sizes' = payload_sizes /\ packet_size' = packet_size
  BY DEF packetVars, packet_size
<1>2. \A d : StateAfter(d)' = StateAfter(d)
  BY <1>1 DEF StateAfter
<1>3. \A d : FileMatches(d)' = FileMatches(d)
  BY <1>1, <1>2 DEF FileMatches
<1> QED BY <1>1, <1>2, <1>3 DEF Place

LEMMA RightAfter ==
  ASSUME UNCHANGED packetVars, NEW t, NEW d, NEW p, NEW s, NEW f,
         KP!DfaId(t)' = d, thr'[t].p = p, thr'[t].state = s, KP!FoundBy(t)' = f,
         AtPlace(d, t.bx, p, s), FoundSoFar(d, t.bx, p, f)
  PROVE  ThreadRight(t)'
<1>1. AtPlace(KP!DfaId(t), t.bx, thr[t].p, thr[t].state)'
  BY SameReference DEF AtPlace
<1>2. FoundSoFar(KP!DfaId(t), t.bx, thr[t].p, KP!FoundBy(t))'
  BY SameReference DEF FoundSoFar, OffsetsIncrease
<1> QED BY <1>1, <1>2 DEF ThreadRight

(* Without padding the packets are full, and threads begin at their packets. *)
LEMMA PacketsUnpadded ==
  ASSUME Stored, padded_sizes = <<>>
  PROVE  payload_sizes[1] = packet_size
<1>1. packet_size \in 1..payload_sizes[1] /\ PacketTypeOK /\ NoPadding /\ Len(input) > 0
  BY FirstPacketIsFull DEF Stored, InputInv, PInv
<1>2. 1 \in 1..Len(payload_sizes) /\ Len(input) \in Nat
  BY <1>1, LenProperties, EmptySeq DEF PacketTypeOK, Stored
<1>3. packet_size \in Nat /\ packet_size <= Len(input)
  BY <1>2, PacketSizeFacts, PacketSizeAtMost DEF packet_size
<1>4. FileBytes(1) = packet_size
  <2>1. 1 * packet_size = packet_size
    BY <1>3
  <2> QED BY <1>3, <2>1 DEF FileBytes
<1> QED BY <1>1, <1>2, <1>4 DEF NoPadding

LEMMA StartsAtPacket ==
  ASSUME Stored, KP!LaunchOK, NEW t \in KP!Threads
  PROVE  KP!InputStart(t) = t.bx * payload_sizes[1]
<1>1. CASE padded_sizes = <<>>
  BY <1>1, PacketsUnpadded, SameAssumption, KP!StartOfPacket DEF KP!Aligned
<1>2. CASE Len(payload_sizes) = 1
  <2>1. t.bx = 0 /\ payload_sizes[1] \in Nat
    <3>1. t.bx \in 0..KP!GridX-1 /\ payload_sizes[1] \in Nat
      BY SameAssumption, KP!ThreadFacts
    <3> QED BY <1>2, <3>1 DEF KP!GridX
  <2>2. packet_size \in Nat
    BY FirstPacketIsFull DEF Stored
  <2>3. packet_size * t.bx = 0 /\ t.bx * payload_sizes[1] = 0
    BY <2>1, <2>2
  <2>4. 0 \div FetchBytes = 0 /\ FetchBytes * 0 = 0
    BY PacketizerAssumption
  <2> QED BY <2>3, <2>4 DEF KP!InputStart
<1> QED BY <1>1, <1>2 DEF Stored, OffsetsKnown

(* A thread's next byte is the byte at its place in the file. *)
LEMMA ThreadByteRight ==
  ASSUME Stored, KP!KInv, K!NarrowEnough, K!ZeroRejects, ThreadsRight, UNCHANGED packetVars,
         NEW t \in KP!Threads, KP!ScanByte(t)
  PROVE  ThreadRight(t)'
<1> DEFINE d == KP!DfaId(t)  b == t.bx  p == thr[t].p  f == KP!FoundBy(t)  s == thr[t].state
           u == KP!NextState(t)  e == [off |-> p, stat |-> u]
<1>1. /\ KP!Working(t) /\ p < payload_sizes[b+1] /\ u \in KP!State /\ UNCHANGED KP!hostVars
  BY SameAssumption, KP!ScanByteFacts
<1>2. /\ KP!LaunchOK /\ thr[t] \in KP!Locals
  BY SameAssumption, KP!TypeParts DEF KP!KInv
<1>3. /\ p \in Nat /\ s \in K!State /\ u \in K!State
  BY <1>1, <1>2 DEF KP!Locals, KP!State, K!State
<1>4. d \in 0..NSubsets-1 /\ b \in 0..Len(payload_sizes)-1 /\ payload_sizes[b+1] \in Nat
  BY <1>1, <1>2, SameAssumption, KP!ThreadFacts, KP!SlotInBounds DEF KP!GridX
<1>5. AtPlace(d, b, p, s) /\ FoundSoFar(d, b, p, f)
  BY <1>1 DEF ThreadsRight, ThreadRight
<1>6. u = Delta[d][<<s, payloads[Place(b, p)]>>]
  BY <1>2, StartsAtPacket DEF KP!NextState, Place
<1>7. /\ thr'[t].p = p + 1 /\ thr'[t].state = u
      /\ KP!FoundBy(t)' = IF u \in Accept[d] THEN Append(f, e) ELSE f
  <2>1. KP!NarrowEnough /\ KP!ZeroRejects
    BY DEF K!NarrowEnough, KP!NarrowEnough, K!ZeroRejects, KP!ZeroRejects
  <2> QED BY <2>1, SameAssumption, KP!OwnMatches
<1>8. KP!DfaId(t)' = d
  BY <1>1, SameAssumption, KP!HostUnchanged
<1> HIDE DEF d, b, p, f, s, u
<1>9. Place(b, p) <= Len(input) => u = StateAfter(d)[Place(b, p)]
  <2>1. p \in 0..payload_sizes[b+1]-1
    BY <1>1, <1>3, <1>4
  <2> QED BY <1>3, <1>4, <1>5, <1>6, <2>1, ByteFollows
<1>10. FoundSoFar(d, b, p + 1, IF u \in Accept[d] THEN Append(f, e) ELSE f)
  BY <1>3, <1>5, <1>9, ByteFound
<1>11. AtPlace(d, b, p + 1, u)
  <2>1. (p + 1) - 1 = p /\ p + 1 # 0
    BY <1>3
  <2> QED BY <1>9, <2>1 DEF AtPlace
<1> QED BY <1>7, <1>8, <1>10, <1>11, RightAfter DEF b

(* The other threads stay where they are. *)
LEMMA ThreadsRightNext ==
  ASSUME Stored, KP!KInv, K!NarrowEnough, K!ZeroRejects, ThreadsRight, UNCHANGED packetVars,
         KP!KernelNext
  PROVE  ThreadsRight'
<1>1. PICK t \in KP!Threads : KP!ThreadStep(t)
  BY DEF KP!KernelNext
<1>2. /\ UNCHANGED KP!hostVars /\ thr \in [KP!Threads -> KP!Locals] /\ thr[t] \in KP!Locals
      /\ KP!NarrowEnough
  BY <1>1, SameAssumption, KP!TypeParts
     DEF KP!ThreadStep, KP!Return, KP!ScanByte, KP!Finish, KP!KInv, K!NarrowEnough, KP!NarrowEnough
<1>3. /\ KP!Threads' = KP!Threads
      /\ \A q : (KP!Working(q)' <=> KP!Working(q)) /\ KP!DfaId(q)' = KP!DfaId(q)
      /\ \A q, n : KP!MatchAddress(q, n)' = KP!MatchAddress(q, n)
  BY <1>2, SameAssumption, KP!HostUnchanged
<1>4. ASSUME NEW q \in KP!Threads, KP!Working(q) PROVE ThreadRight(q)'
  <2>1. ThreadRight(q)
    BY <1>4 DEF ThreadsRight
  <2>2. ASSUME thr'[q].p = thr[q].p, thr'[q].state = thr[q].state, KP!FoundBy(q)' = KP!FoundBy(q)
        PROVE  ThreadRight(q)'
    BY <1>3, <2>1, <2>2, RightAfter DEF ThreadRight
  <2>3. CASE KP!ScanByte(t) /\ q = t
    BY <2>3, ThreadByteRight
  <2>4. CASE KP!ScanByte(t) /\ q # t
    BY <1>2, <1>4, <2>2, <2>4, SameAssumption, KP!OthersKeepMatches
  <2>5. CASE KP!Return(t) \/ KP!Finish(t)
    <3>1. thr' = [thr EXCEPT ![t] = [thr[t] EXCEPT !.pc = "exit"]] /\ match_array' = match_array
      BY <2>5 DEF KP!Return, KP!Finish
    <3>2. /\ thr'[q].p = thr[q].p /\ thr'[q].state = thr[q].state /\ thr'[q].cnt = thr[q].cnt
      <4>1. [thr[t] EXCEPT !.pc = "exit"]
              = [pc |-> "exit", p |-> thr[t].p, cnt |-> thr[t].cnt, state |-> thr[t].state]
        BY <1>2, SameAssumption, KP!ExitUpdate
      <4>2. CASE q = t
        BY <1>2, <3>1, <4>1, <4>2
      <4>3. CASE q # t
        BY <1>2, <3>1, <4>3
      <4> QED BY <4>2, <4>3
    <3>3. KP!FoundBy(q)' = KP!FoundBy(q)
      BY <1>3, <3>1, <3>2 DEF KP!FoundBy
    <3> QED BY <2>2, <3>2, <3>3
  <2> QED BY <1>1, <2>3, <2>4, <2>5 DEF KP!ThreadStep
<1> QED BY <1>3, <1>4 DEF ThreadsRight

(* At the launch nothing has been read and found. *)
LEMMA ThreadsRightInit ==
  ASSUME thr = [t \in KP!Threads |-> KP!Started]
  PROVE  ThreadsRight
<1> SUFFICES ASSUME NEW t \in KP!Threads PROVE ThreadRight(t)
  BY DEF ThreadsRight
<1>1. thr[t].p = 0 /\ thr[t].state = 0 /\ thr[t].cnt = 0
  BY DEF KP!Started
<1>2. KP!FoundBy(t) = <<>>
  BY <1>1 DEF KP!FoundBy
<1>3. <<>> \in Seq([off : Nat, stat : K!State]) /\ Len(<<>>) = 0
  BY EmptySeq
<1>4. FoundSoFar(KP!DfaId(t), t.bx, 0, <<>>)
  BY <1>3 DEF FoundSoFar, OffsetsIncrease
<1>5. AtPlace(KP!DfaId(t), t.bx, 0, 0)
  BY DEF AtPlace
<1> QED BY <1>1, <1>2, <1>4, <1>5 DEF ThreadRight

-----------------------------------------------------------------------------
(* What mapping_states2rules writes for the matches of a packet.           *)
RulesOfState(d, s) == {r + RuleStart(d) : r \in States2Rules[d][s]}

Entries(d) == {[off |-> o, rules |-> RulesOfState(d, s)] : o \in Nat, s \in K!State}

EntriesOf(d, j, f) ==
  [i \in 1..Len(f) |-> [off |-> j * payload_sizes[1] + f[i].off, rules |-> RulesOfState(d, f[i].stat)]]

(* The first j packets are reported: in order, only what the reference     *)
(* finds in the file, and all of that.                                     *)
ReportUpTo(d, j, r) ==
  /\ r \in Seq(Entries(d)) /\ OffsetsIncrease(r) /\ Below(r, j * payload_sizes[1])
  /\ \A i \in 1..Len(r) : r[i].off < Len(input) => r[i] \in FileMatches(d)
  /\ \A e \in FileMatches(d) : e.off < j * payload_sizes[1] => \E i \in 1..Len(r) : r[i] = e

(* The packets reach to the end of the file. *)
LEMMA LastPacketEnds ==
  ASSUME Stored
  PROVE  LET n == Len(payload_sizes) IN
         /\ n \in Nat \ {0} /\ payload_sizes[1] \in Nat \ {0} /\ Len(input) \in Nat
         /\ \A j \in 1..n : payload_sizes[j] \in Nat /\ payload_sizes[j] <= payload_sizes[1]
         /\ \A j \in 1..n-1 : payload_sizes[j] = payload_sizes[1]
         /\ Len(input) <= (n - 1) * payload_sizes[1] + payload_sizes[n]
<1> DEFINE n == Len(payload_sizes)  s1 == payload_sizes[1]  N == Len(input)  S == packet_size
<1>1. PacketTypeOK /\ LayoutOK /\ Finished /\ NoPadding /\ OffsetsKnown
  BY DEF Stored, InputInv, PInv
<1>2. n \in Nat \ {0} /\ N \in Nat
  BY <1>1, LenProperties, EmptySeq DEF PacketTypeOK, Stored
<1>3. \A j \in 1..n : payload_sizes[j] \in Nat /\ payload_sizes[j] > 0 /\ payload_sizes[j] <= s1
  BY <1>1, ElementOfSeq DEF PacketTypeOK, LayoutOK
<1>4. s1 \in Nat \ {0}
  BY <1>2, <1>3
<1>5. \A j \in 1..n-1 : payload_sizes[j] = s1
  BY <1>1, <1>2 DEF LayoutOK
<1>6. S \in 1..s1 /\ S \in Nat
  BY <1>4, FirstPacketIsFull DEF Stored
<1>7. N <= n * S
  BY <1>1, <1>2, <1>6 DEF Finished
<1>8. N <= (n - 1) * s1 + payload_sizes[n]
  <2>1. CASE padded_sizes = <<>>
    <3>1. s1 = S
      BY <2>1, PacketsUnpadded
    <3>2. payload_sizes[n] = FileBytes(n)
      BY <1>1, <1>2, <2>1 DEF NoPadding
    <3> DEFINE a == n * S  b == (n - 1) * S
    <3>3. a \in Nat /\ b \in Nat /\ a = b + S
      BY <1>2, <1>6
    <3>4. payload_sizes[n] = IF a <= N THEN S ELSE N - b
      BY <3>2 DEF FileBytes
    <3>5. N <= a /\ (n - 1) * s1 = b
      BY <1>7, <3>1
    <3> HIDE DEF a, b
    <3>6. N <= b + payload_sizes[n]
      BY <1>2, <1>6, <3>3, <3>4, <3>5
    <3> QED BY <3>5, <3>6
  <2>2. CASE n = 1
    <3>1. (n - 1) * s1 = 0 /\ n * S = S
      BY <1>4, <1>6, <2>2
    <3> QED BY <1>2, <1>4, <1>6, <1>7, <2>2, <3>1
  <2> QED BY <1>1, <2>1, <2>2 DEF OffsetsKnown
<1> QED BY <1>2, <1>3, <1>4, <1>5, <1>8

(* An entry of the reference, by its place. *)
LEMMA FileMatchFacts ==
  ASSUME Len(input) \in Nat, NEW d
  PROVE  /\ \A k \in 1..Len(input) :
              StateAfter(d)[k] \in Accept[d] =>
                [off |-> k - 1, rules |-> RulesOfState(d, StateAfter(d)[k])] \in FileMatches(d)
         /\ \A e \in FileMatches(d) :
              \E k \in 1..Len(input) :
                /\ StateAfter(d)[k] \in Accept[d]
                /\ e = [off |-> k - 1, rules |-> RulesOfState(d, StateAfter(d)[k])]
BY DEF FileMatches, RulesOfState

(* What the host copies for packet j and DFA d is what its thread found. *)
LEMMA HostReadsFound ==
  ASSUME Stored, KP!KInv, KP!CountsMatch, KP!KernelDone,
         NEW d \in 0..NSubsets-1, NEW j \in 0..Len(payload_sizes)-1, NEW pad \in PadBefore(j)
  PROVE  LET t == KP!ThreadOf(j + 1, d) IN
         /\ t \in KP!Threads /\ KP!Working(t) /\ KP!DfaId(t) = d /\ t.bx = j
         /\ thr[t].p = payload_sizes[j + 1]
         /\ PacketReport(d, j, pad) = EntriesOf(d, j, KP!FoundBy(t))
<1> DEFINE t == KP!ThreadOf(j + 1, d)  n == Len(payload_sizes)  s1 == payload_sizes[1]
           f == KP!FoundBy(t)  slot == n * d + j
<1>1. KP!LaunchOK
  BY KP!TypeParts, SameAssumption DEF KP!KInv
<1>2. n \in Nat \ {0} /\ s1 \in Nat
  BY LastPacketEnds
<1>3. j \in Nat /\ j + 1 \in 1..KP!GridX /\ (j + 1) - 1 = j /\ d \in Nat
  BY <1>2 DEF KP!GridX
<1>4. t \in KP!Threads /\ t.bx = j /\ KP!DfaId(t) = d /\ KP!Working(t)
  BY <1>1, <1>3, KP!ThreadOfFacts, SameAssumption
<1>5. thr[t].pc = "exit" /\ KP!Progress(t) /\ match_count[KP!Slot(t)] = thr[t].cnt
  BY <1>4 DEF KP!KernelDone, KP!KInv, KP!CountsMatch
<1>6. thr[t].p = payload_sizes[j + 1]
  BY <1>4, <1>5 DEF KP!Progress
<1>7. Len(f) = thr[t].cnt /\ f \in Seq([off : Nat, stat : KP!State])
  BY <1>4, KP!FoundByIsList, SameAssumption
<1>8. KP!Slot(t) = slot /\ slot \in Nat
  <2>1. n * d \in Nat /\ d * n = n * d
    BY <1>2, <1>3
  <2> DEFINE e == n * d
  <2>2. e \in Nat /\ KP!Slot(t) = j + e
    BY <1>4, <2>1 DEF KP!Slot, KP!GridX
  <2> HIDE DEF e
  <2>3. j + e = e + j /\ e + j \in Nat
    BY <1>3, <2>2
  <2> QED BY <2>2, <2>3 DEF e
<1>9. pad = 0
  <2>1. CASE padded_sizes = <<>>
    BY <2>1 DEF PadBefore
  <2>2. CASE n = 1
    <3>1. j = 0
      BY <1>3, <2>2
    <3> QED BY <3>1 DEF PadBefore
  <2> QED BY <2>1, <2>2 DEF Stored, OffsetsKnown
<1>10. ASSUME NEW i \in 1..Len(f)
       PROVE  f[i] = match_array[K!MatchVecSize * slot + i - 1] /\ f[i].off \in Nat
  <2>1. K!MatchVecSize = KP!MatchVecSize
    BY SameKernel
  <2>2. KP!MatchVecSize \in Nat
    <3>1. s1 * MatchFactor \in Nat /\ NSubsets \in Nat \ {0}
      BY <1>2, SameAssumption, ProductGrows DEF KP!KernelAssumption
    <3> QED BY <3>1, DivMod DEF KP!MatchVecSize
  <2> DEFINE v == KP!MatchVecSize * slot
  <2>3. v \in Nat
    <3> HIDE DEF slot
    <3> QED BY <1>8, <2>2
  <2>4. f[i] = match_array[KP!MatchAddress(t, i - 1)]
    BY <1>7 DEF KP!FoundBy
  <2>5. KP!MatchAddress(t, i - 1) = (i - 1) + v
    BY <1>8 DEF KP!MatchAddress
  <2>6. (i - 1) + v = v + i - 1
    <3> HIDE DEF v
    <3> QED BY <2>3, <1>7, LenProperties
  <2>7. f[i].off \in Nat
    <3> DEFINE M == [off : Nat, stat : KP!State]
    <3>1. \A m \in M : m.off \in Nat
      OBVIOUS
    <3>2. f \in Seq(M)
      BY <1>7
    <3> HIDE DEF M, f
    <3>3. f[i] \in M
      BY <3>2, ElementOfSeq
    <3> QED BY <3>1, <3>3
  <2> QED BY <2>1, <2>4, <2>5, <2>6, <2>7
<1>11. match_count[slot] = Len(f)
  BY <1>5, <1>7, <1>8
<1> HIDE DEF f
<1>12. ASSUME NEW i \in 1..Len(f)
       PROVE  (LET m == match_array[K!MatchVecSize * slot + i - 1] IN
               [off   |-> IF j = 0 THEN m.off ELSE m.off + j * s1 - pad,
                rules |-> {r + RuleStart(d) : r \in States2Rules[d][m.stat]}])
                = [off |-> j * s1 + f[i].off, rules |-> RulesOfState(d, f[i].stat)]
  <2> DEFINE a == j * s1  o == f[i].off
  <2>1. a \in Nat /\ (j = 0 => a = 0) /\ o \in Nat
    <3>1. a \in Nat
      BY <1>2, <1>3, ProductGrows
    <3>2. 0 * s1 = 0
      BY <1>2
    <3> QED BY <1>10, <3>1, <3>2
  <2> HIDE DEF a, o
  <2>2. (IF j = 0 THEN o ELSE o + a - pad) = a + o
    BY <1>9, <2>1
  <2> QED BY <1>10, <2>2 DEF RulesOfState, a, o
<1>13. PacketReport(d, j, pad) = EntriesOf(d, j, f)
  <2> DEFINE Written(i) ==
               LET m == match_array[K!MatchVecSize * slot + i - 1] IN
               [off   |-> IF j = 0 THEN m.off ELSE m.off + j * s1 - pad,
                rules |-> {r + RuleStart(d) : r \in States2Rules[d][m.stat]}]
             Found(i) == [off |-> j * s1 + f[i].off, rules |-> RulesOfState(d, f[i].stat)]
  <2>1. PacketReport(d, j, pad) = [i \in 1..match_count[slot] |-> Written(i)]
    BY DEF PacketReport
  <2>2. EntriesOf(d, j, f) = [i \in 1..Len(f) |-> Found(i)]
    BY DEF EntriesOf
  <2>3. \A i \in 1..Len(f) : Written(i) = Found(i)
    BY <1>12
  <2> HIDE DEF Written, Found
  <2> QED BY <1>11, <2>1, <2>2, <2>3
<1> QED BY <1>4, <1>6, <1>13 DEF f


(* Two lists, the second of which begins where the first one ends. *)
LEMMA OrderedConcat ==
  ASSUME NEW M, NEW f \in Seq(M), NEW g \in Seq(M), NEW a \in Nat, NEW b \in Nat, a <= b,
         OffsetsIncrease(f), Below(f, a), OffsetsIncrease(g), Below(g, b), \A i \in 1..Len(g) : a <= g[i].off
  PROVE  /\ f \o g \in Seq(M) /\ Len(f \o g) = Len(f) + Len(g)
         /\ \A i \in 1..Len(f) : i \in 1..Len(f \o g) /\ (f \o g)[i] = f[i]
         /\ \A i \in 1..Len(g) : Len(f) + i \in 1..Len(f \o g) /\ (f \o g)[Len(f) + i] = g[i]
         /\ \A i \in 1..Len(f \o g) :
              i \in 1..Len(f) \/ \E k \in 1..Len(g) : (f \o g)[i] = g[k]
         /\ OffsetsIncrease(f \o g) /\ Below(f \o g, b)
<1> DEFINE h == f \o g  m == Len(f)  n == Len(g)
<1>1. /\ h \in Seq(M) /\ m \in Nat /\ n \in Nat /\ Len(h) = m + n
      /\ \A i \in 1..m + n : h[i] = IF i <= m THEN f[i] ELSE g[i - m]
  BY ConcatProperties, LenProperties
<1> HIDE DEF h
<1>2. \A i \in 1..m : i \in 1..Len(h) /\ h[i] = f[i]
  <2> HIDE DEF m, n
  <2> QED BY <1>1
<1>3. ASSUME NEW i \in 1..n PROVE m + i \in 1..Len(h) /\ h[m + i] = g[i]
  <2> HIDE DEF m
  <2>1. m + i \in 1..m + n /\ ~(m + i <= m) /\ (m + i) - m = i
    BY <1>1
  <2> HIDE DEF n
  <2> QED BY <1>1, <2>1
<1>4. ASSUME NEW i \in 1..Len(h), i \notin 1..m PROVE i - m \in 1..n /\ h[i] = g[i - m]
  <2> HIDE DEF m, n
  <2>1. i \in 1..m + n /\ ~(i <= m)
    BY <1>1, <1>4
  <2> QED BY <1>1, <2>1
<1>5. ASSUME NEW i \in 1..Len(h), NEW j \in 1..Len(h), i < j PROVE h[i].off < h[j].off
  <2>1. CASE i \in 1..m /\ j \in 1..m
    BY <1>2, <1>5, <2>1 DEF OffsetsIncrease
  <2>2. CASE i \in 1..m /\ j \notin 1..m
    <3>1. j - m \in 1..n /\ h[j] = g[j - m] /\ h[i] = f[i]
      BY <1>2, <1>4, <2>2
    <3>2. f[i].off \in Nat /\ f[i].off < a /\ a <= g[j - m].off /\ g[j - m].off \in Nat
      BY <2>2, <3>1 DEF Below
    <3> QED BY <3>1, <3>2
  <2>3. CASE i \notin 1..m
    <3>1. j \notin 1..m
      BY <1>1, <1>5, <2>3
    <3>2. i - m \in 1..n /\ h[i] = g[i - m] /\ j - m \in 1..n /\ h[j] = g[j - m]
      BY <1>4, <2>3, <3>1
    <3>3. i - m < j - m
      BY <1>1, <1>5
    <3> QED BY <3>2, <3>3 DEF OffsetsIncrease
  <2> QED BY <2>1, <2>2, <2>3
<1>6. OffsetsIncrease(h)
  BY <1>5 DEF OffsetsIncrease
<1>7. ASSUME NEW i \in 1..Len(h) PROVE h[i].off \in Nat /\ h[i].off < b
  <2>1. CASE i \in 1..m
    <3>1. h[i] = f[i] /\ f[i].off \in Nat /\ f[i].off < a
      BY <1>2, <2>1 DEF Below
    <3> QED BY <3>1
  <2>2. CASE i \notin 1..m
    BY <1>4, <2>2 DEF Below
  <2> QED BY <2>1, <2>2
<1>8. Below(h, b)
  BY <1>7 DEF Below
<1>9. \A i \in 1..Len(h) : i \in 1..m \/ \E k \in 1..n : h[i] = g[k]
  BY <1>4
<1> QED BY <1>1, <1>2, <1>3, <1>6, <1>8, <1>9 DEF h, m, n

(* The entries of a packet: behind the packets before it, in order. *)
LEMMA EntriesInOrder ==
  ASSUME Stored, NEW j \in 0..Len(payload_sizes)-1, NEW d,
         NEW f, FoundSoFar(d, j, payload_sizes[j+1], f)
  PROVE  LET g == EntriesOf(d, j, f)
             a == j * payload_sizes[1] IN
         /\ a \in Nat /\ (j + 1) * payload_sizes[1] = a + payload_sizes[1]
         /\ Len(f) \in Nat /\ g \in Seq(Entries(d)) /\ Len(g) = Len(f)
         /\ \A i \in 1..Len(f) :
              /\ f[i].off \in Nat /\ f[i].off < payload_sizes[j+1]
              /\ g[i].off = a + f[i].off /\ g[i] = [off |-> g[i].off, rules |-> RulesOfState(d, f[i].stat)]
              /\ Place(j, f[i].off) = g[i].off + 1
         /\ OffsetsIncrease(g) /\ Below(g, a + payload_sizes[1]) /\ \A i \in 1..Len(g) : a <= g[i].off
<1> DEFINE a == j * payload_sizes[1]  g == EntriesOf(d, j, f)  M == [off : Nat, stat : K!State]
           p == payload_sizes[j+1]  s1 == payload_sizes[1]
<1>1. s1 \in Nat \ {0} /\ p \in Nat /\ p <= s1 /\ j \in Nat
  <2>1. j + 1 \in 1..Len(payload_sizes) /\ j \in Nat
    BY LastPacketEnds
  <2> QED BY <2>1, LastPacketEnds
<1>2. a \in Nat /\ (j + 1) * s1 = a + s1
  <2>1. a \in Nat
    BY <1>1, ProductGrows
  <2> HIDE DEF s1
  <2>2. (j + 1) * s1 = j * s1 + s1
    BY <1>1
  <2> QED BY <2>1, <2>2 DEF s1
<1>3. f \in Seq(M) /\ OffsetsIncrease(f) /\ \A i \in 1..Len(f) : f[i].off < p
  BY DEF FoundSoFar
<1>4. \A m \in M : m.off \in Nat /\ m.stat \in K!State
  OBVIOUS
<1> HIDE DEF M
<1>5. Len(f) \in Nat /\ \A i \in 1..Len(f) : f[i] \in M /\ f[i].off \in Nat /\ f[i].stat \in K!State
  BY <1>3, <1>4, ElementOfSeq, LenProperties
<1> HIDE DEF p, s1, a
<1>6. g = [i \in 1..Len(f) |-> [off |-> a + f[i].off, rules |-> RulesOfState(d, f[i].stat)]]
  BY DEF EntriesOf, a
<1>7. \A i \in 1..Len(f) : [off |-> a + f[i].off, rules |-> RulesOfState(d, f[i].stat)] \in Entries(d)
  BY <1>2, <1>5 DEF Entries
<1> HIDE DEF g
<1>8. g \in Seq(Entries(d)) /\ Len(g) = Len(f)
  BY <1>5, <1>6, <1>7
<1>9. ASSUME NEW i \in 1..Len(f)
      PROVE  /\ g[i].off = a + f[i].off /\ g[i] = [off |-> g[i].off, rules |-> RulesOfState(d, f[i].stat)]
             /\ Place(j, f[i].off) = g[i].off + 1
  BY <1>2, <1>5, <1>6 DEF Place, a, s1
<1>10. OffsetsIncrease(g)
  <2>1. SUFFICES ASSUME NEW i \in 1..Len(f), NEW k \in 1..Len(f), i < k PROVE g[i].off < g[k].off
    BY <1>8 DEF OffsetsIncrease
  <2>2. f[i].off < f[k].off
    BY <1>3, <2>1 DEF OffsetsIncrease
  <2>3. g[i].off = a + f[i].off /\ g[k].off = a + f[k].off
    BY <1>9
  <2> QED BY <1>2, <1>5, <2>2, <2>3
<1>11. ASSUME NEW i \in 1..Len(f) PROVE g[i].off \in Nat /\ g[i].off < a + s1 /\ a <= g[i].off
  <2> DEFINE o == f[i].off
  <2>1. o \in Nat /\ o < p /\ g[i].off = a + o
    BY <1>3, <1>5, <1>9
  <2> HIDE DEF o
  <2> QED BY <1>1, <1>2, <2>1
<1>12. Below(g, a + s1) /\ \A i \in 1..Len(g) : a <= g[i].off
  BY <1>8, <1>11 DEF Below
<1> QED BY <1>2, <1>3, <1>5, <1>8, <1>9, <1>10, <1>12 DEF g, a, p, s1


(* One more packet: what its thread has found is appended to the report. *)
LEMMA PacketReported ==
  ASSUME Stored, NEW d \in 0..NSubsets-1, NEW j \in 0..Len(payload_sizes)-1,
         NEW r, ReportUpTo(d, j, r), NEW f, FoundSoFar(d, j, payload_sizes[j+1], f)
  PROVE  ReportUpTo(d, j + 1, r \o EntriesOf(d, j, f))
<1> DEFINE g == EntriesOf(d, j, f)  h == r \o g  n == Len(payload_sizes)  s1 == payload_sizes[1]
           p == payload_sizes[j+1]  N == Len(input)  a == j * s1
<1>1. /\ a \in Nat /\ (j + 1) * s1 = a + s1 /\ Len(f) \in Nat /\ g \in Seq(Entries(d)) /\ Len(g) = Len(f)
      /\ \A i \in 1..Len(f) :
           /\ f[i].off \in Nat /\ f[i].off < p
           /\ g[i].off = a + f[i].off /\ g[i] = [off |-> g[i].off, rules |-> RulesOfState(d, f[i].stat)]
           /\ Place(j, f[i].off) = g[i].off + 1
      /\ OffsetsIncrease(g) /\ Below(g, a + s1) /\ \A i \in 1..Len(g) : a <= g[i].off
  BY EntriesInOrder
<1>2. /\ n \in Nat \ {0} /\ s1 \in Nat \ {0} /\ N \in Nat /\ j \in Nat
      /\ p \in Nat /\ p <= s1 /\ (j + 1 < n => p = s1)
      /\ (j + 1 = n => N <= a + p)
  <2>1. /\ n \in Nat \ {0} /\ s1 \in Nat \ {0} /\ N \in Nat
        /\ \A i \in 1..n : payload_sizes[i] \in Nat /\ payload_sizes[i] <= s1
        /\ \A i \in 1..n-1 : payload_sizes[i] = s1
        /\ N <= (n - 1) * s1 + payload_sizes[n]
    BY LastPacketEnds
  <2>2. j \in Nat /\ j + 1 \in 1..n /\ (j + 1 < n => j + 1 \in 1..n-1)
        /\ (j + 1 = n => n - 1 = j)
    BY <2>1
  <2> QED BY <2>1, <2>2
<1>3. /\ r \in Seq(Entries(d)) /\ OffsetsIncrease(r) /\ Below(r, a)
      /\ \A i \in 1..Len(r) : r[i].off < N => r[i] \in FileMatches(d)
      /\ \A e \in FileMatches(d) : e.off < a => \E i \in 1..Len(r) : r[i] = e
  BY DEF ReportUpTo
<1>4. /\ \A i \in 1..Len(f) :
           Place(j, f[i].off) <= N =>
             f[i].stat = StateAfter(d)[Place(j, f[i].off)] /\ f[i].stat \in Accept[d]
      /\ \A k \in 0..p-1 :
           Place(j, k) <= N /\ StateAfter(d)[Place(j, k)] \in Accept[d] =>
             \E i \in 1..Len(f) : f[i].off = k
  BY DEF FoundSoFar
<1> HIDE DEF g, n, p, N
<1>5. /\ h \in Seq(Entries(d)) /\ Len(h) = Len(r) + Len(g)
      /\ \A i \in 1..Len(r) : i \in 1..Len(h) /\ h[i] = r[i]
      /\ \A i \in 1..Len(g) : Len(r) + i \in 1..Len(h) /\ h[Len(r) + i] = g[i]
      /\ \A i \in 1..Len(h) : i \in 1..Len(r) \/ \E k \in 1..Len(g) : h[i] = g[k]
      /\ OffsetsIncrease(h) /\ Below(h, a + s1)
  <2> DEFINE b == a + s1  M == Entries(d)
  <2>1. a \in Nat /\ b \in Nat /\ a <= b
    <3> HIDE DEF a, s1
    <3> QED BY <1>1, <1>2
  <2>2. r \in Seq(M) /\ g \in Seq(M) /\ OffsetsIncrease(r) /\ Below(r, a) /\ OffsetsIncrease(g) /\ Below(g, b)
        /\ \A i \in 1..Len(g) : a <= g[i].off
    BY <1>1, <1>3
  <2> HIDE DEF a, b, M
  <2>3. /\ h \in Seq(M) /\ Len(h) = Len(r) + Len(g)
        /\ \A i \in 1..Len(r) : i \in 1..Len(h) /\ h[i] = r[i]
        /\ \A i \in 1..Len(g) : Len(r) + i \in 1..Len(h) /\ h[Len(r) + i] = g[i]
        /\ \A i \in 1..Len(h) : i \in 1..Len(r) \/ \E k \in 1..Len(g) : h[i] = g[k]
        /\ OffsetsIncrease(h) /\ Below(h, b)
    BY <2>1, <2>2, OrderedConcat
  <2> QED BY <2>3 DEF b, M
<1> HIDE DEF h, a, s1
<1>6. ASSUME NEW i \in 1..Len(f), g[i].off < N PROVE g[i] \in FileMatches(d)
  <2> DEFINE k == Place(j, f[i].off)
  <2>1. k = g[i].off + 1 /\ g[i].off \in Nat
    <3>1. k = g[i].off + 1 /\ g[i].off = a + f[i].off /\ f[i].off \in Nat
      BY <1>1
    <3> HIDE DEF k
    <3> QED BY <1>1, <3>1
  <2>2. k \in 1..N /\ k - 1 = g[i].off
    <3> HIDE DEF k
    <3> QED BY <1>2, <1>6, <2>1
  <2>3. f[i].stat = StateAfter(d)[k] /\ f[i].stat \in Accept[d]
    BY <1>4, <2>2
  <2>4. [off |-> k - 1, rules |-> RulesOfState(d, StateAfter(d)[k])] \in FileMatches(d)
    BY <1>2, <2>2, <2>3, FileMatchFacts DEF N
  <2>5. g[i] = [off |-> k - 1, rules |-> RulesOfState(d, StateAfter(d)[k])]
    BY <1>1, <2>2, <2>3
  <2> QED BY <2>4, <2>5
<1>7. ASSUME NEW i \in 1..Len(h), h[i].off < N PROVE h[i] \in FileMatches(d)
  BY <1>1, <1>3, <1>5, <1>6, <1>7
<1>8. ASSUME NEW e \in FileMatches(d), e.off < a + s1 PROVE \E i \in 1..Len(h) : h[i] = e
  <2>1. PICK k \in 1..N : /\ StateAfter(d)[k] \in Accept[d]
                          /\ e = [off |-> k - 1, rules |-> RulesOfState(d, StateAfter(d)[k])]
    BY <1>2, FileMatchFacts DEF N
  <2>2. e.off = k - 1 /\ k - 1 \in Nat /\ k - 1 < N /\ k <= N
    BY <1>2, <2>1
  <2>3. CASE e.off < a
    <3>1. PICK i \in 1..Len(r) : r[i] = e
      BY <1>3, <2>3
    <3> QED BY <1>5, <3>1
  <2>4. CASE ~(e.off < a)
    <3> DEFINE x == (k - 1) - a
    <3>1. x \in Nat /\ x < s1 /\ a + x = k - 1
      BY <1>1, <1>2, <1>8, <2>2, <2>4
    <3>2. x < p
      <4>1. CASE j + 1 = n
        <5>1. N <= a + p
          BY <1>2, <4>1
        <5> HIDE DEF x
        <5> QED BY <1>1, <1>2, <2>2, <3>1, <5>1
      <4>2. CASE j + 1 # n
        <5>1. j + 1 < n
          BY <1>2, <4>2 DEF n
        <5> QED BY <1>2, <3>1, <5>1
      <4> QED BY <4>1, <4>2
    <3>3. Place(j, x) = k
      <4>1. Place(j, x) = a + x + 1
        BY DEF Place, a, s1
      <4> HIDE DEF x
      <4> QED BY <1>1, <2>2, <3>1, <4>1
    <3>4. x \in 0..p-1
      <4> HIDE DEF x
      <4> QED BY <1>2, <3>1, <3>2
    <3> HIDE DEF x
    <3>5. PICK i \in 1..Len(f) : f[i].off = x
      BY <1>4, <2>1, <2>2, <3>3, <3>4
    <3>6. f[i].stat = StateAfter(d)[k] /\ g[i].off = k - 1
      BY <1>1, <1>4, <2>2, <3>1, <3>3, <3>5
    <3>7. g[i] = e
      BY <1>1, <2>1, <3>6
    <3>8. Len(r) + i \in 1..Len(h) /\ h[Len(r) + i] = e
      BY <1>1, <1>5, <3>7
    <3> QED BY <3>8
  <2> QED BY <2>3, <2>4
<1>9. ReportUpTo(d, j + 1, h)
  BY <1>1, <1>5, <1>7, <1>8 DEF ReportUpTo, N, s1
<1> QED BY <1>9 DEF h, g


-----------------------------------------------------------------------------
(* How many packets of DFA d are reported. *)
Reported(d) == IF d < subset THEN Len(payload_sizes) ELSE IF d = subset THEN packet ELSE 0

AllReported ==
  /\ subset \in 0..NSubsets /\ packet \in 0..Len(payload_sizes)
  /\ DOMAIN reports = 0..NSubsets-1
  /\ \A d \in 0..NSubsets-1 : ReportUpTo(d, Reported(d), reports[d])

Unreported == subset = 0 /\ packet = 0 /\ reports = [d \in 0..NSubsets-1 |-> <<>>]

(* Nothing is reported before the kernel has ended, and then exactly what  *)
(* has been found: by the threads, and hence by the reference.             *)
ReportsInv ==
  /\ NoPadding
  /\ phase \notin {"report", "done"} => Unreported
  /\ phase \in {"report", "done"} => payload_sizes # <<>> /\ (OffsetsKnown => AllReported)
  /\ OffsetsKnown /\ phase \in {"kernel", "report"} => ThreadsRight

(* What only depends on the packets is kept by all steps but Input. *)
LEMMA PacketsKept ==
  ASSUME UNCHANGED packetVars
  PROVE  /\ (OffsetsKnown' <=> OffsetsKnown) /\ (NoPadding' <=> NoPadding)
         /\ payload_sizes' = payload_sizes
         /\ \A d, j, r : ReportUpTo(d, j, r) => ReportUpTo(d, j, r)'
<1>1. payload_sizes' = payload_sizes /\ padded_sizes' = padded_sizes /\ packet_size' = packet_size
      /\ \A j : FileBytes(j)' = FileBytes(j)
  BY DEF packetVars, packet_size, FileBytes
<1>2. (OffsetsKnown' <=> OffsetsKnown) /\ (NoPadding' <=> NoPadding)
  BY <1>1 DEF OffsetsKnown, NoPadding
<1>3. ASSUME NEW d, NEW j, NEW r, ReportUpTo(d, j, r) PROVE ReportUpTo(d, j, r)'
  BY <1>1, <1>3, SameReference DEF ReportUpTo
<1> QED BY <1>1, <1>2, <1>3

(* A report that is right is right after a step that leaves the packets. *)
LEMMA ReportAfter ==
  ASSUME UNCHANGED packetVars, NEW d, NEW j, NEW r, ReportUpTo(d, j, r), Reported(d)' = j, reports'[d] = r
  PROVE  ReportUpTo(d, Reported(d), reports[d])'
<1>1. ReportUpTo(d, j, r)'
  BY PacketsKept
<1> QED BY <1>1 DEF ReportUpTo

(* Nothing is right to report as long as no packet is. *)
LEMMA NothingReported ==
  ASSUME Stored, NEW d
  PROVE  ReportUpTo(d, 0, <<>>)
<1>1. 0 * payload_sizes[1] = 0 /\ Len(input) \in Nat
  BY LastPacketEnds
<1>2. <<>> \in Seq(Entries(d)) /\ Len(<<>>) = 0
  BY EmptySeq
<1>3. \A e \in FileMatches(d) : ~(e.off < 0)
  BY <1>1, FileMatchFacts
<1> QED BY <1>1, <1>2, <1>3 DEF ReportUpTo, OffsetsIncrease, Below

(* The threads are as right as they were when nothing on the device moves. *)
LEMMA ThreadsKept ==
  ASSUME ThreadsRight, KP!LaunchOK, UNCHANGED <<packetVars, blockDim, thr, match_array>>
  PROVE  ThreadsRight'
<1>1. UNCHANGED KP!hostVars
  BY DEF KP!hostVars, packetVars, packet_size
<1>2. /\ KP!Threads' = KP!Threads
      /\ \A q : (KP!Working(q)' <=> KP!Working(q)) /\ KP!DfaId(q)' = KP!DfaId(q)
      /\ \A q, n : KP!MatchAddress(q, n)' = KP!MatchAddress(q, n)
  BY <1>1, SameAssumption, KP!HostUnchanged
<1>3. ASSUME NEW q \in KP!Threads, KP!Working(q) PROVE ThreadRight(q)'
  <2>1. ThreadRight(q)
    BY <1>3 DEF ThreadsRight
  <2>2. KP!FoundBy(q)' = KP!FoundBy(q)
    BY <1>2 DEF KP!FoundBy
  <2> QED BY <1>2, <2>1, <2>2, RightAfter DEF ThreadRight
<1> QED BY <1>2, <1>3 DEF ThreadsRight

LEMMA ReportsInvInit == EngineInit => ReportsInv
<1> SUFFICES ASSUME EngineInit PROVE ReportsInv
  OBVIOUS
<1>1. phase = "input" /\ payload_sizes = <<>> /\ Unreported
  BY DEF EngineInit, PacketizerInit, Unreported
<1>2. NoPadding
  BY <1>1 DEF NoPadding
<1> QED BY <1>1, <1>2 DEF ReportsInv

(* Before the kernel ends, the reports are not touched. *)
LEMMA ReportsAreLater ==
  ASSUME EInv, ReportsInv, Input \/ Allocate \/ TuneStep \/ SetGeometry \/ Launch
  PROVE  ReportsInv'
<1>1. /\ phase \notin {"report", "done", "kernel"} /\ phase' \notin {"report", "done"}
      /\ UNCHANGED reportVars /\ (phase' = "kernel" => Launch)
  BY DEF Input, Allocate, TuneStep, SetGeometry, Launch
<1>2. NoPadding'
  BY NoPaddingNext DEF EInv, InputInv, ReportsInv, Input, Allocate, TuneStep, SetGeometry, Launch
<1>3. Unreported'
  BY <1>1 DEF ReportsInv, reportVars, Unreported
<1>4. ASSUME Launch PROVE ThreadsRight'
  <2>1. (thr = [t \in KP!Threads |-> KP!Started])'
    <3>1. thr' = [t \in K!Threads |-> K!Started] /\ UNCHANGED packetVars /\ UNCHANGED blockDim
      BY <1>4 DEF Launch
    <3>2. KP!Threads' = KP!Threads
      BY <3>1 DEF KP!Threads, KP!GridX, packetVars
    <3> QED BY <3>1, <3>2, SameKernel DEF KP!Started
  <2> QED BY <2>1, ThreadsRightInit, PTL
<1> QED BY <1>1, <1>2, <1>3, <1>4 DEF ReportsInv


(* From the launch on the file is stored, and is reported from there on. *)
LEMMA StoredLater ==
  ASSUME EInv, ReportsInv, OffsetsKnown, phase \in {"kernel", "report", "done"}
  PROVE  Stored
BY DEF EInv, InputInv, ReportsInv, Stored, Allocated

(* A step of the kernel: the threads stay right. *)
LEMMA ReportsKernel ==
  ASSUME EInv, ReportsInv, K!NarrowEnough, K!ZeroRejects, Kernel
  PROVE  ReportsInv'
<1>1. /\ phase = "kernel" /\ phase' = "kernel" /\ UNCHANGED packetVars /\ UNCHANGED reportVars
      /\ KP!KernelNext /\ KP!KInv
  BY SameKernel DEF Kernel, EInv, DeviceInv
<1>2. NoPadding' /\ (OffsetsKnown' <=> OffsetsKnown)
  BY <1>1, PacketsKept DEF ReportsInv
<1>3. OffsetsKnown => ThreadsRight'
  BY <1>1, StoredLater, ThreadsRightNext DEF ReportsInv
<1>4. Unreported'
  BY <1>1 DEF ReportsInv, Unreported, reportVars
<1> QED BY <1>1, <1>2, <1>3, <1>4 DEF ReportsInv

(* The kernel has ended: the reports begin. *)
LEMMA ReportsBegin ==
  ASSUME EInv, ReportsInv, Synchronize
  PROVE  ReportsInv'
<1>1. /\ phase = "kernel" /\ phase' = "report" /\ UNCHANGED packetVars /\ UNCHANGED reportVars
      /\ UNCHANGED <<blockDim, thr, match_array>> /\ KP!LaunchOK
  BY KP!TypeParts, SameAssumption DEF Synchronize, gpuVars, EInv, DeviceInv, KP!KInv
<1>2. /\ NoPadding' /\ (OffsetsKnown' <=> OffsetsKnown) /\ payload_sizes' = payload_sizes
      /\ \A d, j, r : ReportUpTo(d, j, r) => ReportUpTo(d, j, r)'
  BY <1>1, PacketsKept DEF ReportsInv
<1>3. payload_sizes' # <<>>
  BY <1>1 DEF EInv, InputInv, Allocated, packetVars
<1>4. ASSUME OffsetsKnown PROVE ThreadsRight'
  BY <1>1, <1>4, ThreadsKept DEF ReportsInv
<1>5. ASSUME OffsetsKnown PROVE AllReported'
  <2>1. Stored
    BY <1>1, <1>5, StoredLater
  <2>2. /\ subset' = 0 /\ packet' = 0 /\ reports' = [d \in 0..NSubsets-1 |-> <<>>]
    BY <1>1 DEF ReportsInv, Unreported, reportVars
  <2>3. 0 \in 0..NSubsets /\ 0 \in 0..Len(payload_sizes)
    BY <2>1, LastPacketEnds, AutomataAssumption DEF K!KernelAssumption
  <2>4. ASSUME NEW d \in 0..NSubsets-1 PROVE ReportUpTo(d, Reported(d), reports[d])'
    <3>1. Reported(d)' = 0 /\ reports'[d] = <<>>
      BY <2>2 DEF Reported
    <3>2. ReportUpTo(d, 0, <<>>)
      BY <2>1, NothingReported
    <3> QED BY <1>1, <3>1, <3>2, ReportAfter
  <2> QED BY <1>2, <2>2, <2>3, <2>4 DEF AllReported
<1> QED BY <1>1, <1>2, <1>3, <1>4, <1>5 DEF ReportsInv

(* The next packet of the subset is reported. *)
LEMMA ReportsPacket ==
  ASSUME EInv, ReportsInv, ReportPacket
  PROVE  ReportsInv'
<1>1. /\ phase = "report" /\ phase' = "report" /\ UNCHANGED packetVars /\ subset' = subset
      /\ UNCHANGED <<blockDim, thr, match_array>> /\ KP!LaunchOK
      /\ subset < NSubsets /\ packet < Len(payload_sizes) /\ packet' = packet + 1
      /\ KP!KInv /\ KP!CountsMatch /\ KP!KernelDone
  BY KP!TypeParts, SameAssumption DEF ReportPacket, gpuVars, EInv, DeviceInv, KP!KInv
<1>2. /\ NoPadding' /\ (OffsetsKnown' <=> OffsetsKnown) /\ payload_sizes' = payload_sizes
      /\ \A d, j, r : ReportUpTo(d, j, r) => ReportUpTo(d, j, r)'
  BY <1>1, PacketsKept DEF ReportsInv
<1>3. payload_sizes' # <<>>
  BY <1>1, <1>2 DEF ReportsInv
<1>4. ASSUME OffsetsKnown PROVE ThreadsRight'
  BY <1>1, <1>4, ThreadsKept DEF ReportsInv
<1>5. ASSUME OffsetsKnown PROVE AllReported'
  <2> DEFINE n == Len(payload_sizes)
  <2>1. Stored /\ ThreadsRight /\ AllReported
    BY <1>1, <1>5, StoredLater DEF ReportsInv
  <2>2. /\ n \in Nat /\ packet \in 0..n-1 /\ packet + 1 \in 0..n /\ subset \in 0..NSubsets-1
        /\ subset \in 0..NSubsets /\ NSubsets \in Nat
    BY <1>1, <2>1, LastPacketEnds, AutomataAssumption DEF AllReported, K!KernelAssumption
  <2>3. PICK pad \in PadBefore(packet) :
          reports' = [reports EXCEPT ![subset] = @ \o PacketReport(subset, packet, pad)]
    BY DEF ReportPacket
  <2> DEFINE t == KP!ThreadOf(packet + 1, subset)  f == KP!FoundBy(t)
  <2>4. /\ t \in KP!Threads /\ KP!Working(t) /\ KP!DfaId(t) = subset /\ t.bx = packet
        /\ thr[t].p = payload_sizes[packet + 1]
        /\ PacketReport(subset, packet, pad) = EntriesOf(subset, packet, f)
    BY <1>1, <2>1, <2>2, HostReadsFound
  <2>5. FoundSoFar(subset, packet, payload_sizes[packet + 1], f)
    BY <2>1, <2>4 DEF ThreadsRight, ThreadRight
  <2> HIDE DEF t, f
  <2>6. ReportUpTo(subset, packet, reports[subset])
    BY <2>1, <2>2 DEF AllReported, Reported
  <2>7. ReportUpTo(subset, packet + 1, reports[subset] \o EntriesOf(subset, packet, f))
    BY <2>1, <2>2, <2>5, <2>6, PacketReported
  <2>8. DOMAIN reports' = 0..NSubsets-1 /\ DOMAIN reports = 0..NSubsets-1
    BY <2>1, <2>3 DEF AllReported
  <2>9. ASSUME NEW d \in 0..NSubsets-1 PROVE ReportUpTo(d, Reported(d), reports[d])'
    <3>1. CASE d = subset
      <4>1. reports'[d] = reports[subset] \o EntriesOf(subset, packet, f) /\ Reported(d)' = packet + 1
        BY <1>1, <2>2, <2>3, <2>4, <2>8, <3>1 DEF Reported
      <4> QED BY <1>1, <2>7, <3>1, <4>1, ReportAfter
    <3>2. CASE d # subset
      <4>1. reports'[d] = reports[d] /\ Reported(d)' = Reported(d)
        BY <1>1, <1>2, <2>3, <2>8, <3>2 DEF Reported
      <4>2. ReportUpTo(d, Reported(d), reports[d])
        BY <2>1 DEF AllReported
      <4> QED BY <1>1, <4>1, <4>2, ReportAfter
    <3> QED BY <3>1, <3>2
  <2> QED BY <1>1, <1>2, <2>2, <2>8, <2>9 DEF AllReported
<1> QED BY <1>1, <1>2, <1>3, <1>4, <1>5 DEF ReportsInv


(* The next subset: the report of the last one has all packets. *)
LEMMA ReportsSubset ==
  ASSUME EInv, ReportsInv, NextSubset \/ UNCHANGED engineVars
  PROVE  ReportsInv'
<1>1. /\ phase' = phase /\ UNCHANGED packetVars /\ reports' = reports
      /\ UNCHANGED <<blockDim, thr, match_array>>
      /\ phase \in {"kernel", "report"} => KP!LaunchOK
  BY KP!TypeParts, SameAssumption DEF NextSubset, engineVars, reportVars, gpuVars, EInv, DeviceInv, KP!KInv
<1>2. /\ NoPadding' /\ (OffsetsKnown' <=> OffsetsKnown) /\ payload_sizes' = payload_sizes
  BY <1>1, PacketsKept DEF ReportsInv
<1>3. OffsetsKnown /\ phase \in {"kernel", "report"} => ThreadsRight'
  BY <1>1, ThreadsKept DEF ReportsInv
<1>4. phase \notin {"report", "done"} => Unreported'
  BY <1>1 DEF ReportsInv, Unreported, NextSubset, engineVars, reportVars
<1>5. ASSUME OffsetsKnown, phase \in {"report", "done"} PROVE AllReported'
  <2>1. AllReported /\ Stored
    BY <1>5, StoredLater DEF ReportsInv
  <2>2. Len(payload_sizes) \in Nat /\ NSubsets \in Nat
    BY <2>1, LastPacketEnds, AutomataAssumption DEF K!KernelAssumption
  <2>3. /\ subset' \in 0..NSubsets /\ packet' \in 0..Len(payload_sizes)
        /\ \A d \in 0..NSubsets-1 : Reported(d)' = Reported(d)
    <3>1. CASE NextSubset
      <4>1. subset' = subset + 1 /\ packet' = 0 /\ subset < NSubsets /\ packet = Len(payload_sizes)
        BY <3>1 DEF NextSubset
      <4> QED BY <1>2, <2>1, <2>2, <4>1 DEF AllReported, Reported
    <3>2. CASE UNCHANGED engineVars
      BY <1>2, <2>1, <3>2 DEF AllReported, Reported, engineVars, reportVars
    <3> QED BY <3>1, <3>2
  <2>4. ASSUME NEW d \in 0..NSubsets-1 PROVE ReportUpTo(d, Reported(d), reports[d])'
    BY <1>1, <2>1, <2>3, ReportAfter DEF AllReported
  <2> QED BY <1>1, <1>2, <2>1, <2>3, <2>4 DEF AllReported
<1> QED BY <1>1, <1>2, <1>3, <1>4, <1>5 DEF ReportsInv

(* The end of the program leaves the reports as they are. *)
LEMMA ReportsExit ==
  ASSUME EInv, ReportsInv, Exit
  PROVE  ReportsInv'
<1>1. /\ phase = "report" /\ phase' = "done" /\ UNCHANGED packetVars /\ UNCHANGED reportVars
  BY DEF Exit
<1>2. /\ NoPadding' /\ (OffsetsKnown' <=> OffsetsKnown) /\ payload_sizes' = payload_sizes
  BY <1>1, PacketsKept DEF ReportsInv
<1>3. ASSUME OffsetsKnown PROVE AllReported'
  <2>1. AllReported /\ \A d : Reported(d)' = Reported(d)
    BY <1>1, <1>2, <1>3 DEF ReportsInv, Reported, reportVars
  <2>2. ASSUME NEW d \in 0..NSubsets-1 PROVE ReportUpTo(d, Reported(d), reports[d])'
    BY <1>1, <2>1, ReportAfter DEF AllReported, reportVars
  <2> QED BY <1>1, <1>2, <2>1, <2>2 DEF AllReported, reportVars
<1> QED BY <1>1, <1>2, <1>3 DEF ReportsInv

(* Hence the invariant of the reports is inductive with that of the run. *)
LEMMA ReportsInvNext ==
  ASSUME EInv, ReportsInv, K!NarrowEnough, K!ZeroRejects, [EngineNext]_engineVars
  PROVE  ReportsInv'
BY ReportsAreLater, ReportsKernel, ReportsBegin, ReportsPacket, ReportsSubset, ReportsExit DEF EngineNext

(* A report with all packets is the one of the reference. *)
LEMMA WholeReport ==
  ASSUME Stored, NEW d, NEW r, ReportUpTo(d, Len(payload_sizes), r)
  PROVE  /\ \A i, j \in DOMAIN r : i < j => r[i].off < r[j].off
         /\ {e \in Range(r) : InFile(e)} = FileMatches(d)
<1> DEFINE n == Len(payload_sizes)  s1 == payload_sizes[1]  N == Len(input)
<1>1. /\ n \in Nat \ {0} /\ s1 \in Nat \ {0} /\ N \in Nat
      /\ payload_sizes[n] \in Nat /\ payload_sizes[n] <= s1 /\ N <= (n - 1) * s1 + payload_sizes[n]
  BY LastPacketEnds
<1>2. N <= n * s1
  <2> DEFINE a == (n - 1) * s1  b == n * s1  z == payload_sizes[n]
  <2>1. a \in Nat /\ b \in Nat /\ b = a + s1
    <3> HIDE DEF n, s1
    <3>1. (n - 1) * s1 = n * s1 - s1 /\ n - 1 \in Nat
      BY <1>1
    <3> QED BY <1>1, <3>1
  <2> HIDE DEF a, b, z
  <2> QED BY <1>1, <2>1 DEF a, b, z
<1>3. DOMAIN r = 1..Len(r) /\ Range(r) = {r[i] : i \in 1..Len(r)}
  <2>1. DOMAIN r = 1..Len(r)
    <3> DEFINE M == Entries(d)
    <3>1. r \in Seq(M)
      BY DEF ReportUpTo
    <3> HIDE DEF M
    <3> QED BY <3>1, LenProperties
  <2> QED BY <2>1 DEF Range
<1>4. \A i, j \in DOMAIN r : i < j => r[i].off < r[j].off
  BY <1>3 DEF ReportUpTo, OffsetsIncrease
<1>5. ASSUME NEW e \in Range(r), InFile(e) PROVE e \in FileMatches(d)
  BY <1>3, <1>5 DEF ReportUpTo, InFile
<1>6. ASSUME NEW e \in FileMatches(d) PROVE e \in Range(r) /\ InFile(e)
  <2>1. e.off \in Nat /\ e.off < N
    <3>1. PICK k \in 1..N : e = [off |-> k - 1, rules |-> RulesOfState(d, StateAfter(d)[k])]
      BY <1>1, FileMatchFacts
    <3> QED BY <1>1, <3>1
  <2>2. e.off < n * s1
    <3> DEFINE b == n * s1
    <3>1. b \in Nat /\ N <= b
      BY <1>1, <1>2, ProductGrows
    <3> HIDE DEF b, n, s1, N
    <3> QED BY <1>1, <2>1, <3>1 DEF b
  <2>3. \E i \in 1..Len(r) : r[i] = e
    BY <2>2 DEF ReportUpTo
  <2> QED BY <1>3, <2>1, <2>3 DEF InFile
<1> QED BY <1>4, <1>5, <1>6

(* End to end, for every file, every automata and any number of threads in *)
(* any order: unless an offset is computed from padded_sizes, the report   *)
(* of a DFA lists exactly the matches of the reference, in the order of    *)
(* the file and with their places in it.                                   *)
THEOREM ReportsAreExact ==
  ASSUME K!NarrowEnough, K!ZeroRejects
  PROVE  EngineSpec => []ReportExact
<1>1. EngineInit => EInv /\ ReportsInv
  BY EInvInit, ReportsInvInit
<1>2. EInv /\ ReportsInv /\ [EngineNext]_engineVars => EInv' /\ ReportsInv'
  BY EInvNext, ReportsInvNext
<1>3. EInv /\ ReportsInv => ReportExact
  <2> SUFFICES ASSUME EInv, ReportsInv, OffsetsKnown, NEW d \in 0..subset-1
               PROVE  /\ \A i, j \in DOMAIN reports[d] : i < j => reports[d][i].off < reports[d][j].off
                      /\ {e \in Range(reports[d]) : InFile(e)} = FileMatches(d)
    BY DEF ReportExact
  <2>1. phase \in {"report", "done"}
    BY DEF ReportsInv, Unreported
  <2>2. AllReported /\ Stored
    BY <2>1, StoredLater DEF ReportsInv
  <2>3. d \in 0..NSubsets-1 /\ Reported(d) = Len(payload_sizes)
    BY <2>2, AutomataAssumption DEF AllReported, Reported, K!KernelAssumption
  <2>4. ReportUpTo(d, Len(payload_sizes), reports[d])
    BY <2>2, <2>3 DEF AllReported
  <2> QED BY <2>2, <2>4, WholeReport
<1> QED BY <1>1, <1>2, <1>3, PTL DEF EngineSpec

-----------------------------------------------------------------------------
(***************************************************************************)
(* Loading an automaton: the inductive invariant.                          *)
(***************************************************************************)

(* the state that stands for a node, or for the start *)
Id(n) == IF n = 0 THEN 0 ELSE id_map[n]

(* The table that the rows become. *)
Negated(rows, n) == [q \in 0..n-1 |-> [c \in Symbol |-> Signed(rows[q][c])]]

(* A binary dump: a pair is in the file or among the rules of its state. *)
PairsInv ==
  /\ accst \subseteq Pairs
  /\ \A q \in DOMAIN states2rules_ :
       q \in 0..automaton.size-1 /\ states2rules_[q] # {}
         /\ states2rules_[q] \subseteq automaton.accepted_rules[q]
  /\ \A p \in Pairs : p \in accst \/ (p[1] \in DOMAIN states2rules_ /\ p[2] \in states2rules_[p[1]])

DumpInv ==
  /\ pc \in {"dump", "pairs", "table", "run"}
  /\ id_map = Empty /\ state_counter = 1
  /\ pc = "dump" => states2rules_ = Empty
  /\ pc # "dump" => PairsInv
  /\ pc \in {"table", "run"} => accst = {}
  /\ pc = "table" => dfa_state_table_ = automaton.state_table
  /\ pc = "run" =>
       /\ dfa_state_table_ = Negated(automaton.state_table, automaton.size)
       /\ node \in 0..automaton.size-1 /\ current_state = node
       /\ reported = IF node = 0 THEN {} ELSE automaton.accepted_rules[node]

(* A network: ids are given once each and without gaps. *)
Numbers(ids, counter) ==
  /\ counter \in Nat \ {0}
  /\ ids \in [DOMAIN ids -> 1..counter-1]
  /\ \A m, n \in DOMAIN ids : ids[m] = ids[n] => m = n
  /\ \A k \in 1..counter-1 : \E n \in DOMAIN ids : ids[n] = k

IdsInv == DOMAIN id_map \subseteq 1..automaton.size /\ Numbers(id_map, state_counter)

(* The start and the marked nodes have their rows, of sinks that have ids. *)
RowsInv ==
  /\ marked \subseteq DOMAIN id_map
  /\ DOMAIN state_table_map = {0} \cup {id_map[n] : n \in marked}
  /\ \A n \in {0} \cup marked :
       Sinks(automaton, n) \subseteq DOMAIN id_map /\ state_table_map[Id(n)] = Row(n, id_map)

(* A node that is not marked waits in the queue or is a start state to be  *)
(* built, and no start state is built before its turn.                     *)
WaitingInv ==
  /\ next \in 1..Len(Starts)+1 /\ to_process \in Seq(DOMAIN id_map)
  /\ \A n \in DOMAIN id_map \ marked :
       n \in Range(to_process) \/ \E k \in next..Len(Starts) : Starts[k] = n
  /\ pc = "starts" => \A k \in next..Len(Starts) : Starts[k] \notin marked
  /\ pc # "starts" => next = Len(Starts) + 1

(* The marked nodes that report have a rule each. *)
CodesInv ==
  /\ accept_counter \in Nat \ {0}
  /\ DOMAIN accepting_codes_map = {id_map[n] : n \in marked \cap automaton.report}
  /\ \A q \in DOMAIN accepting_codes_map : accepting_codes_map[q] \in 1..accept_counter-1
  /\ \A p, q \in DOMAIN accepting_codes_map : accepting_codes_map[p] = accepting_codes_map[q] => p = q

(* The table is that of the nodes, and every entry of it was assigned. *)
LoadedInv ==
  /\ pc \in {"table", "run"} =>
       marked = DOMAIN id_map
         /\ states2rules_ = [q \in DOMAIN accepting_codes_map |-> {accepting_codes_map[q]}]
  /\ pc = "table" => dfa_state_table_ = [q \in 0..state_counter-1 |-> state_table_map[q]]
  /\ pc = "run" =>
       /\ dfa_state_table_ = Negated(state_table_map, state_counter)
       /\ \A n \in {0} \cup DOMAIN id_map, c \in Symbol : On(automaton, n, c) # {}
       /\ node \in {0} \cup DOMAIN id_map /\ current_state = Id(node)
       /\ reported # {} <=> node \in automaton.report

NodesInv == IdsInv /\ RowsInv /\ WaitingInv /\ CodesInv

NetworkInv ==
  /\ pc \in {"find", "starts", "queue", "table", "run", "undefined"}
  /\ pc = "find" => id_map = Empty /\ state_counter = 1 /\ marked = {} /\ to_process = <<>> /\ next = 1
                    /\ accept_counter = 1 /\ accepting_codes_map = Empty
  /\ pc # "find" => NodesInv
  /\ pc = "undefined" => ~Complete
  /\ LoadedInv

(* The kernel waits for the table. *)
IdleInv == pc # "run" => current_state = 0 /\ reported = {} /\ node = 0

LInv ==
  /\ automaton \in Dfas \cup Networks
  /\ automaton.format = "binary" => DumpInv
  /\ automaton.format = "mnrl" => NetworkInv
  /\ IdleInv


-----------------------------------------------------------------------------
(* The elements of a list. *)
LEMMA ListFacts ==
  ASSUME NEW S, NEW list \in Seq(S)
  PROVE  /\ Len(list) \in Nat /\ DOMAIN list = 1..Len(list)
         /\ \A k \in 1..Len(list) : list[k] \in S
         /\ Range(list) \subseteq S /\ \A x \in Range(list) : \E k \in 1..Len(list) : list[k] = x
<1>1. Len(list) \in Nat /\ DOMAIN list = 1..Len(list) /\ \A k \in 1..Len(list) : list[k] \in S
  OBVIOUS
<1> QED BY <1>1 DEF Range

(* What the assumption says of a network. *)
LEMMA NetFacts ==
  ASSUME NEW m \in Networks
  PROVE  /\ m.format = "mnrl" /\ m.size \in Nat \ {0}
         /\ m.starts \in SUBSET (1..m.size) /\ m.starts \in SUBSET Int /\ IsFiniteSet(m.starts)
         /\ \A n \in 1..m.size : m.outputs[n] \in Seq(1..m.size) /\ Range(m.outputs[n]) \subseteq 1..m.size
         /\ \A n \in 0..m.size : Sinks(m, n) \subseteq 1..m.size
         /\ \A n \in 0..m.size, c \in Symbol : On(m, n, c) \subseteq Sinks(m, n)
         /\ \A n \in 0..m.size, c \in Symbol : \A a, b \in On(m, n, c) : a = b
<1>1. /\ m.format = "mnrl" /\ m.size \in Nat \ {0}
      /\ m.starts \subseteq 1..m.size
      /\ \A n \in 1..m.size : m.outputs[n] \in Seq(1..m.size)
      /\ \A n \in 0..m.size, c \in Symbol : Cardinality(On(m, n, c)) <= 1
  BY LoaderAssumption
<1>2. IsFiniteSet(1..m.size)
  BY <1>1, FS_Interval
<1>3. m.starts \in SUBSET (1..m.size) /\ m.starts \in SUBSET Int /\ IsFiniteSet(m.starts)
  <2>1. m.starts \in SUBSET (1..m.size)
    BY <1>1
  <2>2. IsFiniteSet(m.starts)
    BY <1>2, <2>1, FS_Subset
  <2> QED BY <1>1, <2>1, <2>2
<1>4. ASSUME NEW n \in 1..m.size
      PROVE  m.outputs[n] \in Seq(1..m.size) /\ Range(m.outputs[n]) \subseteq 1..m.size
  <2>1. m.outputs[n] \in Seq(1..m.size)
    BY <1>1
  <2> QED BY <2>1, ListFacts
<1>5. ASSUME NEW n \in 0..m.size PROVE Sinks(m, n) \subseteq 1..m.size
  <2>1. CASE n = 0
    BY <1>1, <2>1 DEF Sinks
  <2>2. CASE n # 0
    <3>1. n \in 1..m.size
      BY <1>1, <2>2
    <3> QED BY <1>4, <2>2, <3>1 DEF Sinks
  <2> QED BY <2>1, <2>2
<1>6. \A n \in 0..m.size, c \in Symbol : On(m, n, c) \subseteq Sinks(m, n)
  BY DEF On
<1>7. ASSUME NEW n \in 0..m.size, NEW c \in Symbol, NEW a \in On(m, n, c), NEW b \in On(m, n, c), a # b
      PROVE  FALSE
  <2> DEFINE T == On(m, n, c)
  <2>1. T \in SUBSET (1..m.size) /\ Cardinality(T) <= 1
    BY <1>1, <1>5, <1>6
  <2>2. {a} \in SUBSET T /\ b \in T \ {a}
    BY <1>7
  <2>3. IsFiniteSet(T)
    BY <1>2, <2>1, FS_Subset
  <2> HIDE DEF T
  <2>4. Cardinality({a}) < Cardinality(T) /\ Cardinality(T) \in Nat
    BY <2>2, <2>3, MoreElements
  <2>5. Cardinality({a}) = 1
    BY FS_Singleton
  <2> QED BY <2>1, <2>4, <2>5
<1> QED BY <1>1, <1>3, <1>4, <1>5, <1>6, <1>7

(* The ascending sequence of a finite set of numbers exists. *)
LEMMA AscendingFacts ==
  ASSUME NEW S \in SUBSET Int, IsFiniteSet(S)
  PROVE  /\ Ascending(S) \in Seq(S) /\ Range(Ascending(S)) = S
         /\ Len(Ascending(S)) \in Nat /\ DOMAIN Ascending(S) = 1..Len(Ascending(S))
         /\ Len(Ascending(S)) = Cardinality(S)
         /\ \A m, n \in 1..Len(Ascending(S)) : Ascending(S)[m] = Ascending(S)[n] => m = n
<1> DEFINE key == [x \in S |-> x]
           N == Cardinality(S)
<1>1. key \in [S -> Int] /\ \A x, y \in S : key[x] = key[y] => x = y
  OBVIOUS
<1>1a. \A x \in S : key[x] = x
  OBVIOUS
<1> HIDE DEF key
<1> DEFINE o == ByRank(S, key)
<1>2. /\ o \in [1..N -> S]
      /\ \A m, n \in 1..N : m < n => key[o[m]] < key[o[n]]
      /\ \A m, n \in 1..N : m # n => o[m] # o[n]
  BY <1>1, SortedSequence
<1> HIDE DEF o
<1>3. o \in SetToSeqs(S) /\ \A m, n \in DOMAIN o : m < n => o[m] < o[n]
  <2>1. DOMAIN o = 1..N
    BY <1>2
  <2>2. \A m, n \in 1..N : m < n => o[m] < o[n]
    BY <1>1a, <1>2
  <2>3. o \in SetToSeqs(S)
    BY <1>2 DEF SetToSeqs
  <2> QED BY <2>1, <2>2, <2>3
<1>4. Ascending(S) \in SetToSeqs(S)
  BY <1>3 DEF Ascending
<1> DEFINE a == Ascending(S)
<1> HIDE DEF a
<1>5. a \in [1..N -> S] /\ \A m, n \in 1..N : m # n => a[m] # a[n]
  BY <1>4 DEF SetToSeqs, a
<1>6. N \in Nat /\ a \in Seq(S) /\ Len(a) = N /\ \A x \in S : \E n \in 1..N : a[n] = x
  BY <1>5, SequenceOfSet
<1>7. DOMAIN a = 1..N /\ Range(a) = S
  <2>1. DOMAIN a = 1..N
    BY <1>5
  <2>2. \A x \in 1..N : a[x] \in S
    BY <1>5
  <2> HIDE DEF N
  <2> QED BY <1>6, <2>1, <2>2 DEF Range
<1> QED BY <1>5, <1>6, <1>7 DEF a


(* The ids that a list of nodes gets. *)
LEMMA NumberedFacts ==
  ASSUME NEW S, NEW list \in Seq(S), NEW ids, NEW counter, Numbers(ids, counter)
  PROVE  /\ Numbers(Numbered(ids, counter, list), counter + Cardinality(NewAt(ids, list)))
         /\ DOMAIN Numbered(ids, counter, list) = DOMAIN ids \cup Range(list)
         /\ \A n \in DOMAIN ids : Numbered(ids, counter, list)[n] = ids[n]
<1> DEFINE new == Numbered(ids, counter, list)
           after == counter + Cardinality(NewAt(ids, list))
           N == NewAt(ids, list)
           D == DOMAIN ids
           F(m) == {k \in 1..Len(list) : list[k] = m}
<1>0. /\ counter \in Nat \ {0} /\ ids \in [DOMAIN ids -> 1..counter-1]
      /\ \A m, n \in DOMAIN ids : ids[m] = ids[n] => m = n
      /\ \A k \in 1..counter-1 : \E n \in DOMAIN ids : ids[n] = k
  BY DEF Numbers
<1>1. /\ Len(list) \in Nat /\ DOMAIN list = 1..Len(list)
      /\ \A x \in Range(list) : \E k \in 1..Len(list) : list[k] = x
      /\ \A k \in 1..Len(list) : list[k] \in Range(list)
  BY ListFacts DEF Range
<1>2. N \in SUBSET Int /\ IsFiniteSet(N) /\ N \in SUBSET (1..Len(list))
  <2>1. N \in SUBSET (1..Len(list))
    BY <1>1 DEF NewAt
  <2>2. IsFiniteSet(1..Len(list))
    BY <1>1, FS_Interval
  <2> QED BY <1>1, <2>1, <2>2, FS_Subset
<1>3. /\ Cardinality(N) \in Nat
      /\ \A x \in N : Rank(N, x) \in 1..Cardinality(N)
      /\ \A x, y \in N : x < y => Rank(N, x) < Rank(N, y)
      /\ \A n \in 1..Cardinality(N) : \E x \in N : Rank(N, x) = n
  BY <1>2, Ranks
(* a new node, and where it is listed first *)
<1>4. ASSUME NEW m \in Range(list) \ D
      PROVE  \E k \in N : list[k] = m /\ new[m] = counter + Rank(N, k) - 1
  <2>1. F(m) \in SUBSET Nat /\ F(m) # {}
    BY <1>1
  <2>2. PICK k \in F(m) : \A l \in F(m) : k <= l
    BY <2>1, LeastElement
  <2>3. k \in 1..Len(list) /\ list[k] = m /\ k \in Int
    BY <1>1, <2>2
  <2>4. \A l \in 1..k-1 : list[l] # m
    BY <1>1, <2>2, <2>3
  <2>5. k \in N
    BY <1>1, <2>3, <2>4 DEF NewAt
  <2> DEFINE before == {j \in N : \A l \in 1..j : list[l] # m}
             upto == {j \in N : j <= k}
  <2>6. before \in SUBSET N /\ k \notin before /\ upto = before \cup {k}
    <3>1. \A j \in N : j < k => \A l \in 1..j : list[l] # m
      BY <1>2, <2>3, <2>4
    <3>2. \A j \in N : j >= k => ~(\A l \in 1..j : list[l] # m)
      BY <1>2, <2>3
    <3> HIDE DEF N
    <3>3. \A j \in N : j \in before <=> j < k
      BY <1>2, <2>3, <3>1, <3>2
    <3>4. \A j \in N : j \in upto <=> j <= k
      OBVIOUS
    <3>5. before \in SUBSET N /\ upto \in SUBSET N
      OBVIOUS
    <3> HIDE DEF before, upto
    <3>6. \A j \in N : j <= k <=> j < k \/ j = k
      BY <1>2, <2>3
    <3>7. ~(k < k)
      BY <2>3
    <3> QED BY <2>5, <3>3, <3>4, <3>5, <3>6, <3>7
  <2>7. new[m] = counter + Cardinality(before)
    <3>1. m \in D \cup Range(list) /\ m \notin D
      OBVIOUS
    <3> QED BY <3>1 DEF Numbered
  <2> HIDE DEF before, upto, N, new
  <2>8. IsFiniteSet(before)
    BY <1>2, <2>6, FS_Subset
  <2>9. Cardinality(upto) = Cardinality(before) + 1 /\ Cardinality(before) \in Nat
    BY <2>6, <2>8, FS_AddElement, FS_CardinalityType
  <2>10. Rank(N, k) = Cardinality(upto)
    BY DEF Rank, upto
  <2>11. new[m] = counter + Rank(N, k) - 1
    BY <1>0, <2>7, <2>9, <2>10
  <2> QED BY <2>3, <2>5, <2>11
<1>5. DOMAIN new = D \cup Range(list) /\ \A n \in D : new[n] = ids[n]
  BY DEF Numbered
<1>6. \A n \in D : ids[n] \in 1..counter-1
  BY <1>0
<1>7. \A k \in N : list[k] \in Range(list) \ D
  BY <1>1, <1>2 DEF NewAt
<1>8. \A k, l \in N : list[k] = list[l] => k = l
  <2>1. \A k \in N : \A l \in 1..k-1 : list[l] # list[k]
    BY <1>1 DEF NewAt
  <2> HIDE DEF N
  <2>2. ASSUME NEW k \in N, NEW l \in N, list[k] = list[l] PROVE k = l
    <3>1. ~(k < l) /\ ~(l < k)
      BY <1>2, <2>1, <2>2
    <3> QED BY <1>2, <3>1
  <2> QED BY <2>2
<1> HIDE DEF N, D, F, new, after
<1>9. after = counter + Cardinality(N) /\ after \in Nat \ {0}
  BY <1>0, <1>3 DEF N, after
<1>10. ASSUME NEW m \in Range(list) \ D PROVE new[m] \in counter..after-1
  <2>1. PICK k \in N : list[k] = m /\ new[m] = counter + Rank(N, k) - 1
    BY <1>4
  <2>2. Rank(N, k) \in 1..Cardinality(N)
    BY <1>3
  <2> QED BY <1>3, <1>0, <1>9, <2>1, <2>2
<1>11. ASSUME NEW m \in DOMAIN new PROVE new[m] \in 1..after-1
  <2>1. CASE m \in D
    BY <1>3, <1>5, <1>6, <1>0, <1>9, <2>1
  <2>2. CASE m \in Range(list) \ D
    BY <1>0, <1>9, <1>10, <2>2
  <2> QED BY <1>5, <2>1, <2>2
<1>12. new \in [DOMAIN new -> 1..after-1]
  <2>1. new = [m \in DOMAIN new |-> new[m]]
    BY DEF Numbered, new
  <2> QED BY <1>11, <2>1
<1>13. ASSUME NEW m \in DOMAIN new, NEW n \in DOMAIN new, new[m] = new[n] PROVE m = n
  <2>1. CASE m \in D /\ n \in D
    BY <1>0, <1>5, <1>13, <2>1 DEF D
  <2>2. CASE m \in D /\ n \in Range(list) \ D
    BY <1>5, <1>6, <1>0, <1>9, <1>10, <1>13, <2>2
  <2>3. CASE m \in Range(list) \ D /\ n \in D
    BY <1>5, <1>6, <1>0, <1>9, <1>10, <1>13, <2>3
  <2>4. CASE m \in Range(list) \ D /\ n \in Range(list) \ D
    <3>1. PICK k \in N : list[k] = m /\ new[m] = counter + Rank(N, k) - 1
      BY <1>4, <2>4
    <3>2. PICK l \in N : list[l] = n /\ new[n] = counter + Rank(N, l) - 1
      BY <1>4, <2>4
    <3>3. Rank(N, k) \in Int /\ Rank(N, l) \in Int /\ k \in Int /\ l \in Int
      BY <1>2, <1>3
    <3>4. Rank(N, k) = Rank(N, l)
      <4>1. counter + Rank(N, k) - 1 = counter + Rank(N, l) - 1
        BY <1>13, <3>1, <3>2
      <4> QED BY <1>0, <3>3, <4>1
    <3>5. k = l
      BY <1>3, <3>3, <3>4
    <3> QED BY <3>1, <3>2, <3>5
  <2> QED BY <1>5, <2>1, <2>2, <2>3, <2>4
<1>14. ASSUME NEW k \in 1..after-1 PROVE \E n \in DOMAIN new : new[n] = k
  <2>1. CASE k < counter
    <3>1. PICK n \in D : ids[n] = k
      BY <1>0, <2>1 DEF D
    <3> QED BY <1>5, <3>1
  <2>2. CASE k >= counter
    <3>1. k - counter + 1 \in 1..Cardinality(N)
      BY <1>3, <1>0, <1>9, <2>2
    <3>2. PICK x \in N : Rank(N, x) = k - counter + 1
      BY <1>3, <3>1
    <3>3. list[x] \in Range(list) \ D
      BY <1>7
    <3>4. PICK l \in N : list[l] = list[x] /\ new[list[x]] = counter + Rank(N, l) - 1
      BY <1>4, <3>3
    <3>5. l = x
      BY <1>8, <3>4
    <3>6. new[list[x]] = k
      BY <1>0, <1>9, <3>2, <3>4, <3>5
    <3> QED BY <1>5, <3>3, <3>6
  <2> QED BY <1>0, <1>9, <2>1, <2>2
<1>15. Numbers(new, after)
  BY <1>9, <1>12, <1>13, <1>14 DEF Numbers
<1> QED BY <1>5, <1>15 DEF D, new, after


(* The sinks of a node that have to wait are those that are neither marked *)
(* nor the node itself.                                                    *)
LEMMA UnmarkedFacts ==
  ASSUME NEW S, NEW n, automaton.outputs[n] \in Seq(S)
  PROVE  /\ Unmarked(n) \in Seq(S)
         /\ Range(Unmarked(n)) = Range(automaton.outputs[n]) \ (marked \cup {n})
<1> DEFINE list == automaton.outputs[n]
           at == {k \in DOMAIN list : list[k] \notin marked \cup {n}}
           N == Cardinality(at)
           a == Ascending(at)
           u == [k \in 1..N |-> list[a[k]]]
<1>1. /\ Len(list) \in Nat /\ DOMAIN list = 1..Len(list)
      /\ \A k \in 1..Len(list) : list[k] \in S
      /\ \A x \in Range(list) : \E k \in 1..Len(list) : list[k] = x
      /\ \A k \in 1..Len(list) : list[k] \in Range(list)
  BY ListFacts DEF Range
<1>2. at \in SUBSET Int /\ at \in SUBSET (1..Len(list)) /\ IsFiniteSet(at)
  <2>1. at \in SUBSET (1..Len(list))
    BY <1>1
  <2>2. IsFiniteSet(1..Len(list))
    BY <1>1, FS_Interval
  <2> HIDE DEF at
  <2>3. IsFiniteSet(at)
    BY <2>1, <2>2, FS_Subset
  <2>4. \A k \in at : k \in Int
    BY <1>1, <2>1
  <2>5. at \in SUBSET Int
    BY <2>4
  <2> QED BY <2>1, <2>3, <2>5
<1>3. \A k \in at : list[k] \in Range(list) \ (marked \cup {n}) /\ list[k] \in S
  BY <1>1
<1>4. \A x \in Range(list) \ (marked \cup {n}) : \E k \in at : list[k] = x
  BY <1>1
<1>5. Unmarked(n) = u
  BY DEF Unmarked
<1> HIDE DEF at, list
<1>6. /\ a \in Seq(at) /\ Range(a) = at /\ DOMAIN a = 1..Len(a) /\ Len(a) = N /\ N \in Nat
  BY <1>2, AscendingFacts
<1> HIDE DEF a, N
<1>7. \A k \in 1..N : a[k] \in at
  BY <1>6 DEF Range
<1>8. \A k \in at : \E l \in 1..N : a[l] = k
  BY <1>6 DEF Range
<1>9. u \in [1..N -> S]
  BY <1>3, <1>7
<1>10. u \in Seq(S)
  BY <1>6, <1>9
<1>11. Range(u) = Range(list) \ (marked \cup {n})
  <2>1. DOMAIN u = 1..N /\ \A k \in 1..N : u[k] = list[a[k]]
    OBVIOUS
  <2> HIDE DEF u
  <2>2. \A k \in DOMAIN u : u[k] \in Range(list) \ (marked \cup {n})
    BY <1>3, <1>7, <2>1
  <2>3. \A x \in Range(list) \ (marked \cup {n}) : \E k \in DOMAIN u : u[k] = x
    <3> TAKE x \in Range(list) \ (marked \cup {n})
    <3>1. PICK k \in at : list[k] = x
      BY <1>4
    <3>2. PICK l \in 1..N : a[l] = k
      BY <1>8
    <3> QED BY <2>1, <3>1, <3>2
  <2>4. Range(u) = {u[k] : k \in DOMAIN u}
    BY DEF Range
  <2> QED BY <2>2, <2>3, <2>4
<1> QED BY <1>5, <1>10, <1>11 DEF list

(* A row does not change when only nodes that it does not lead to get ids. *)
LEMMA RowUnchanged ==
  ASSUME NEW n, NEW ids, NEW more, Sinks(automaton, n) \subseteq DOMAIN ids,
         \A m \in DOMAIN ids : more[m] = ids[m]
  PROVE  Row(n, more) = Row(n, ids)
<1>1. ASSUME NEW c \in Symbol, On(automaton, n, c) # {}
      PROVE  (CHOOSE m \in On(automaton, n, c) : TRUE) \in DOMAIN ids
  <2>1. (CHOOSE m \in On(automaton, n, c) : TRUE) \in On(automaton, n, c)
    BY <1>1
  <2> QED BY <2>1 DEF On
<1>2. \A c \in Symbol : On(automaton, n, c) # {} =>
        more[CHOOSE m \in On(automaton, n, c) : TRUE] = ids[CHOOSE m \in On(automaton, n, c) : TRUE]
  BY <1>1
<1> QED BY <1>2 DEF Row


(* A list is one of its own elements. *)
LEMMA ListOfRange ==
  ASSUME NEW S, NEW list \in Seq(S)
  PROVE  list \in Seq(Range(list))
<1>1. Len(list) \in Nat /\ DOMAIN list = 1..Len(list)
  BY ListFacts
<1>2. \A k \in 1..Len(list) : list[k] \in Range(list)
  BY <1>1 DEF Range
<1>3. list = [k \in 1..Len(list) |-> list[k]]
  BY <1>1
<1>4. list \in [1..Len(list) -> Range(list)]
  BY <1>2, <1>3
<1> QED BY <1>1, <1>4, SeqDef

-----------------------------------------------------------------------------
(* A node that is built is one that has an id and is not marked. *)
BuildOf(n) == automaton \in Networks /\ automaton' = automaton /\ n \in DOMAIN id_map \ marked /\ Build(n)

(* Its sinks have ids afterwards, and no id changes. *)
LEMMA BuildIds ==
  ASSUME NEW n, BuildOf(n), IdsInv
  PROVE  /\ n \in 1..automaton.size
         /\ IdsInv'
         /\ DOMAIN id_map' = DOMAIN id_map \cup Range(automaton.outputs[n])
         /\ \A m \in DOMAIN id_map : id_map'[m] = id_map[m]
<1>1. n \in 1..automaton.size
  BY DEF BuildOf, IdsInv
<1>2. automaton.outputs[n] \in Seq(1..automaton.size)
        /\ Range(automaton.outputs[n]) \subseteq 1..automaton.size
  BY <1>1, NetFacts DEF BuildOf
<1>3. Numbers(id_map, state_counter) /\ DOMAIN id_map \subseteq 1..automaton.size
  BY DEF IdsInv
<1> DEFINE list == automaton.outputs[n]
<1>4. /\ id_map' = Numbered(id_map, state_counter, list)
      /\ state_counter' = state_counter + Cardinality(NewAt(id_map, list))
      /\ automaton' = automaton
  BY DEF BuildOf, Build
<1>5. list \in Seq(1..automaton.size)
  BY <1>2
<1> HIDE DEF list
<1>6. /\ Numbers(Numbered(id_map, state_counter, list), state_counter + Cardinality(NewAt(id_map, list)))
      /\ DOMAIN Numbered(id_map, state_counter, list) = DOMAIN id_map \cup Range(list)
      /\ \A m \in DOMAIN id_map : Numbered(id_map, state_counter, list)[m] = id_map[m]
  BY <1>3, <1>5, NumberedFacts
<1>7. /\ Numbers(id_map', state_counter')
      /\ DOMAIN id_map' = DOMAIN id_map \cup Range(list)
      /\ \A m \in DOMAIN id_map : id_map'[m] = id_map[m]
  BY <1>4, <1>6
<1>8. IdsInv'
  BY <1>2, <1>3, <1>4, <1>7 DEF IdsInv, list
<1> QED BY <1>1, <1>7, <1>8 DEF list

(* The rows that exist stay what they are, and the node gets its own. *)
LEMMA BuildRows ==
  ASSUME NEW n, BuildOf(n), IdsInv, RowsInv
  PROVE  RowsInv'
<1>1. /\ n \in 1..automaton.size /\ n # 0
      /\ DOMAIN id_map' = DOMAIN id_map \cup Range(automaton.outputs[n])
      /\ \A m \in DOMAIN id_map : id_map'[m] = id_map[m]
  <2>1. n \in 1..automaton.size => n # 0
    OBVIOUS
  <2> QED BY <2>1, BuildIds
<1>2. /\ automaton' = automaton /\ automaton \in Networks /\ n \in DOMAIN id_map \ marked
      /\ marked' = marked \cup {n}
      /\ state_table_map' = AddTo(state_table_map, id_map[n], Row(n, id_map'))
  BY DEF BuildOf, Build
<1>3. /\ marked \subseteq DOMAIN id_map
      /\ DOMAIN state_table_map = {0} \cup {id_map[m] : m \in marked}
      /\ \A m \in {0} \cup marked :
           Sinks(automaton, m) \subseteq DOMAIN id_map /\ state_table_map[Id(m)] = Row(m, id_map)
  BY DEF RowsInv
<1>4. \A m : Sinks(automaton', m) = Sinks(automaton, m)
  BY <1>2
<1>5. \A m : Row(m, id_map)' = Row(m, id_map')
  BY <1>2 DEF Row
<1>6. marked' \subseteq DOMAIN id_map'
  BY <1>1, <1>2, <1>3
<1>7. /\ DOMAIN state_table_map' = DOMAIN state_table_map \cup {id_map[n]}
      /\ state_table_map'[id_map[n]] = Row(n, id_map')
      /\ \A q \in DOMAIN state_table_map : q # id_map[n] => state_table_map'[q] = state_table_map[q]
  BY <1>2 DEF AddTo
<1>8. DOMAIN state_table_map' = {0} \cup {id_map'[m] : m \in marked'}
  <2>1. {id_map'[m] : m \in marked'} = {id_map[m] : m \in marked} \cup {id_map[n]}
    BY <1>1, <1>2, <1>3
  <2> QED BY <1>3, <1>7, <2>1
<1>9. \A m \in {0} \cup DOMAIN id_map : Id(m)' = Id(m)
  BY <1>1 DEF Id
<1>10. ASSUME NEW m \in {0} \cup marked'
       PROVE  Sinks(automaton', m) \subseteq DOMAIN id_map' /\ state_table_map'[Id(m)'] = Row(m, id_map)'
  <2>1. CASE m = n
    <3>1. Id(m)' = id_map[n]
      BY <1>1, <1>2, <2>1 DEF Id
    <3>2. Sinks(automaton, m) = Range(automaton.outputs[n])
      BY <1>1, <2>1 DEF Sinks
    <3> QED BY <1>1, <1>4, <1>5, <1>7, <2>1, <3>1, <3>2
  <2>2. CASE m # n
    <3>1. m \in {0} \cup marked /\ m \in {0} \cup DOMAIN id_map
      BY <1>2, <1>3, <2>2
    <3>2. Id(m)' = Id(m) /\ Id(m) \in DOMAIN state_table_map
      BY <1>3, <1>9, <3>1 DEF Id
    <3>3. Id(m) # id_map[n]
      <4>1. id_map[n] \in 1..state_counter-1 /\ id_map[n] # 0
        <5>1. id_map[n] \in 1..state_counter-1
          BY <1>2 DEF IdsInv, Numbers
        <5> QED BY <5>1
      <4>2. CASE m = 0
        BY <4>1, <4>2 DEF Id
      <4>3. CASE m # 0
        BY <1>2, <2>2, <3>1, <4>3 DEF Id, IdsInv, Numbers
      <4> QED BY <4>2, <4>3
    <3>4. state_table_map'[Id(m)] = Row(m, id_map)
      BY <1>3, <1>7, <3>1, <3>2, <3>3
    <3>5. Row(m, id_map') = Row(m, id_map)
      BY <1>1, <1>3, <3>1, RowUnchanged
    <3>6. Sinks(automaton, m) \subseteq DOMAIN id_map'
      BY <1>1, <1>3, <3>1
    <3> QED BY <1>4, <1>5, <3>2, <3>4, <3>5, <3>6
  <2> QED BY <2>1, <2>2
<1> QED BY <1>6, <1>8, <1>10 DEF RowsInv

(* A node that reports gets a rule that no other node has. *)
LEMMA BuildCodes ==
  ASSUME NEW n, BuildOf(n), IdsInv, RowsInv, CodesInv
  PROVE  CodesInv'
<1>1. \A m \in DOMAIN id_map : id_map'[m] = id_map[m]
  BY BuildIds
<1>2. /\ automaton' = automaton /\ n \in DOMAIN id_map \ marked /\ marked' = marked \cup {n}
      /\ marked \subseteq DOMAIN id_map
  BY DEF BuildOf, Build, RowsInv
<1>3. /\ accept_counter \in Nat \ {0}
      /\ DOMAIN accepting_codes_map = {id_map[m] : m \in marked \cap automaton.report}
      /\ \A q \in DOMAIN accepting_codes_map : accepting_codes_map[q] \in 1..accept_counter-1
      /\ \A p, q \in DOMAIN accepting_codes_map : accepting_codes_map[p] = accepting_codes_map[q] => p = q
  BY DEF CodesInv
<1>4. \A m \in marked \cup {n} : id_map'[m] = id_map[m]
  BY <1>1, <1>2
<1>5. CASE n \notin automaton.report
  <2>1. UNCHANGED <<accepting_codes_map, accept_counter>>
    BY <1>5 DEF BuildOf, Build
  <2>2. marked' \cap automaton.report = marked \cap automaton.report
    BY <1>2, <1>5
  <2>3. {id_map'[m] : m \in marked' \cap automaton.report} = {id_map[m] : m \in marked \cap automaton.report}
    BY <1>4, <2>2
  <2> QED BY <1>2, <1>3, <2>1, <2>3 DEF CodesInv
<1>6. CASE n \in automaton.report
  <2>1. /\ accepting_codes_map' = AddTo(accepting_codes_map, id_map[n], accept_counter)
        /\ accept_counter' = accept_counter + 1
    BY <1>6 DEF BuildOf, Build
  <2>2. id_map[n] \notin DOMAIN accepting_codes_map
    BY <1>2, <1>3 DEF IdsInv, Numbers
  <2>3. /\ DOMAIN accepting_codes_map' = DOMAIN accepting_codes_map \cup {id_map[n]}
        /\ accepting_codes_map'[id_map[n]] = accept_counter
        /\ \A q \in DOMAIN accepting_codes_map : accepting_codes_map'[q] = accepting_codes_map[q]
    BY <2>1, <2>2 DEF AddTo
  <2>4. DOMAIN accepting_codes_map' = {id_map'[m] : m \in marked' \cap automaton.report}
    <3>1. marked' \cap automaton.report = (marked \cap automaton.report) \cup {n}
      BY <1>2, <1>6
    <3> QED BY <1>3, <1>4, <2>3, <3>1
  <2>5. accept_counter' \in Nat \ {0}
    BY <1>3, <2>1
  <2>6. \A q \in DOMAIN accepting_codes_map' : accepting_codes_map'[q] \in 1..accept_counter'-1
    BY <1>3, <2>1, <2>3
  <2>7. \A p, q \in DOMAIN accepting_codes_map' :
          accepting_codes_map'[p] = accepting_codes_map'[q] => p = q
    <3>1. \A q \in DOMAIN accepting_codes_map : accepting_codes_map[q] # accept_counter
      BY <1>3
    <3> QED BY <1>3, <2>3, <3>1
  <2> QED BY <1>2, <2>4, <2>5, <2>6, <2>7 DEF CodesInv
<1> QED BY <1>5, <1>6


(* Lists put together, and a list without its first element. *)
LEMMA ListParts ==
  ASSUME NEW S, NEW list \in Seq(S)
  PROVE  /\ \A T : S \subseteq T => list \in Seq(T)
         /\ \A more \in Seq(S) : list \o more \in Seq(S) /\ Range(list \o more) = Range(list) \cup Range(more)
         /\ list # <<>> => /\ Head(list) \in S /\ Tail(list) \in Seq(S)
                           /\ Range(list) \subseteq Range(Tail(list)) \cup {Head(list)}
<1>1. Len(list) \in Nat /\ DOMAIN list = 1..Len(list) /\ \A k \in 1..Len(list) : list[k] \in S
  BY ListFacts
<1>2. ASSUME NEW T, S \subseteq T PROVE list \in Seq(T)
  <2>1. list = [k \in 1..Len(list) |-> list[k]]
    BY <1>1
  <2>2. list \in [1..Len(list) -> T]
    BY <1>1, <1>2, <2>1
  <2> QED BY <1>1, <2>2, SeqDef
<1>3. ASSUME NEW more \in Seq(S)
      PROVE  list \o more \in Seq(S) /\ Range(list \o more) = Range(list) \cup Range(more)
  <2>1. Len(more) \in Nat /\ DOMAIN more = 1..Len(more)
    BY ListFacts
  <2>2. list \o more \in Seq(S) /\ Len(list \o more) = Len(list) + Len(more)
    BY ConcatProperties
  <2> DEFINE both == list \o more
  <2>3. \A k \in 1..Len(list) : both[k] = list[k]
    BY <1>1, <2>1
  <2>4. \A k \in 1..Len(more) : both[Len(list) + k] = more[k]
    BY <1>1, <2>1
  <2>5. DOMAIN both = 1..Len(list) + Len(more)
    BY <1>1, <2>1, <2>2
  <2> HIDE DEF both
  <2>6. \A k \in 1..Len(list) + Len(more) : k \in 1..Len(list) \/ k - Len(list) \in 1..Len(more)
    BY <1>1, <2>1
  <2>7. \A k \in 1..Len(more) : Len(list) + k \in 1..Len(list) + Len(more)
    BY <1>1, <2>1
  <2>7a. \A k \in 1..Len(list) : k \in 1..Len(list) + Len(more)
    BY <1>1, <2>1
  <2>8. ASSUME NEW k \in DOMAIN both PROVE both[k] \in Range(list) \cup Range(more)
    <3>1. CASE k \in 1..Len(list)
      BY <1>1, <2>3, <3>1 DEF Range
    <3>2. CASE k - Len(list) \in 1..Len(more)
      <4>1. Len(list) + (k - Len(list)) = k
        BY <1>1, <2>5
      <4>2. both[Len(list) + (k - Len(list))] = more[k - Len(list)]
        BY <2>4, <3>2
      <4> QED BY <2>1, <3>2, <4>1, <4>2 DEF Range
    <3> QED BY <2>5, <2>6, <3>1, <3>2
  <2>9. ASSUME NEW x \in Range(list) \cup Range(more) PROVE \E k \in DOMAIN both : both[k] = x
    <3>1. CASE x \in Range(list)
      BY <1>1, <2>3, <2>5, <2>7a, <3>1 DEF Range
    <3>2. CASE x \in Range(more)
      BY <2>1, <2>4, <2>5, <2>7, <3>2 DEF Range
    <3> QED BY <3>1, <3>2
  <2>10. Range(both) = Range(list) \cup Range(more)
    <3>1. Range(both) = {both[k] : k \in DOMAIN both}
      BY DEF Range
    <3> QED BY <2>8, <2>9, <3>1
  <2> QED BY <2>2, <2>10 DEF both
<1>4. ASSUME list # <<>>
      PROVE  /\ Head(list) \in S /\ Tail(list) \in Seq(S)
             /\ Range(list) \subseteq Range(Tail(list)) \cup {Head(list)}
  <2>1. /\ Head(list) \in S /\ Tail(list) \in Seq(S) /\ Head(list) = list[1]
        /\ Len(Tail(list)) = Len(list) - 1
        /\ \A k \in 1..Len(Tail(list)) : Tail(list)[k] = list[k+1]
    BY <1>4, HeadTailProperties
  <2>2. DOMAIN Tail(list) = 1..Len(Tail(list))
    BY <2>1
  <2>3. ASSUME NEW k \in 1..Len(list), k # 1 PROVE list[k] \in Range(Tail(list))
    <3>1. k - 1 \in 1..Len(Tail(list)) /\ (k - 1) + 1 = k
      BY <1>1, <2>1, <2>3
    <3>2. Tail(list)[k - 1] = list[k]
      BY <2>1, <3>1
    <3> QED BY <2>2, <3>1, <3>2 DEF Range
  <2> QED BY <1>1, <2>1, <2>3 DEF Range
<1> QED BY <1>2, <1>3, <1>4

(* What is left of the queue, and the sinks that have to wait behind it. *)
Rest == IF pc = "queue" THEN Tail(to_process) ELSE to_process

LEMMA BuildQueue ==
  ASSUME NEW n, BuildOf(n), IdsInv, RowsInv, Rest \in Seq(DOMAIN id_map)
  PROVE  /\ to_process' \in Seq(DOMAIN id_map') /\ Range(Rest) \subseteq Range(to_process')
         /\ \A m \in DOMAIN id_map' \ marked' :
              m \in Range(to_process') \/ m \in DOMAIN id_map \ (marked \cup {n})
<1> DEFINE list == automaton.outputs[n]
<1>1. n \in 1..automaton.size /\ DOMAIN id_map' = DOMAIN id_map \cup Range(list)
  BY BuildIds
<1>2. list \in Seq(1..automaton.size)
  BY <1>1, NetFacts DEF BuildOf
<1>3. automaton.outputs[n] \in Seq(Range(list))
  BY <1>2, ListOfRange
<1>4. Unmarked(n) \in Seq(Range(list)) /\ Range(Unmarked(n)) = Range(list) \ (marked \cup {n})
  BY <1>3, UnmarkedFacts
<1>5. to_process' = Rest \o Unmarked(n) /\ marked' = marked \cup {n} /\ n \in DOMAIN id_map
  BY DEF BuildOf, Build, Rest
<1> HIDE DEF list
<1>6. PICK S : S = DOMAIN id_map'
  OBVIOUS
<1>7. DOMAIN id_map \subseteq S /\ Range(list) \subseteq S
  BY <1>1, <1>6
<1>8. Rest \in Seq(S) /\ Unmarked(n) \in Seq(S)
  BY <1>4, <1>7, ListParts
<1>9. /\ Rest \o Unmarked(n) \in Seq(S)
      /\ Range(Rest \o Unmarked(n)) = Range(Rest) \cup Range(Unmarked(n))
  BY <1>8, ListParts
<1>10. to_process' \in Seq(DOMAIN id_map') /\ Range(to_process') = Range(Rest) \cup Range(Unmarked(n))
  BY <1>5, <1>6, <1>9
<1>11. ASSUME NEW m \in DOMAIN id_map' \ marked'
       PROVE  m \in Range(to_process') \/ m \in DOMAIN id_map \ (marked \cup {n})
  BY <1>1, <1>4, <1>5, <1>10
<1> QED BY <1>10, <1>11


-----------------------------------------------------------------------------
(* Every start state is in the list of them once. *)
LEMMA StartsFacts ==
  ASSUME automaton \in Networks
  PROVE  /\ Starts \in Seq(automaton.starts) /\ Range(Starts) = automaton.starts
         /\ Len(Starts) \in Nat /\ DOMAIN Starts = 1..Len(Starts)
         /\ \A j, k \in 1..Len(Starts) : Starts[j] = Starts[k] => j = k
         /\ \A k \in 1..Len(Starts) : Starts[k] \in automaton.starts
         /\ \A n \in automaton.starts : \E k \in 1..Len(Starts) : Starts[k] = n
<1>1. automaton.starts \in SUBSET Int /\ IsFiniteSet(automaton.starts)
  BY NetFacts
<1>2. /\ Starts \in Seq(automaton.starts) /\ Range(Starts) = automaton.starts
      /\ Len(Starts) \in Nat /\ DOMAIN Starts = 1..Len(Starts)
      /\ \A j, k \in 1..Len(Starts) : Starts[j] = Starts[k] => j = k
  BY <1>1, AscendingFacts DEF Starts
<1> QED BY <1>2 DEF Range

LEMMA StartsKept == ASSUME automaton' = automaton PROVE Starts' = Starts
BY DEF Starts

(* All start states get their ids. *)
LEMMA FindStartsNodes ==
  ASSUME automaton \in Networks, automaton' = automaton, pc = "find",
         marked = {}, to_process = <<>>, next = 1, accept_counter = 1, accepting_codes_map = Empty,
         FindStarts
  PROVE  NodesInv' /\ pc' = "starts"
<1>1. /\ Starts \in Seq(automaton.starts) /\ Range(Starts) = automaton.starts
      /\ Len(Starts) \in Nat /\ DOMAIN Starts = 1..Len(Starts)
      /\ \A j, k \in 1..Len(Starts) : Starts[j] = Starts[k] => j = k
      /\ \A n \in automaton.starts : \E k \in 1..Len(Starts) : Starts[k] = n
  BY StartsFacts
<1>2. /\ id_map' = Numbered(Empty, 1, Starts) /\ state_counter' = 1 + Len(Starts)
      /\ state_table_map' = AddTo(Empty, 0, Row(0, id_map')) /\ pc' = "starts"
      /\ next' = 1 /\ marked' = {} /\ to_process' = <<>>
      /\ accept_counter' = 1 /\ accepting_codes_map' = Empty
  BY DEF FindStarts
<1>3. DOMAIN Empty = {}
  BY DEF Empty
<1>4. IdsInv' /\ DOMAIN id_map' = automaton.starts
  <2>1. Numbers(Empty, 1)
    <3>1. Empty \in [DOMAIN Empty -> 1..1-1]
      BY DEF Empty
    <3>2. 1 \in Nat \ {0} /\ \A k \in 1..1-1 : FALSE
      OBVIOUS
    <3> QED BY <1>3, <3>1, <3>2 DEF Numbers
  <2>2. NewAt(Empty, Starts) = 1..Len(Starts)
    <3>1. \A k \in 1..Len(Starts) : \A l \in 1..k-1 : Starts[l] # Starts[k]
      <4> TAKE k \in 1..Len(Starts)
      <4> TAKE l \in 1..k-1
      <4>1. l \in 1..Len(Starts) /\ l # k
        BY <1>1
      <4> QED BY <1>1, <4>1
    <3> QED BY <1>1, <1>3, <3>1 DEF NewAt
  <2>3. Cardinality(1..Len(Starts)) = Len(Starts)
    <3>1. Cardinality(1..Len(Starts)) = IF 1 > Len(Starts) THEN 0 ELSE Len(Starts) - 1 + 1
      BY <1>1, FS_Interval
    <3> QED BY <1>1, <3>1
  <2>4. /\ Numbers(Numbered(Empty, 1, Starts), 1 + Cardinality(NewAt(Empty, Starts)))
        /\ DOMAIN Numbered(Empty, 1, Starts) = DOMAIN Empty \cup Range(Starts)
    BY <1>1, <2>1, NumberedFacts
  <2>5. Numbers(id_map', state_counter') /\ DOMAIN id_map' = automaton.starts
    BY <1>1, <1>2, <1>3, <2>2, <2>3, <2>4
  <2>6. automaton.starts \in SUBSET (1..automaton.size)
    BY NetFacts
  <2> QED BY <2>5, <2>6 DEF IdsInv
<1>5. RowsInv'
  <2>1. DOMAIN state_table_map' = {0} /\ state_table_map'[0] = Row(0, id_map')
    BY <1>2, <1>3 DEF AddTo
  <2>2. Sinks(automaton', 0) = automaton.starts /\ Id(0)' = 0
    BY DEF Sinks, Id
  <2>3. Row(0, id_map)' = Row(0, id_map')
    BY DEF Row
  <2>4. \A n \in {0} \cup marked' : n = 0
    BY <1>2
  <2>5. {id_map'[n] : n \in marked'} = {}
    BY <1>2
  <2> QED BY <1>2, <1>4, <2>1, <2>2, <2>3, <2>4, <2>5 DEF RowsInv
<1>6. WaitingInv'
  <2>1. Starts' = Starts
    BY StartsKept
  <2>2. next' \in 1..Len(Starts)+1
    BY <1>1, <1>2
  <2>3. to_process' \in Seq(DOMAIN id_map')
    BY <1>2
  <2>4. \A n \in DOMAIN id_map' : \E k \in next'..Len(Starts) : Starts[k] = n
    BY <1>1, <1>2, <1>4
  <2> QED BY <1>2, <2>1, <2>2, <2>3, <2>4 DEF WaitingInv
<1>7. CodesInv'
  BY <1>2, <1>3 DEF CodesInv
<1> QED BY <1>2, <1>4, <1>5, <1>6, <1>7 DEF NodesInv

(* A start state is built. *)
LEMMA BuildStartNodes ==
  ASSUME automaton \in Networks, automaton' = automaton, NodesInv, BuildStart
  PROVE  NodesInv'
<1>1. /\ Len(Starts) \in Nat /\ DOMAIN Starts = 1..Len(Starts)
      /\ \A j, k \in 1..Len(Starts) : Starts[j] = Starts[k] => j = k
      /\ \A k \in 1..Len(Starts) : Starts[k] \in automaton.starts
  BY StartsFacts
<1>2. PICK n : n = Starts[next]
  OBVIOUS
<1>3. /\ pc = "starts" /\ pc' = "starts" /\ next <= Len(Starts) /\ next' = next + 1 /\ Build(n)
  BY <1>2 DEF BuildStart
<1>4. /\ next \in 1..Len(Starts)+1 /\ to_process \in Seq(DOMAIN id_map)
      /\ \A m \in DOMAIN id_map \ marked :
           m \in Range(to_process) \/ \E k \in next..Len(Starts) : Starts[k] = m
      /\ \A k \in next..Len(Starts) : Starts[k] \notin marked
  BY <1>3 DEF NodesInv, WaitingInv
<1>5. next \in 1..Len(Starts) /\ next \in next..Len(Starts) /\ next \in Int
  BY <1>1, <1>3, <1>4
<1>6. n \in DOMAIN id_map \ marked
  <2>1. Sinks(automaton, 0) \subseteq DOMAIN id_map
    BY DEF NodesInv, RowsInv
  <2>2. n \in automaton.starts /\ n \notin marked
    BY <1>1, <1>2, <1>4, <1>5
  <2> QED BY <2>1, <2>2 DEF Sinks
<1>7. BuildOf(n) /\ marked' = marked \cup {n}
  BY <1>3, <1>6 DEF BuildOf, Build
<1>8. IdsInv' /\ RowsInv' /\ CodesInv'
  BY <1>7, BuildIds, BuildRows, BuildCodes DEF NodesInv
<1>9. Rest = to_process
  BY <1>3 DEF Rest
<1>10. /\ to_process' \in Seq(DOMAIN id_map') /\ Range(to_process) \subseteq Range(to_process')
       /\ \A m \in DOMAIN id_map' \ marked' :
            m \in Range(to_process') \/ m \in DOMAIN id_map \ (marked \cup {n})
  BY <1>4, <1>7, <1>9, BuildQueue DEF NodesInv
<1>11. WaitingInv'
  <2>1. Starts' = Starts
    BY StartsKept
  <2>2. next' \in 1..Len(Starts)+1
    BY <1>1, <1>3, <1>5
  <2>3. \A k \in next..Len(Starts) : k = next \/ k \in next'..Len(Starts)
    BY <1>1, <1>3, <1>5
  <2>4. \A k \in next'..Len(Starts) : k # next /\ k \in next..Len(Starts) /\ k \in 1..Len(Starts)
    BY <1>1, <1>3, <1>5
  <2>5. ASSUME NEW m \in DOMAIN id_map' \ marked'
        PROVE  m \in Range(to_process') \/ \E k \in next'..Len(Starts) : Starts[k] = m
    <3>1. CASE m \in DOMAIN id_map \ (marked \cup {n})
      <4>1. m \in Range(to_process) \/ \E k \in next..Len(Starts) : Starts[k] = m
        BY <1>4, <3>1
      <4> QED BY <1>2, <1>10, <2>3, <3>1, <4>1
    <3> QED BY <1>10, <3>1
  <2>6. \A k \in next'..Len(Starts) : Starts[k] \notin marked'
    BY <1>1, <1>2, <1>4, <1>5, <1>7, <2>4
  <2> QED BY <1>3, <1>10, <2>1, <2>2, <2>5, <2>6 DEF WaitingInv
<1> QED BY <1>8, <1>11 DEF NodesInv

(* The first node of the queue is built. *)
LEMMA BuildNextNodes ==
  ASSUME automaton \in Networks, automaton' = automaton, NodesInv, BuildNext
  PROVE  NodesInv'
<1>1. PICK n : n = Head(to_process)
  OBVIOUS
<1>2. /\ pc = "queue" /\ pc' = "queue" /\ to_process # <<>> /\ n \notin marked
      /\ next' = next /\ Build(n)
  BY <1>1 DEF BuildNext
<1>3. /\ next = Len(Starts) + 1 /\ next \in 1..Len(Starts)+1 /\ to_process \in Seq(DOMAIN id_map)
      /\ \A m \in DOMAIN id_map \ marked :
           m \in Range(to_process) \/ \E k \in next..Len(Starts) : Starts[k] = m
  BY <1>2 DEF NodesInv, WaitingInv
<1>4. /\ Head(to_process) \in DOMAIN id_map /\ Tail(to_process) \in Seq(DOMAIN id_map)
      /\ Range(to_process) \subseteq Range(Tail(to_process)) \cup {Head(to_process)}
  BY <1>2, <1>3, ListParts
<1>5. BuildOf(n) /\ marked' = marked \cup {n}
  BY <1>1, <1>2, <1>4 DEF BuildOf, Build
<1>6. IdsInv' /\ RowsInv' /\ CodesInv'
  BY <1>5, BuildIds, BuildRows, BuildCodes DEF NodesInv
<1>7. Rest = Tail(to_process)
  BY <1>2 DEF Rest
<1>8. /\ to_process' \in Seq(DOMAIN id_map') /\ Range(Tail(to_process)) \subseteq Range(to_process')
      /\ \A m \in DOMAIN id_map' \ marked' :
           m \in Range(to_process') \/ m \in DOMAIN id_map \ (marked \cup {n})
  BY <1>4, <1>5, <1>7, BuildQueue DEF NodesInv
<1>9. WaitingInv'
  <2>1. Starts' = Starts
    BY StartsKept
  <2>2. ASSUME NEW m \in DOMAIN id_map' \ marked'
        PROVE  m \in Range(to_process') \/ \E k \in next'..Len(Starts) : Starts[k] = m
    <3>1. CASE m \in DOMAIN id_map \ (marked \cup {n})
      <4>1. m \in Range(to_process) \/ \E k \in next..Len(Starts) : Starts[k] = m
        BY <1>3, <3>1
      <4> QED BY <1>1, <1>2, <1>4, <1>8, <3>1, <4>1
    <3> QED BY <1>8, <3>1
  <2> QED BY <1>2, <1>3, <1>8, <2>1, <2>2 DEF WaitingInv
<1> QED BY <1>6, <1>9 DEF NodesInv

(* A node that was built is left out. *)
LEMMA SkipMarkedNodes ==
  ASSUME automaton \in Networks, automaton' = automaton, NodesInv, SkipMarked
  PROVE  NodesInv'
<1>1. /\ pc = "queue" /\ pc' = "queue" /\ to_process # <<>> /\ Head(to_process) \in marked
      /\ to_process' = Tail(to_process)
      /\ UNCHANGED <<automaton, next, id_map, marked, state_counter, accept_counter, state_table_map,
                     accepting_codes_map>>
  BY DEF SkipMarked
<1>2. IdsInv'
  BY <1>1 DEF NodesInv, IdsInv
<1>3. RowsInv'
  <2>1. \A n : Row(n, id_map)' = Row(n, id_map) /\ Id(n)' = Id(n)
          /\ Sinks(automaton', n) = Sinks(automaton, n)
    BY <1>1 DEF Row, Id
  <2> QED BY <1>1, <2>1 DEF NodesInv, RowsInv
<1>4. CodesInv'
  BY <1>1 DEF NodesInv, CodesInv
<1>5. WaitingInv'
  <2>1. Starts' = Starts
    BY StartsKept
  <2>2. to_process \in Seq(DOMAIN id_map) /\ WaitingInv
    BY DEF NodesInv, WaitingInv
  <2>3. /\ Tail(to_process) \in Seq(DOMAIN id_map)
        /\ Range(to_process) \subseteq Range(Tail(to_process)) \cup {Head(to_process)}
    BY <1>1, <2>2, ListParts
  <2>4. \A n \in DOMAIN id_map \ marked : n \in Range(to_process) => n \in Range(Tail(to_process))
    BY <1>1, <2>3
  <2> QED BY <1>1, <2>1, <2>2, <2>3, <2>4 DEF WaitingInv
<1> QED BY <1>2, <1>3, <1>4, <1>5 DEF NodesInv


-----------------------------------------------------------------------------
(* Steps that leave the nodes as they are. *)
LEMMA NodesKept ==
  ASSUME NodesInv, UNCHANGED <<automaton, mnrlVars>>, next = Len(Starts) + 1, pc' # "starts"
  PROVE  NodesInv'
<1>1. UNCHANGED <<automaton, next, id_map, marked, to_process, state_counter, accept_counter, state_table_map,
                  accepting_codes_map>>
  BY DEF mnrlVars
<1>2. IdsInv' /\ CodesInv'
  BY <1>1 DEF NodesInv, IdsInv, CodesInv
<1>3. RowsInv'
  <2>1. \A n : Row(n, id_map)' = Row(n, id_map) /\ Id(n)' = Id(n)
          /\ Sinks(automaton', n) = Sinks(automaton, n)
    BY <1>1 DEF Row, Id
  <2> QED BY <1>1, <2>1 DEF NodesInv, RowsInv
<1>4. WaitingInv'
  <2>1. Starts' = Starts
    BY <1>1, StartsKept
  <2> QED BY <1>1, <2>1 DEF NodesInv, WaitingInv
<1> QED BY <1>2, <1>3, <1>4 DEF NodesInv

(* The states of the nodes: their ids are the numbers of the rows. *)
LEMMA StatesFacts ==
  ASSUME automaton \in Networks, NodesInv, marked = DOMAIN id_map
  PROVE  /\ DOMAIN state_table_map = 0..state_counter-1
         /\ \A n \in {0} \cup DOMAIN id_map : Id(n) \in 0..state_counter-1 /\ n \in 0..automaton.size
         /\ \A q \in 0..state_counter-1 : \E n \in {0} \cup DOMAIN id_map : Id(n) = q
         /\ \A n \in {0} \cup DOMAIN id_map :
              state_table_map[Id(n)] = Row(n, id_map) /\ Sinks(automaton, n) \subseteq DOMAIN id_map
         /\ \A n \in DOMAIN id_map : id_map[n] \in 1..state_counter-1 /\ n # 0 /\ Id(n) = id_map[n]
<1>1. /\ DOMAIN id_map \subseteq 1..automaton.size /\ state_counter \in Nat \ {0}
      /\ id_map \in [DOMAIN id_map -> 1..state_counter-1]
      /\ \A k \in 1..state_counter-1 : \E n \in DOMAIN id_map : id_map[n] = k
      /\ automaton.size \in Nat
  BY NetFacts DEF NodesInv, IdsInv, Numbers
<1>2. /\ DOMAIN state_table_map = {0} \cup {id_map[n] : n \in DOMAIN id_map}
      /\ \A n \in {0} \cup DOMAIN id_map :
           Sinks(automaton, n) \subseteq DOMAIN id_map /\ state_table_map[Id(n)] = Row(n, id_map)
  BY DEF NodesInv, RowsInv
<1>3. \A n \in DOMAIN id_map : id_map[n] \in 1..state_counter-1 /\ n \in 0..automaton.size /\ n # 0
  <2>1. \A n \in 1..automaton.size : n \in 0..automaton.size /\ n # 0
    BY <1>1
  <2> QED BY <1>1, <2>1
<1>4. \A n \in DOMAIN id_map : Id(n) = id_map[n]
  BY <1>3 DEF Id
<1>5. \A k : k \in 0..state_counter-1 <=> k = 0 \/ k \in 1..state_counter-1
  BY <1>1
<1>6. DOMAIN state_table_map = 0..state_counter-1
  <2>1. \A k \in DOMAIN state_table_map : k \in 0..state_counter-1
    BY <1>2, <1>3, <1>5
  <2>2. \A k \in 0..state_counter-1 : k \in DOMAIN state_table_map
    BY <1>1, <1>2, <1>5
  <2> QED BY <2>1, <2>2
<1>7. Id(0) = 0 /\ 0 \in 0..automaton.size
  BY <1>1 DEF Id
<1>8. \A n \in {0} \cup DOMAIN id_map : Id(n) \in 0..state_counter-1 /\ n \in 0..automaton.size
  BY <1>3, <1>4, <1>5, <1>7
<1>9. \A q \in 0..state_counter-1 : \E n \in {0} \cup DOMAIN id_map : Id(n) = q
  BY <1>1, <1>4, <1>5, <1>7
<1> QED BY <1>2, <1>3, <1>4, <1>6, <1>8, <1>9

(* An entry is the id of the only sink, and missing when there is none. *)
LEMMA EntryFacts ==
  ASSUME automaton \in Networks, NodesInv, marked = DOMAIN id_map,
         NEW n \in {0} \cup DOMAIN id_map, NEW c \in Symbol
  PROVE  /\ On(automaton, n, c) = {} => state_table_map[Id(n)][c] = UNINIT
         /\ On(automaton, n, c) # {} =>
              /\ Successor(n, c) \in DOMAIN id_map
              /\ state_table_map[Id(n)][c] = id_map[Successor(n, c)]
<1>1. state_table_map[Id(n)] = Row(n, id_map) /\ Sinks(automaton, n) \subseteq DOMAIN id_map
  BY StatesFacts
<1>2. automaton.format = "mnrl"
  BY NetFacts
<1>3. Successor(n, c) = CHOOSE m \in On(automaton, n, c) : TRUE
  BY <1>2 DEF Successor
<1>4. Row(n, id_map)[c] = IF On(automaton, n, c) = {} THEN UNINIT ELSE id_map[Successor(n, c)]
  BY <1>3 DEF Row
<1>5. ASSUME On(automaton, n, c) # {} PROVE Successor(n, c) \in DOMAIN id_map
  <2>1. Successor(n, c) \in On(automaton, n, c)
    BY <1>3, <1>5
  <2> QED BY <1>1, <2>1 DEF On
<1> QED BY <1>1, <1>4, <1>5

(* The rows of all states are copied. *)
LEMMA CopyTableNodes ==
  ASSUME automaton \in Networks, automaton' = automaton, NodesInv, CopyTable
  PROVE  /\ NodesInv' /\ pc' = "table" /\ marked' = DOMAIN id_map'
         /\ states2rules_' = [q \in DOMAIN accepting_codes_map' |-> {accepting_codes_map'[q]}]
         /\ dfa_state_table_' = [q \in 0..state_counter'-1 |-> state_table_map'[q]]
<1>1. pc = "queue" /\ to_process = <<>> /\ UNCHANGED mnrlVars
  BY DEF CopyTable
<1>2. next = Len(Starts) + 1 /\ Len(Starts) \in Nat
  BY <1>1, StartsFacts DEF NodesInv, WaitingInv
<1>3. marked = DOMAIN id_map
  <2>1. Range(to_process) = {} /\ next..Len(Starts) = {}
    BY <1>1, <1>2 DEF Range
  <2>2. \A n \in DOMAIN id_map \ marked : FALSE
    BY <2>1 DEF NodesInv, WaitingInv
  <2> QED BY <2>2 DEF NodesInv, RowsInv
<1>4. 0..state_counter-1 \subseteq DOMAIN state_table_map
  BY <1>3, StatesFacts
<1>5. /\ dfa_state_table_' = [q \in 0..state_counter-1 |-> state_table_map[q]]
      /\ states2rules_' = [q \in DOMAIN accepting_codes_map |-> {accepting_codes_map[q]}]
      /\ pc' = "table"
  BY <1>4 DEF CopyTable
<1>6. NodesInv'
  BY <1>1, <1>2, <1>5, NodesKept
<1> QED BY <1>1, <1>3, <1>5, <1>6 DEF mnrlVars


(* Accepting entries are negated, when every entry was assigned. *)
LEMMA NegateNodes ==
  ASSUME automaton \in Networks, automaton' = automaton, NodesInv, IdleInv,
         UNCHANGED kernelVars, pc = "table", LoadedInv, Negate
  PROVE  NodesInv' /\ pc' \in {"run", "undefined"} /\ (pc' = "undefined" => ~Complete') /\ LoadedInv'
<1>1. /\ marked = DOMAIN id_map
      /\ states2rules_ = [q \in DOMAIN accepting_codes_map |-> {accepting_codes_map[q]}]
      /\ dfa_state_table_ = [q \in 0..state_counter-1 |-> state_table_map[q]]
  BY DEF LoadedInv
<1>2. /\ UNCHANGED <<id_map, marked, accepting_codes_map, state_counter, state_table_map, states2rules_>>
      /\ UNCHANGED <<current_state, reported, node>>
      /\ UNCHANGED mnrlVars
  BY DEF Negate, mnrlVars, kernelVars
<1>3. current_state = 0 /\ reported = {} /\ node = 0
  BY DEF IdleInv
<1>4. /\ \A n \in {0} \cup DOMAIN id_map : Id(n) \in 0..state_counter-1 /\ n \in 0..automaton.size
      /\ \A q \in 0..state_counter-1 : \E n \in {0} \cup DOMAIN id_map : Id(n) = q
      /\ \A n \in DOMAIN id_map : id_map[n] \in 1..state_counter-1
  BY <1>1, StatesFacts
<1>5. DOMAIN dfa_state_table_ = 0..state_counter-1
      /\ \A q \in 0..state_counter-1 : dfa_state_table_[q] = state_table_map[q]
  BY <1>1
<1>6. CASE Initialized
  <2>1. /\ dfa_state_table_' =
             [q \in DOMAIN dfa_state_table_ |-> [c \in Symbol |-> Signed(dfa_state_table_[q][c])]]
        /\ pc' = "run"
    BY <1>6 DEF Negate
  <2>2. ASSUME NEW n \in {0} \cup DOMAIN id_map, NEW c \in Symbol
        PROVE  On(automaton, n, c) # {}
    <3>1. dfa_state_table_[Id(n)][c] # UNINIT /\ dfa_state_table_[Id(n)] = state_table_map[Id(n)]
      BY <1>4, <1>5, <1>6 DEF Initialized
    <3> QED BY <1>1, <3>1, EntryFacts
  <2>4. dfa_state_table_' = Negated(state_table_map, state_counter)
    BY <1>5, <2>1 DEF Negated
  <2>5. dfa_state_table_' = Negated(state_table_map, state_counter)'
    BY <1>2, <2>4 DEF Negated, Signed
  <2>6. \A n \in {0} \cup DOMAIN id_map', c \in Symbol : On(automaton', n, c) # {}
    BY <1>2, <2>2
  <2>7. node' \in {0} \cup DOMAIN id_map' /\ current_state' = Id(node)'
    BY <1>2, <1>3 DEF Id
  <2>8. reported' # {} <=> node' \in automaton'.report
    <3>1. automaton.report \subseteq 1..automaton.size
      BY LoaderAssumption
    <3>2. automaton.size \in Nat
      BY NetFacts
    <3>3. 0 \notin 1..automaton.size
      BY <3>2
    <3> QED BY <1>2, <1>3, <3>1, <3>3
  <2>9. LoadedInv'
    BY <1>1, <1>2, <2>1, <2>5, <2>6, <2>7, <2>8 DEF LoadedInv
  <2>10. next = Len(Starts) + 1
    BY DEF NodesInv, WaitingInv
  <2>11. NodesInv'
    BY <1>2, <2>1, <2>10, NodesKept
  <2> QED BY <2>1, <2>9, <2>11
<1>7. CASE ~Initialized
  <2>1. pc' = "undefined"
    BY <1>7 DEF Negate
  <2>2. PICK q \in 0..state_counter-1, c \in Symbol : state_table_map[q][c] = UNINIT
    BY <1>5, <1>7 DEF Initialized
  <2>3. PICK n \in {0} \cup DOMAIN id_map : Id(n) = q
    BY <1>4
  <2>4. On(automaton, n, c) = {}
    <3>1. SUFFICES ASSUME On(automaton, n, c) # {} PROVE FALSE
      OBVIOUS
    <3>2. state_table_map[Id(n)][c] \in 1..state_counter-1
      BY <1>1, <1>4, <3>1, EntryFacts
    <3> QED BY <2>2, <2>3, <3>2 DEF UNINIT
  <2>5. ~Complete
    <3>1. automaton.format = "mnrl" /\ n \in 0..automaton.size
      BY <1>4, NetFacts
    <3> QED BY <2>4, <3>1 DEF Complete
  <2>6. ~Complete'
    BY <2>5 DEF Complete
  <2>7. next = Len(Starts) + 1
    BY DEF NodesInv, WaitingInv
  <2>8. NodesInv'
    BY <1>2, <2>1, <2>7, NodesKept
  <2> QED BY <2>1, <2>6, <2>8 DEF LoadedInv
<1> QED BY <1>6, <1>7

(* A symbol leads the kernel and the network to the same node. *)
LEMMA ScanNodes ==
  ASSUME automaton \in Networks, NodesInv, LoadedInv, NEW c \in Symbol, Scan(c)
  PROVE  NodesInv' /\ pc' = "run" /\ LoadedInv'
<1>1. /\ pc = "run" /\ pc' = "run" /\ automaton' = automaton /\ UNCHANGED mnrlVars
           /\ node' = Successor(node, c)
      /\ UNCHANGED <<id_map, marked, accepting_codes_map, state_counter, state_table_map, states2rules_,
                     dfa_state_table_>>
  BY DEF Scan, mnrlVars
<1> DEFINE entry == dfa_state_table_[current_state][c]
<1>2. current_state' = (IF entry < 0 THEN -entry ELSE entry)
        /\ reported' = (IF entry < 0 THEN RulesOf(-entry) ELSE {})
  BY DEF Scan
<1>3. /\ marked = DOMAIN id_map
      /\ states2rules_ = [q \in DOMAIN accepting_codes_map |-> {accepting_codes_map[q]}]
      /\ dfa_state_table_ = Negated(state_table_map, state_counter)
      /\ \A n \in {0} \cup DOMAIN id_map, d \in Symbol : On(automaton, n, d) # {}
      /\ node \in {0} \cup DOMAIN id_map /\ current_state = Id(node)
  BY <1>1 DEF LoadedInv
<1>4. /\ \A n \in {0} \cup DOMAIN id_map : Id(n) \in 0..state_counter-1
      /\ \A n \in DOMAIN id_map : id_map[n] \in 1..state_counter-1 /\ n # 0 /\ Id(n) = id_map[n]
  BY <1>3, StatesFacts
<1>5. PICK m : m = Successor(node, c)
  OBVIOUS
<1>6. m \in DOMAIN id_map /\ state_table_map[current_state][c] = id_map[m]
  BY <1>3, <1>5, EntryFacts
<1>7. entry = Signed(id_map[m]) /\ id_map[m] \in Nat \ {0}
  <2>1. current_state \in 0..state_counter-1
    BY <1>3, <1>4
  <2>2. dfa_state_table_[current_state][c] = Signed(state_table_map[current_state][c])
    BY <1>3, <2>1 DEF Negated
  <2>3. id_map[m] \in 1..state_counter-1
    BY <1>4, <1>6
  <2> QED BY <1>6, <2>2, <2>3
<1> HIDE DEF entry
<1>8. id_map[m] \in DOMAIN states2rules_ <=> m \in automaton.report
  <2>1. DOMAIN states2rules_ = {id_map[n] : n \in DOMAIN id_map \cap automaton.report}
    BY <1>3 DEF NodesInv, CodesInv
  <2>2. \A n \in DOMAIN id_map : id_map[n] = id_map[m] => n = m
    BY <1>6 DEF NodesInv, IdsInv, Numbers
  <2> QED BY <1>6, <2>1, <2>2
<1>9. current_state' = id_map[m] /\ (reported' # {} <=> m \in automaton.report)
  <2>1. CASE m \in automaton.report
    <3>1. entry = -id_map[m] /\ entry < 0 /\ -entry = id_map[m]
      BY <1>7, <1>8, <2>1 DEF Signed
    <3>2. current_state' = id_map[m] /\ reported' = RulesOf(id_map[m])
      BY <1>2, <3>1
    <3>3. RulesOf(id_map[m]) = {accepting_codes_map[id_map[m]]}
      BY <1>3, <1>8, <2>1 DEF RulesOf
    <3> QED BY <2>1, <3>2, <3>3
  <2>2. CASE m \notin automaton.report
    <3>1. entry = id_map[m] /\ ~(entry < 0)
      BY <1>7, <1>8, <2>2 DEF Signed
    <3> QED BY <1>2, <2>2, <3>1
  <2> QED BY <2>1, <2>2
<1>10. node' \in {0} \cup DOMAIN id_map' /\ current_state' = Id(node)'
         /\ (reported' # {} <=> node' \in automaton'.report)
  <2>1. node' = m /\ Id(node)' = id_map[m]
    BY <1>1, <1>4, <1>5, <1>6 DEF Id
  <2> QED BY <1>1, <1>6, <1>9, <2>1
<1>12. dfa_state_table_' = Negated(state_table_map, state_counter)'
  BY <1>1, <1>3 DEF Negated, Signed
<1>13. LoadedInv'
  BY <1>1, <1>3, <1>10, <1>12 DEF LoadedInv
<1>14. next = Len(Starts) + 1
  BY <1>1 DEF NodesInv, WaitingInv
<1>15. NodesInv'
  BY <1>1, <1>14, NodesKept
<1> QED BY <1>1, <1>13, <1>15


(* A step on a network. *)
LEMMA NetworkStep ==
  ASSUME automaton \in Networks, NetworkInv, IdleInv, LoaderNext
  PROVE  automaton' = automaton /\ NetworkInv' /\ IdleInv'
<1>1. pc \in {"find", "starts", "queue", "table", "run", "undefined"}
  BY DEF NetworkInv
<1>2. \/ /\ UNCHANGED <<automaton, kernelVars>>
         /\ \/ FindStarts \/ BuildStart \/ StartsBuilt \/ BuildNext \/ SkipMarked \/ CopyTable \/ Negate
      \/ \E c \in Symbol : Scan(c)
  <2>1. ~Dump /\ ~ReadPair /\ ~ReadTable
    BY <1>1 DEF Dump, ReadPair, ReadTable
  <2> QED BY <2>1 DEF LoaderNext, Load
<1>3. pc # "find" => NodesInv
  BY DEF NetworkInv
<1>4. ASSUME UNCHANGED <<automaton, kernelVars>>, pc' # "run", pc # "run" PROVE IdleInv'
  BY <1>4 DEF IdleInv, kernelVars
<1>5. ASSUME pc' \in {"starts", "queue"}, NodesInv'
      PROVE  NetworkInv'
  BY <1>5 DEF NetworkInv, LoadedInv
<1>6. CASE UNCHANGED <<automaton, kernelVars>> /\ FindStarts
  <2>1. pc = "find"
    BY <1>6 DEF FindStarts
  <2>2. marked = {} /\ to_process = <<>> /\ next = 1 /\ accept_counter = 1 /\ accepting_codes_map = Empty
    BY <2>1 DEF NetworkInv
  <2>3. NodesInv' /\ pc' = "starts"
    BY <1>6, <2>1, <2>2, FindStartsNodes
  <2> QED BY <1>4, <1>5, <1>6, <2>1, <2>3
<1>7. CASE UNCHANGED <<automaton, kernelVars>> /\ BuildStart
  <2>1. pc = "starts" /\ pc' = "starts"
    BY <1>7 DEF BuildStart
  <2>2. NodesInv'
    BY <1>3, <1>7, <2>1, BuildStartNodes
  <2> QED BY <1>4, <1>5, <1>7, <2>1, <2>2
<1>8. CASE UNCHANGED <<automaton, kernelVars>> /\ StartsBuilt
  <2>1. pc = "starts" /\ pc' = "queue" /\ next > Len(Starts) /\ UNCHANGED mnrlVars
    BY <1>8 DEF StartsBuilt
  <2>2. next = Len(Starts) + 1
    <3>1. next \in 1..Len(Starts)+1 /\ Len(Starts) \in Nat
      BY <1>3, <2>1, StartsFacts DEF NodesInv, WaitingInv
    <3> QED BY <2>1, <3>1
  <2>3. NodesInv'
    BY <1>3, <1>8, <2>1, <2>2, NodesKept
  <2> QED BY <1>4, <1>5, <1>8, <2>1, <2>3
<1>9. CASE UNCHANGED <<automaton, kernelVars>> /\ BuildNext
  <2>1. pc = "queue" /\ pc' = "queue"
    BY <1>9 DEF BuildNext
  <2>2. NodesInv'
    BY <1>3, <1>9, <2>1, BuildNextNodes
  <2> QED BY <1>4, <1>5, <1>9, <2>1, <2>2
<1>10. CASE UNCHANGED <<automaton, kernelVars>> /\ SkipMarked
  <2>1. pc = "queue" /\ pc' = "queue"
    BY <1>10 DEF SkipMarked
  <2>2. NodesInv'
    BY <1>3, <1>10, <2>1, SkipMarkedNodes
  <2> QED BY <1>4, <1>5, <1>10, <2>1, <2>2
<1>11. CASE UNCHANGED <<automaton, kernelVars>> /\ CopyTable
  <2>1. pc = "queue"
    BY <1>11 DEF CopyTable
  <2>2. /\ NodesInv' /\ pc' = "table" /\ marked' = DOMAIN id_map'
        /\ states2rules_' = [q \in DOMAIN accepting_codes_map' |-> {accepting_codes_map'[q]}]
        /\ dfa_state_table_' = [q \in 0..state_counter'-1 |-> state_table_map'[q]]
    BY <1>3, <1>11, <2>1, CopyTableNodes
  <2>3. NetworkInv'
    BY <2>2 DEF NetworkInv, LoadedInv
  <2> QED BY <1>4, <1>11, <2>1, <2>2, <2>3
<1>12. CASE UNCHANGED <<automaton, kernelVars>> /\ Negate
  <2>1. pc = "table" /\ LoadedInv
    BY <1>12 DEF Negate, NetworkInv
  <2>2. NodesInv' /\ pc' \in {"run", "undefined"} /\ (pc' = "undefined" => ~Complete') /\ LoadedInv'
    BY <1>3, <1>12, <2>1, NegateNodes
  <2>3. NetworkInv'
    BY <2>2 DEF NetworkInv
  <2>4. IdleInv'
    BY <1>12, <2>1 DEF IdleInv, kernelVars
  <2> QED BY <1>12, <2>3, <2>4
<1>13. ASSUME NEW c \in Symbol, Scan(c)
       PROVE  automaton' = automaton /\ NetworkInv' /\ IdleInv'
  <2>1. pc = "run" /\ LoadedInv /\ automaton' = automaton
    BY <1>13 DEF Scan, NetworkInv
  <2>2. NodesInv' /\ pc' = "run" /\ LoadedInv'
    BY <1>3, <1>13, <2>1, ScanNodes
  <2> QED BY <2>1, <2>2 DEF NetworkInv, IdleInv
<1> QED BY <1>2, <1>6, <1>7, <1>8, <1>9, <1>10, <1>11, <1>12, <1>13

-----------------------------------------------------------------------------
(* What the assumption says of a DFA. *)
LEMMA DfaFacts ==
  ASSUME NEW d \in Dfas
  PROVE  /\ d.format = "binary" /\ d.size \in Nat \ {0} /\ 0 \in 0..d.size-1
         /\ d.state_table \in [0..d.size-1 -> [Symbol -> 0..d.size-1]]
         /\ \A q \in 0..d.size-1, c \in Symbol : d.state_table[q][c] \in 0..d.size-1
<1>1. /\ d.format = "binary" /\ d.size \in Nat \ {0}
      /\ d.state_table \in [0..d.size-1 -> [Symbol -> 0..d.size-1]]
  BY LoaderAssumption
<1>2. 0 \in 0..d.size-1
  BY <1>1
<1> QED BY <1>1, <1>2

(* The next pair of the file. *)
LEMMA FirstPairFacts ==
  ASSUME automaton \in Dfas, accst \subseteq Pairs, accst # {}
  PROVE  FirstPair \in accst
<1> DEFINE T == {p[1] : p \in accst}
<1>1. \A p \in Pairs : p[1] \in 0..automaton.size-1
  BY DEF Pairs
<1>2. automaton.size \in Nat
  BY DfaFacts
<1>3. T \in SUBSET Nat /\ T # {}
  <2>1. \A k \in 0..automaton.size-1 : k \in Nat
    BY <1>2
  <2> QED BY <1>1, <2>1
<1>4. PICK x \in T : \A y \in T : x <= y
  BY <1>3, LeastElement
<1>5. PICK p \in accst : p[1] = x
  BY <1>4
<1>6. \A r \in accst : p[1] <= r[1]
  BY <1>4, <1>5
<1> QED BY <1>5, <1>6 DEF FirstPair

(* A pair goes from the file to the rules of its state. *)
LEMMA ReadPairKeeps ==
  ASSUME automaton \in Dfas, automaton' = automaton, PairsInv, ReadPair
  PROVE  PairsInv'
<1>1. /\ accst \subseteq Pairs
      /\ \A q \in DOMAIN states2rules_ :
           q \in 0..automaton.size-1 /\ states2rules_[q] # {}
             /\ states2rules_[q] \subseteq automaton.accepted_rules[q]
      /\ \A p \in Pairs : p \in accst \/ (p[1] \in DOMAIN states2rules_ /\ p[2] \in states2rules_[p[1]])
  BY DEF PairsInv
<1>2. accst # {}
  BY DEF ReadPair
<1>3. PICK f : f = FirstPair
  OBVIOUS
<1>4. f \in accst
  BY <1>1, <1>2, <1>3, FirstPairFacts
<1>5. /\ states2rules_' = AddTo(states2rules_, f[1], RulesOf(f[1]) \cup {f[2]})
      /\ accst' = accst \ {f}
  BY <1>3 DEF ReadPair
<1>6. f[1] \in 0..automaton.size-1 /\ f[2] \in automaton.accepted_rules[f[1]] /\ f = <<f[1], f[2]>>
  BY <1>1, <1>4 DEF Pairs
<1>7. \A p \in Pairs : p = <<p[1], p[2]>>
  BY DEF Pairs
<1>8. Pairs' = Pairs
  BY DEF Pairs
<1>9. /\ DOMAIN states2rules_' = DOMAIN states2rules_ \cup {f[1]}
      /\ states2rules_'[f[1]] = RulesOf(f[1]) \cup {f[2]}
      /\ \A q \in DOMAIN states2rules_ : q # f[1] => states2rules_'[q] = states2rules_[q]
  BY <1>5 DEF AddTo
<1>10. RulesOf(f[1]) \subseteq automaton.accepted_rules[f[1]]
  BY <1>1 DEF RulesOf
<1>11. ASSUME NEW q \in DOMAIN states2rules_'
       PROVE  q \in 0..automaton.size-1 /\ states2rules_'[q] # {}
                /\ states2rules_'[q] \subseteq automaton.accepted_rules[q]
  <2>1. CASE q = f[1]
    BY <1>6, <1>9, <1>10, <2>1
  <2>2. CASE q # f[1]
    BY <1>1, <1>9, <2>2
  <2> QED BY <2>1, <2>2
<1>12. ASSUME NEW p \in Pairs, p \notin accst'
       PROVE  p[1] \in DOMAIN states2rules_' /\ p[2] \in states2rules_'[p[1]]
  <2>1. CASE p = f
    BY <1>9, <2>1
  <2>2. CASE p # f
    <3>1. p[1] \in DOMAIN states2rules_ /\ p[2] \in states2rules_[p[1]]
      BY <1>1, <1>5, <1>12, <2>2
    <3>2. p[1] = f[1] => p[2] \in RulesOf(f[1])
      BY <3>1 DEF RulesOf
    <3> QED BY <1>9, <3>1, <3>2
  <2> QED BY <2>1, <2>2
<1>13. accst' \subseteq Pairs
  BY <1>1, <1>5
<1> QED BY <1>8, <1>11, <1>12, <1>13 DEF PairsInv

(* The rules of a state are those of the DFA once all pairs are read. *)
LEMMA RulesFacts ==
  ASSUME automaton \in Dfas, PairsInv, accst = {}, NEW q \in 0..automaton.size-1
  PROVE  RulesOf(q) = automaton.accepted_rules[q]
           /\ (q \notin DOMAIN states2rules_ => automaton.accepted_rules[q] = {})
<1>1. \A r \in automaton.accepted_rules[q] : <<q, r>> \in Pairs
  BY DEF Pairs
<1>2. \A r \in automaton.accepted_rules[q] : q \in DOMAIN states2rules_ /\ r \in states2rules_[q]
  <2> TAKE r \in automaton.accepted_rules[q]
  <2>1. <<q, r>>[1] = q /\ <<q, r>>[2] = r
    OBVIOUS
  <2> QED BY <1>1, <2>1 DEF PairsInv
<1>3. q \in DOMAIN states2rules_ => states2rules_[q] \subseteq automaton.accepted_rules[q]
  BY DEF PairsInv
<1> QED BY <1>2, <1>3 DEF RulesOf


(* Steps that leave the rules as they are. *)
LEMMA PairsKept ==
  ASSUME PairsInv, UNCHANGED <<automaton, accst, states2rules_>>
  PROVE  PairsInv'
BY DEF PairsInv, Pairs

(* A symbol leads the kernel and the DFA to the same state. *)
LEMMA ScanDfa ==
  ASSUME automaton \in Dfas, DumpInv, NEW c \in Symbol, Scan(c)
  PROVE  DumpInv' /\ pc' = "run" /\ automaton' = automaton
<1>1. /\ pc = "run" /\ pc' = "run" /\ automaton' = automaton /\ node' = Successor(node, c)
      /\ UNCHANGED <<accst, id_map, state_counter, states2rules_, dfa_state_table_>>
  BY DEF Scan, mnrlVars
<1>2. /\ PairsInv /\ accst = {} /\ id_map = Empty /\ state_counter = 1
      /\ dfa_state_table_ = Negated(automaton.state_table, automaton.size)
      /\ node \in 0..automaton.size-1 /\ current_state = node
  BY <1>1 DEF DumpInv
<1>3. /\ automaton.format = "binary" /\ automaton.size \in Nat
      /\ \A q \in 0..automaton.size-1, d \in Symbol : automaton.state_table[q][d] \in 0..automaton.size-1
  BY DfaFacts
<1>4. PICK t : t = automaton.state_table[node][c]
  OBVIOUS
<1>5. t \in 0..automaton.size-1 /\ t \in Nat /\ node' = t
  <2>1. t \in 0..automaton.size-1
    BY <1>2, <1>3, <1>4
  <2>2. node' = t
    BY <1>1, <1>3, <1>4 DEF Successor
  <2> QED BY <1>3, <2>1, <2>2
<1> DEFINE entry == dfa_state_table_[current_state][c]
<1>6. /\ current_state' = (IF entry < 0 THEN -entry ELSE entry)
      /\ reported' = (IF entry < 0 THEN RulesOf(-entry) ELSE {})
  BY DEF Scan
<1>7. entry = Signed(t)
  BY <1>2, <1>4 DEF Negated
<1> HIDE DEF entry
<1>8. RulesOf(t) = automaton.accepted_rules[t]
        /\ (t \notin DOMAIN states2rules_ => automaton.accepted_rules[t] = {})
  BY <1>2, <1>5, RulesFacts
<1>9. current_state' = t /\ reported' = IF t = 0 THEN {} ELSE automaton.accepted_rules[t]
  <2>1. CASE t \in DOMAIN states2rules_ /\ t # 0
    <3>1. entry = -t /\ entry < 0 /\ -entry = t
      BY <1>5, <1>7, <2>1 DEF Signed
    <3> QED BY <1>6, <1>8, <2>1, <3>1
  <2>2. CASE t = 0
    <3>1. entry = 0 /\ ~(entry < 0)
      <4>1. \A z \in Nat : z <= 0 => -z <= 0 /\ -z >= 0 /\ -z \in Int
        OBVIOUS
      <4>2. -t <= 0 /\ -t >= 0 /\ -t \in Int
        BY <1>5, <2>2, <4>1
      <4>3. entry = -t \/ entry = t
        BY <1>7 DEF Signed
      <4>4. -t = 0
        BY <4>2
      <4> QED BY <2>2, <4>3, <4>4
    <3> QED BY <1>6, <2>2, <3>1
  <2>3. CASE t \notin DOMAIN states2rules_
    <3>1. entry = t /\ ~(entry < 0)
      BY <1>5, <1>7, <2>3 DEF Signed
    <3> QED BY <1>6, <1>8, <2>3, <3>1
  <2> QED BY <2>1, <2>2, <2>3
<1>10. dfa_state_table_' = Negated(automaton.state_table, automaton.size)'
  BY <1>1, <1>2 DEF Negated, Signed
<1>11. PairsInv'
  BY <1>1, <1>2, PairsKept
<1>12. node' \in 0..automaton'.size-1 /\ current_state' = node'
  BY <1>1, <1>5, <1>9
<1>13. reported' = IF node' = 0 THEN {} ELSE automaton'.accepted_rules[node']
  BY <1>1, <1>5, <1>9
<1>14. DumpInv'
  BY <1>1, <1>2, <1>10, <1>11, <1>12, <1>13 DEF DumpInv
<1> QED BY <1>1, <1>14

(* A step on a DFA. *)
LEMMA DumpStep ==
  ASSUME automaton \in Dfas, DumpInv, IdleInv, LoaderNext
  PROVE  automaton' = automaton /\ DumpInv' /\ IdleInv'
<1>1. pc \in {"dump", "pairs", "table", "run"}
  BY DEF DumpInv
<1>2. \/ UNCHANGED <<automaton, kernelVars>> /\ (Dump \/ ReadPair \/ ReadTable \/ Negate)
      \/ \E c \in Symbol : Scan(c)
  <2>1. ~FindStarts /\ ~BuildStart /\ ~StartsBuilt /\ ~BuildNext /\ ~SkipMarked /\ ~CopyTable
    BY <1>1 DEF FindStarts, BuildStart, StartsBuilt, BuildNext, SkipMarked, CopyTable
  <2> QED BY <2>1 DEF LoaderNext, Load
<1>3. id_map = Empty /\ state_counter = 1
  BY DEF DumpInv
<1>4. CASE UNCHANGED <<automaton, kernelVars>> /\ Dump
  <2>1. /\ pc = "dump" /\ accst' = Pairs /\ pc' = "pairs"
        /\ UNCHANGED <<automaton, id_map, state_counter, states2rules_, current_state, reported, node>>
    BY <1>4 DEF Dump, mnrlVars, kernelVars
  <2>2. states2rules_' = Empty /\ DOMAIN Empty = {}
    BY <2>1 DEF DumpInv, Empty
  <2>3. Pairs' = Pairs
    BY <2>1 DEF Pairs
  <2>4. PairsInv'
    BY <2>1, <2>2, <2>3 DEF PairsInv
  <2>5. DumpInv'
    BY <1>3, <2>1, <2>4 DEF DumpInv
  <2> QED BY <2>1, <2>5 DEF IdleInv
<1>5. CASE UNCHANGED <<automaton, kernelVars>> /\ ReadPair
  <2>1. /\ pc = "pairs" /\ pc' = "pairs"
        /\ UNCHANGED <<automaton, id_map, state_counter, current_state, reported, node>>
    BY <1>5 DEF ReadPair, mnrlVars, kernelVars
  <2>2. PairsInv'
    BY <1>5, <2>1, ReadPairKeeps DEF DumpInv
  <2>3. DumpInv'
    BY <1>3, <2>1, <2>2 DEF DumpInv
  <2> QED BY <2>1, <2>3 DEF IdleInv
<1>6. CASE UNCHANGED <<automaton, kernelVars>> /\ ReadTable
  <2>1. /\ pc = "pairs" /\ accst = {} /\ dfa_state_table_' = automaton.state_table /\ pc' = "table"
        /\ UNCHANGED <<automaton, accst, id_map, state_counter, states2rules_, current_state, reported, node>>
    BY <1>6 DEF ReadTable, mnrlVars, kernelVars
  <2>2. PairsInv'
    BY <2>1, PairsKept DEF DumpInv
  <2>3. DumpInv'
    BY <1>3, <2>1, <2>2 DEF DumpInv
  <2> QED BY <2>1, <2>3 DEF IdleInv
<1>7. CASE UNCHANGED <<automaton, kernelVars>> /\ Negate
  <2>1. /\ pc = "table"
        /\ UNCHANGED <<automaton, accst, id_map, state_counter, states2rules_, current_state, reported, node>>
    BY <1>7 DEF Negate, mnrlVars, kernelVars
  <2>2. PairsInv /\ accst = {} /\ dfa_state_table_ = automaton.state_table
    BY <2>1 DEF DumpInv
  <2>3. /\ automaton.state_table \in [0..automaton.size-1 -> [Symbol -> 0..automaton.size-1]]
        /\ 0 \in 0..automaton.size-1 /\ automaton.size \in Nat
        /\ \A q \in 0..automaton.size-1, c \in Symbol : automaton.state_table[q][c] \in 0..automaton.size-1
    BY DfaFacts
  <2>4. DOMAIN automaton.state_table = 0..automaton.size-1
    BY <2>3
  <2>5. Initialized
    <3>1. \A t \in 0..automaton.size-1 : t # UNINIT
      BY <2>3 DEF UNINIT
    <3> QED BY <2>2, <2>3, <2>4, <3>1 DEF Initialized
  <2>6. pc' = "run" /\ dfa_state_table_' = Negated(automaton.state_table, automaton.size)
    BY <1>7, <2>2, <2>4, <2>5 DEF Negate, Negated
  <2>7. dfa_state_table_' = Negated(automaton.state_table, automaton.size)'
    BY <2>1, <2>6 DEF Negated, Signed
  <2>8. PairsInv'
    BY <2>1, <2>2, PairsKept
  <2>9. current_state' = 0 /\ reported' = {} /\ node' = 0
    BY <2>1 DEF IdleInv
  <2>10. DumpInv'
    BY <1>3, <2>1, <2>2, <2>3, <2>6, <2>7, <2>8, <2>9 DEF DumpInv
  <2> QED BY <2>1, <2>6, <2>10 DEF IdleInv
<1>8. ASSUME NEW c \in Symbol, Scan(c)
      PROVE  automaton' = automaton /\ DumpInv' /\ IdleInv'
  <2>1. DumpInv' /\ pc' = "run" /\ automaton' = automaton
    BY <1>8, ScanDfa
  <2> QED BY <2>1 DEF IdleInv
<1> QED BY <1>2, <1>4, <1>5, <1>6, <1>7, <1>8

-----------------------------------------------------------------------------
(* The invariant holds of every behaviour. *)
LEMMA FormatFacts ==
  ASSUME automaton \in Dfas \cup Networks
  PROVE  /\ automaton.format = "binary" <=> automaton \in Dfas
         /\ automaton.format = "mnrl" <=> automaton \in Networks
<1>1. automaton \in Dfas => automaton.format = "binary"
  BY DfaFacts
<1>2. automaton \in Networks => automaton.format = "mnrl"
  BY NetFacts
<1> QED BY <1>1, <1>2

LEMMA LInvInit == ASSUME LoaderInit PROVE LInv
<1>1. /\ automaton \in Dfas \cup Networks /\ accst = {} /\ states2rules_ = Empty
      /\ pc = IF automaton.format = "binary" THEN "dump" ELSE "find"
      /\ id_map = Empty /\ state_counter = 1 /\ marked = {} /\ to_process = <<>> /\ next = 1
      /\ accept_counter = 1 /\ accepting_codes_map = Empty
      /\ current_state = 0 /\ reported = {} /\ node = 0
  BY DEF LoaderInit
<1>2. automaton.format = "binary" => DumpInv
  BY <1>1 DEF DumpInv
<1>3. automaton.format = "mnrl" => NetworkInv
  BY <1>1 DEF NetworkInv, LoadedInv
<1>4. IdleInv
  BY <1>1 DEF IdleInv
<1> QED BY <1>1, <1>2, <1>3, <1>4 DEF LInv

LEMMA LInvStep == ASSUME LInv, [LoaderNext]_loaderVars PROVE LInv'
<1>1. CASE LoaderNext
  <2>1. /\ automaton \in Dfas \cup Networks /\ IdleInv
        /\ automaton.format = "binary" <=> automaton \in Dfas
        /\ automaton.format = "mnrl" <=> automaton \in Networks
    BY FormatFacts DEF LInv
  <2>2. CASE automaton \in Dfas
    <3>1. automaton' = automaton /\ DumpInv' /\ IdleInv'
      BY <1>1, <2>1, <2>2, DumpStep DEF LInv
    <3>2. automaton'.format # "mnrl"
      BY <2>1, <2>2, <3>1
    <3> QED BY <2>1, <3>1, <3>2 DEF LInv
  <2>3. CASE automaton \in Networks
    <3>1. automaton' = automaton /\ NetworkInv' /\ IdleInv'
      BY <1>1, <2>1, <2>3, NetworkStep DEF LInv
    <3>2. automaton'.format # "binary"
      BY <2>1, <2>3, <3>1
    <3> QED BY <2>1, <3>1, <3>2 DEF LInv
  <2> QED BY <2>1, <2>2, <2>3
<1>2. CASE UNCHANGED loaderVars
  <2>1. UNCHANGED <<automaton, pc, accst, next, id_map, marked, to_process, state_counter, accept_counter,
                    state_table_map, accepting_codes_map, states2rules_, dfa_state_table_, current_state,
                    reported, node>>
    BY <1>2 DEF loaderVars, mnrlVars, kernelVars
  <2>2. DumpInv => DumpInv'
    BY <2>1, PairsKept DEF DumpInv, Negated, Signed
  <2>3. NodesInv => NodesInv'
    <3>1. Starts' = Starts
      BY <2>1, StartsKept
    <3>2. \A n : Row(n, id_map)' = Row(n, id_map) /\ Id(n)' = Id(n)
            /\ Sinks(automaton', n) = Sinks(automaton, n)
      BY <2>1 DEF Row, Id
    <3>3. IdsInv => IdsInv'
      BY <2>1 DEF IdsInv
    <3>4. RowsInv => RowsInv'
      BY <2>1, <3>2 DEF RowsInv
    <3>5. WaitingInv => WaitingInv'
      BY <2>1, <3>1 DEF WaitingInv
    <3>6. CodesInv => CodesInv'
      BY <2>1 DEF CodesInv
    <3> QED BY <3>3, <3>4, <3>5, <3>6 DEF NodesInv
  <2>4. LoadedInv => LoadedInv'
    BY <2>1 DEF LoadedInv, Negated, Signed, Id
  <2>5. NetworkInv => NetworkInv'
    BY <2>1, <2>3, <2>4 DEF NetworkInv, Complete
  <2> QED BY <2>1, <2>2, <2>5 DEF LInv, IdleInv
<1> QED BY <1>1, <1>2

LEMMA Loading == LoaderSpec => []LInv
<1>1. LoaderInit => LInv
  BY LInvInit
<1>2. LInv /\ [LoaderNext]_loaderVars => LInv'
  BY LInvStep
<1> QED BY <1>1, <1>2, PTL DEF LoaderSpec


-----------------------------------------------------------------------------
(* The worklist forgets no node of a network, however large: every node    *)
(* that has an id has its row or is waiting for it.                        *)
THEOREM NoNodeIsForgotten == LoaderSpec => []NoNodeForgotten
<1>1. LInv => NoNodeForgotten
  <2>1. SUFFICES ASSUME LInv PROVE NoNodeForgotten
    OBVIOUS
  <2>2. \/ automaton.format = "binary" /\ DumpInv
        \/ automaton.format = "mnrl" /\ NetworkInv
    BY <2>1, FormatFacts DEF LInv
  <2>3. CASE id_map = Empty /\ state_counter = 1
    <3>1. DOMAIN id_map = {}
      BY <2>3 DEF Empty
    <3>2. Range(id_map) = {} /\ 1..state_counter-1 = {}
      BY <2>3, <3>1 DEF Range
    <3> QED BY <3>1, <3>2 DEF NoNodeForgotten, IsInjective
  <2>4. CASE NodesInv
    <3>1. IsInjective(id_map)
      BY <2>4 DEF NodesInv, IdsInv, Numbers, IsInjective
    <3>2. Range(id_map) = 1..state_counter-1
      <4>1. /\ \A n \in DOMAIN id_map : id_map[n] \in 1..state_counter-1
            /\ \A k \in 1..state_counter-1 : \E n \in DOMAIN id_map : id_map[n] = k
        BY <2>4 DEF NodesInv, IdsInv, Numbers
      <4> QED BY <4>1 DEF Range
    <3>3. \A n \in DOMAIN id_map :
            \/ id_map[n] \in DOMAIN state_table_map
            \/ n \in Range(to_process)
            \/ \E k \in next..Len(Starts) : Starts[k] = n
      BY <2>4 DEF NodesInv, RowsInv, WaitingInv
    <3> QED BY <3>1, <3>2, <3>3 DEF NoNodeForgotten
  <2> QED BY <2>2, <2>3, <2>4 DEF DumpInv, NetworkInv
<1> QED BY <1>1, Loading, PTL

(* Every node of a network that reports has a rule of its own. *)
THEOREM RulesTellNodesApart == LoaderSpec => []RulesIdentifyNodes
<1>1. LInv => RulesIdentifyNodes
  <2>1. SUFFICES ASSUME LInv, pc = "run", automaton.format = "mnrl"
                 PROVE  /\ DOMAIN states2rules_ = {id_map[n] : n \in automaton.report \cap DOMAIN id_map}
                         /\ \A p, q \in DOMAIN states2rules_ :
                              states2rules_[p] \cap states2rules_[q] # {} => p = q
    BY DEF RulesIdentifyNodes
  <2>2. /\ marked = DOMAIN id_map
        /\ states2rules_ = [q \in DOMAIN accepting_codes_map |-> {accepting_codes_map[q]}]
        /\ CodesInv
    BY <2>1 DEF LInv, NetworkInv, NodesInv, LoadedInv
  <2>3. DOMAIN states2rules_ = DOMAIN accepting_codes_map
        /\ \A q \in DOMAIN states2rules_ : states2rules_[q] = {accepting_codes_map[q]}
    BY <2>2
  <2>4. DOMAIN states2rules_ = {id_map[n] : n \in automaton.report \cap DOMAIN id_map}
    BY <2>2, <2>3 DEF CodesInv
  <2> QED BY <2>2, <2>3, <2>4 DEF CodesInv
<1> QED BY <1>1, Loading, PTL

(* The kernel runs as the automaton that was loaded, for every DFA and      *)
(* every network and whatever it reads.                                    *)
THEOREM LoadedRunsAsAutomaton == LoaderSpec => []RunsAsAutomaton
<1>1. LInv => RunsAsAutomaton
  <2>1. SUFFICES ASSUME LInv PROVE RunsAsAutomaton
    OBVIOUS
  <2>2. automaton \in Dfas \cup Networks
    BY <2>1 DEF LInv
  <2>3. CASE automaton \in Dfas
    <3>1. automaton.format = "binary" /\ DumpInv
      BY <2>1, <2>2, <2>3, FormatFacts DEF LInv
    <3> QED BY <3>1 DEF DumpInv, RunsAsAutomaton
  <2>4. CASE automaton \in Networks
    <3>1. automaton.format = "mnrl" /\ NetworkInv
      BY <2>1, <2>2, <2>4, FormatFacts DEF LInv
    <3> QED BY <3>1 DEF NetworkInv, LoadedInv, Id, RunsAsAutomaton
  <2> QED BY <2>2, <2>3, <2>4
<1> QED BY <1>1, Loading, PTL
=============================================================================
