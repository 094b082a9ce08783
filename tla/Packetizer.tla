----------------------------- MODULE Packetizer -----------------------------
(***************************************************************************)
(* The input loop of the GPU engine (dfa_engine/udfa_main.cu): the input   *)
(* file is cut into packets of packet_size bytes, every packet is padded   *)
(* with zeros to a whole number of fetched words, and the packets are kept *)
(* end to end in one array together with their padded sizes and the        *)
(* running total of the padding (packets.cu).                              *)
(***************************************************************************)
EXTENDS Integers, Sequences

CONSTANTS
  Byte,        \* the byte values that occur in the input; 0 is the padding
  MaxInput,    \* bound of the models: length of the longest input file
  NPackets,    \* n_packets, as given on the command line
  FetchBytes   \* fetch_bytes, the width of the word a kernel thread reads

ASSUME PacketizerAssumption ==
  /\ 0 \in Byte
  /\ MaxInput \in Nat
  /\ NPackets \in Nat \ {0}
  /\ FetchBytes \in Nat \ {0}

VARIABLES
  input,          \* the file
  pos,            \* bytes read so far (cnt2)
  payload,        \* the packet being filled; its length is cnt
  payloads,       \* payloads_: all packets, end to end
  payload_sizes,  \* payload_sizes_: padded size of every packet
  padded_sizes,   \* padded_sizes_: running total, one entry per PADDED packet
  reading         \* the input loop has not ended

packetVars == <<input, pos, payload, payloads, payload_sizes, padded_sizes, reading>>

(* packet_size: the file size divided by the packets asked for, rounded up *)
PacketSizeOf(total) ==
  IF total % NPackets = 0 THEN total \div NPackets ELSE total \div NPackets + 1

packet_size == PacketSizeOf(Len(input))

Padding(n) == IF n % FetchBytes = 0 THEN 0 ELSE FetchBytes - (n % FetchBytes)

Zeros(n) == [i \in 1..n |-> 0]

PacketizerInit ==
  /\ input \in UNION {[1..n -> Byte] : n \in 0..MaxInput}
  /\ pos = 0
  /\ payload = <<>> /\ payloads = <<>>
  /\ payload_sizes = <<>> /\ padded_sizes = <<>>
  /\ reading = TRUE

(* set_padded_bytes: only called for a packet that needs padding *)
SetPaddedBytes(n) ==
  padded_sizes' =
    IF n = 0 THEN padded_sizes
    ELSE Append(padded_sizes,
                n + IF padded_sizes = <<>> THEN 0 ELSE padded_sizes[Len(padded_sizes)])

(* Mutant: the size is recorded before the packet is padded. *)
AddPacket_UnpaddedSize(p) ==
  /\ SetPaddedBytes(Padding(Len(p)))
  /\ payloads' = payloads \o p \o Zeros(Padding(Len(p)))
  /\ payload_sizes' = Append(payload_sizes, Len(p))
  /\ payload' = <<>>

(* pad the packet p, add_packet, payload.clear() *)
AddPacket(p) ==
  /\ SetPaddedBytes(Padding(Len(p)))
  /\ payloads' = payloads \o p \o Zeros(Padding(Len(p)))
  /\ payload_sizes' = Append(payload_sizes, Len(p) + Padding(Len(p)))
  /\ payload' = <<>>

ReadByte ==
  /\ reading /\ pos < Len(input)
  /\ pos' = pos + 1
  /\ LET p == Append(payload, input[pos + 1])
     IN  IF Len(p) = packet_size
         THEN AddPacket(p)
         ELSE payload' = p /\ UNCHANGED <<payloads, payload_sizes, padded_sizes>>
  /\ UNCHANGED <<input, reading>>

(* Mutant: the bytes of the last, partial packet are dropped. *)
EndOfFile_DropsRest ==
  /\ reading /\ pos = Len(input)
  /\ reading' = FALSE /\ payload' = <<>>
  /\ UNCHANGED <<input, pos, payloads, payload_sizes, padded_sizes>>


EndOfFile ==
  /\ reading /\ pos = Len(input)
  /\ reading' = FALSE
  /\ IF 0 < Len(payload) /\ Len(payload) < packet_size
     THEN AddPacket(payload)
     ELSE UNCHANGED <<payload, payloads, payload_sizes, padded_sizes>>
  /\ UNCHANGED <<input, pos>>

PacketizerNext == ReadByte \/ EndOfFile

PacketizerSpec == PacketizerInit /\ [][PacketizerNext]_packetVars

-----------------------------------------------------------------------------
(* The array of packets as the consumers index it: all packets but the     *)
(* last have the size of the first, so packet j (from 1) starts behind     *)
(* (j - 1) times that size.                                                *)
StoredPacket(j) ==
  SubSeq(payloads, (j - 1) * payload_sizes[1] + 1,
                   (j - 1) * payload_sizes[1] + payload_sizes[j])

(* How many bytes of the file packet j holds. *)
FileBytes(j) ==
  IF j * packet_size <= Len(input) THEN packet_size ELSE Len(input) - (j - 1) * packet_size

(* The layout every consumer of the packets relies on (udfa_host.cu sizes  *)
(* the match arrays from payload_sizes[0], the kernel reads whole words):  *)
(* sizes are positive multiples of the word, all packets but the last are  *)
(* as large as the first, the last is not larger, and together they fill   *)
(* the array exactly.                                                      *)
LayoutOK ==
  LET n == Len(payload_sizes) IN
  /\ \A j \in 1..n :
       /\ payload_sizes[j] > 0 /\ payload_sizes[j] % FetchBytes = 0
       /\ payload_sizes[j] <= payload_sizes[1]
       /\ j < n => payload_sizes[j] = payload_sizes[1]
  /\ Len(payloads) = IF n = 0 THEN 0 ELSE (n - 1) * payload_sizes[1] + payload_sizes[n]

(* No byte is lost, duplicated or moved: packet j holds the j-th piece of  *)
(* the file followed by zeros only, the packet being filled continues      *)
(* where the last one ended, and the end of the file leaves nothing over.  *)
PacketsHoldTheFile ==
  LET n == Len(payload_sizes) IN
  /\ \A j \in 1..n :
       LET k == FileBytes(j) IN
       StoredPacket(j) = SubSeq(input, (j - 1) * packet_size + 1, (j - 1) * packet_size + k)
                           \o Zeros(payload_sizes[j] - k)
  /\ ~reading => payload = <<>> /\ n * packet_size >= Len(input)
  /\ reading  => payload = SubSeq(input, n * packet_size + 1, pos)
=============================================================================
