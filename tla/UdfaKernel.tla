----------------------------- MODULE UdfaKernel -----------------------------
(***************************************************************************)
(* The CUDA kernel (dfa_engine/udfa_gpu.cu, and its texture-memory twin in *)
(* udfa_host.cu): one thread per packet and DFA.  All threads read the one *)
(* array of packets and write into one flat match array, in which the      *)
(* index arithmetic alone gives each thread a range of its own.            *)
(***************************************************************************)
EXTENDS Integers, Sequences

CONSTANTS
  Byte,        \* input byte values
  FetchBytes,  \* bytes per fetched word
  NSubsets,    \* n_subsets: number of DFAs
  MatchFactor, \* the 15 of tmp_avg_count
  NState,      \* every DFA has states 0..NState-1
  Delta,       \* Delta[d][<<s, c>>]: the next state of DFA d
  Accept       \* Accept[d]: its accepting states

State == 0..NState-1

ASSUME KernelAssumption ==
  /\ 0 \in Byte
  /\ FetchBytes \in Nat \ {0}
  /\ NSubsets \in Nat \ {0}
  /\ MatchFactor \in Nat \ {0}
  /\ NState \in Nat \ {0}
  /\ Delta \in [0..NSubsets-1 -> [State \X Byte -> State]]
  /\ Accept \in [0..NSubsets-1 -> SUBSET State]

VARIABLES
  payloads, payload_sizes,  \* the packets, as Packetizer lays them out
  packet_size,              \* the UNPADDED packet size the host passes on
  blockDim,                 \* blockDim.x of the launch
  thr,                      \* thr[t]: the local variables of thread t
  match_array,              \* address -> match, for the addresses written
  match_count               \* slot -> number of matches, for those written

hostVars == <<payloads, payload_sizes, packet_size, blockDim>>
kernelVars == <<payloads, payload_sizes, packet_size, blockDim, thr, match_array, match_count>>

-----------------------------------------------------------------------------
(* The table entry a DFA is loaded with: a transition into an accepting    *)
(* state is stored negated (finite_automaton.cpp).                         *)
Entry(d, s, c) == IF Delta[d][<<s, c>>] \in Accept[d] THEN -Delta[d][<<s, c>>] ELSE Delta[d][<<s, c>>]

(* grid.x, and the grid: grid.y = n_subsets/block.x + 1 *)
GridX == Len(payload_sizes)

Threads == [bx : 0..GridX-1, by : 0..(NSubsets \div blockDim), tx : 0..blockDim-1]

(* the local variables of a thread *)
Locals == [pc : {"run", "exit"}, p : Nat, cnt : Nat, state : State]

DfaId(t) == t.tx + t.by * blockDim

Working(t) == DfaId(t) < NSubsets

(* tmp_avg_count, passed to the kernel as match_vec_size *)
MatchVecSize == (payload_sizes[1] * MatchFactor) \div NSubsets

(* match_count and match_array are allocated for these many entries *)
Slots == GridX * NSubsets

(* Mutants: slots counted from one; the stride of the DFA forgotten. *)
Slot_FromOne(t) == t.bx + (DfaId(t) + 1) * GridX
Slot_NoStride(t) == t.bx + DfaId(t)

Slot(t) == t.bx + DfaId(t) * GridX

MatchAddress(t, n) == n + MatchVecSize * Slot(t)

(* "jump to the right input string": a pointer to words, advanced by       *)
(* pkt_size * blockIdx.x / fetch_bytes of them                             *)
InputStart(t) == FetchBytes * ((packet_size * t.bx) \div FetchBytes)

Put(f, i, v) == [j \in DOMAIN f \cup {i} |-> IF j = i THEN v ELSE f[j]]

-----------------------------------------------------------------------------
Started == [pc |-> "run", p |-> 0, cnt |-> 0, state |-> 0]

Launch ==
  /\ thr = [t \in Threads |-> Started]
  /\ match_array = <<>>
  /\ match_count = <<>>

(* if (dfa_id >= n_subsets) return *)
Return(t) ==
  /\ thr[t].pc = "run" /\ ~Working(t)
  /\ thr' = [thr EXCEPT ![t].pc = "exit"]
  /\ UNCHANGED <<hostVars, match_array, match_count>>

(* p is tested once per word, the bytes of a word are all consumed *)
MoreInput(t) ==
  thr[t].p % FetchBytes # 0 \/ thr[t].p < payload_sizes[t.bx + 1]

(* one byte: look the next state up, record a match *)
ScanByte(t) ==
  /\ thr[t].pc = "run" /\ Working(t) /\ MoreInput(t)
  /\ LET r == thr[t]
         s == Entry(DfaId(t), r.state, payloads[InputStart(t) + r.p + 1])
         Step(n, u) == thr' = [thr EXCEPT ![t] =
                                 [pc |-> "run", p |-> r.p + 1, cnt |-> n, state |-> u]]
     IN IF s < 0
        THEN /\ match_array' = Put(match_array, MatchAddress(t, r.cnt),
                                   [off |-> r.p, stat |-> -s])
             /\ Step(r.cnt + 1, -s)
        ELSE Step(r.cnt, s) /\ UNCHANGED match_array
  /\ UNCHANGED <<hostVars, match_count>>

(* match_count[...] = shr_match_count *)
Finish(t) ==
  /\ thr[t].pc = "run" /\ Working(t) /\ ~MoreInput(t)
  /\ match_count' = Put(match_count, Slot(t), thr[t].cnt)
  /\ thr' = [thr EXCEPT ![t].pc = "exit"]
  /\ UNCHANGED <<hostVars, match_array>>

ThreadStep(t) == Return(t) \/ ScanByte(t) \/ Finish(t)

KernelNext == \E t \in Threads : ThreadStep(t)

(* what cudaThreadSynchronize waits for *)
KernelDone == \A t \in Threads : thr[t].pc = "exit"

(* The packets a launch may be given: the layout Packetizer guarantees.    *)
LayoutOK ==
  LET n == Len(payload_sizes) IN
  /\ payloads \in Seq(Byte) /\ payload_sizes \in Seq(Nat) /\ n > 0
  /\ \A j \in 1..n :
       /\ payload_sizes[j] > 0 /\ payload_sizes[j] % FetchBytes = 0
       /\ payload_sizes[j] <= payload_sizes[1]
       /\ j < n => payload_sizes[j] = payload_sizes[1]
  /\ Len(payloads) = (n - 1) * payload_sizes[1] + payload_sizes[n]

KernelInit ==
  /\ LayoutOK
  /\ packet_size \in 1..payload_sizes[1]
  /\ blockDim \in Nat \ {0}
  /\ Launch

KernelSpec == KernelInit /\ [][KernelNext]_kernelVars

-----------------------------------------------------------------------------
(* What the index arithmetic needs: the packets have no padding in front   *)
(* of others (packet_size is a multiple of the word), a match vector has   *)
(* an entry for every byte, and state 0, which has no negative, accepts    *)
(* nothing.                                                                *)
Aligned == packet_size = payload_sizes[1]

NarrowEnough == NSubsets <= MatchFactor

ZeroRejects == \A d \in 0..NSubsets-1 : 0 \notin Accept[d]

KernelTypeOK ==
  /\ LayoutOK /\ packet_size \in 1..payload_sizes[1] /\ blockDim \in Nat \ {0}
  /\ thr \in [Threads -> Locals]
  /\ DOMAIN match_array \subseteq Nat
  /\ \A a \in DOMAIN match_array : match_array[a] \in [off : Nat, stat : State]
  /\ match_count \in [DOMAIN match_count -> Nat]

(* A thread that finds more matches than its vector has entries writes     *)
(* into the vector of the next packet or behind the array: no thread may   *)
(* ever write outside what udfa_run allocated.                             *)
WritesInBounds ==
  /\ DOMAIN match_array \subseteq 0..(MatchVecSize * Slots - 1)
  /\ DOMAIN match_count \subseteq 0..(Slots - 1)

(* Launch geometry: whatever the block size, once the kernel has ended     *)
(* every packet has been scanned by every DFA, so the host reads no        *)
(* match_count entry that nobody wrote.                                    *)
EveryPairCounted == KernelDone => DOMAIN match_count = 0..(Slots - 1)

(* The thread that scans packet j (from 1) with DFA d. *)
ThreadOf(j, d) == [bx |-> j - 1, by |-> d \div blockDim, tx |-> d % blockDim]

(* The kernel implements PacketScan: the private list of a pair is the     *)
(* range of the shared array that its thread has filled.                   *)
ScanPairs == (1..GridX) \X (0..NSubsets-1)

scan_packet == [j \in 1..GridX |-> SubSeq(payloads, (j - 1) * payload_sizes[1] + 1,
                                         (j - 1) * payload_sizes[1] + payload_sizes[j])]

scan_off == [x \in ScanPairs |-> thr[ThreadOf(x[1], x[2])].p]

scan_st == [x \in ScanPairs |-> thr[ThreadOf(x[1], x[2])].state]

FoundBy(t) == [n \in 1..thr[t].cnt |-> match_array[MatchAddress(t, n - 1)]]

scan_found == [x \in ScanPairs |-> FoundBy(ThreadOf(x[1], x[2]))]

scan_published == {x \in ScanPairs : thr[ThreadOf(x[1], x[2])].pc = "exit"}

Scan == INSTANCE PacketScan WITH
  packet <- scan_packet, off <- scan_off, st <- scan_st,
  found <- scan_found, published <- scan_published

(* Every step of every thread, in any interleaving, is a step of one       *)
(* independent scan or changes nothing: the shared arrays never mix the    *)
(* results of two threads.                                                 *)
ImplementsScan == Scan!Spec
=============================================================================
