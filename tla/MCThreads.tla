------------------------------ MODULE MCThreads ------------------------------
(* The two places where threads share what they work on.                   *)
(*   "kernel"   small launches of the kernel: every padded packet array of  *)
(*              at most MaxPackets packets, every block size, two automata  *)
(*   "servers"  the trace servers, with one or two client programs that     *)
(*              have as many connections as there are servers, or fewer, or *)
(*              more                                                        *)
(* The part that does not run is in one initial state and has no step.     *)
EXTENDS UdfaKernel, TraceServer

CONSTANTS
  Parts,       \* a subset of {"kernel", "servers"}
  MaxPackets,  \* packets of a launch
  MaxWords,    \* words in the first packet
  BlockDims,   \* block sizes of the launch
  Unpadded     \* packet_size of the launch, in bytes short of the padded one

VARIABLE part

(* DFA 0 accepts after a byte other than 0 (state 1), DFA 1 after such a   *)
(* byte that follows a 0 (state 2); further DFAs repeat DFA 0.             *)
MCDelta ==
  [d \in 0..NSubsets-1 |->
    [x \in State \X Byte |->
      IF d = 1 THEN IF x[2] = 0 THEN 1 ELSE IF x[1] = 1 THEN 2 ELSE 0
               ELSE IF x[2] = 0 THEN 0 ELSE 1]]

MCAccept == [d \in 0..NSubsets-1 |-> IF d = 1 THEN {2} ELSE {1}]

(* without a client no server has anything to do *)
NoClient == <<>>

MCLoads == {NoClient, <<2>>, <<3>>, <<1, 1>>, <<2, 1>>, <<2, 2>>}

(* the last packet may be shorter *)
PacketSizes ==
  {s \in UNION {[1..n -> {FetchBytes * w : w \in 1..MaxWords}] : n \in 1..MaxPackets} :
     \A j \in 1..Len(s) : s[j] <= s[1] /\ (j < Len(s) => s[j] = s[1])}

KernelRuns ==
  /\ payload_sizes \in PacketSizes
  /\ payloads \in [1..((Len(payload_sizes) - 1) * payload_sizes[1] + Last(payload_sizes)) -> Byte]
  /\ blockDim \in BlockDims
  /\ load = NoClient /\ kind = "threads"

ServersRun ==
  /\ payload_sizes = <<FetchBytes>>
  /\ payloads = [n \in 1..FetchBytes |-> 0]
  /\ blockDim = 1
  /\ load # NoClient

MCInit ==
  /\ part \in Parts
  /\ ServerInit
  /\ \/ part = "kernel" /\ KernelRuns
     \/ part = "servers" /\ ServersRun
  /\ packet_size = payload_sizes[1] - Unpadded
  /\ Launch

MCNext ==
  \/ part = "kernel" /\ KernelNext /\ UNCHANGED <<part, serverVars>>
  \/ part = "servers" /\ ServerNext /\ UNCHANGED <<part, kernelVars>>

MCSpec == MCInit /\ [][MCNext]_<<part, kernelVars, serverVars>> /\ ServerFairness

(* "jump to the right input string" (udfa_gpu.cu), "skip to the right      *)
(* input string" (udfa_host.cu): the state of a thread is the one its DFA  *)
(* reaches on the bytes of the thread's own packet.                        *)
ReadsItsOwnPacket ==
  \A t \in Threads : Working(t) =>
    thr[t].state = FoldLeft(LAMBDA s, c : Delta[DfaId(t)][<<s, c>>], 0,
                            SubSeq(scan_packet[t.bx + 1], 1, thr[t].p))
=============================================================================
