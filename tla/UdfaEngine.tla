----------------------------- MODULE UdfaEngine -----------------------------
(***************************************************************************)
(* One run of the GPU engine: the input loop of udfa_main.cu (Packetizer), *)
(* udfa_run of udfa_host.cu, which sizes the match arrays, tunes the block *)
(* size, launches the kernel (UdfaKernel), waits for it and reports, and   *)
(* mapping_states2rules of finite_automaton.cpp, which turns the offsets   *)
(* in packets back into offsets in the file.                               *)
(***************************************************************************)
EXTENDS Packetizer, Functions

CONSTANTS
  NSubsets, MatchFactor, NState, Delta, Accept,  \* see UdfaKernel
  MaxBlock,          \* the 1024 of the tuning loop
  ThreadsPerBlock,   \* cfg.get_threads_per_block()
  Tuning,            \* blksiz_tuning = 1
  TotalRules,        \* total_rules of the command line
  States2Rules,      \* States2Rules[d][s]: rules of state s, numbered inside DFA d
  Garbage            \* what a read behind the end of padded_sizes may return

ASSUME EngineAssumption ==
  /\ MaxBlock \in Nat \ {0} /\ ThreadsPerBlock \in Nat \ {0}
  /\ Tuning \in BOOLEAN /\ TotalRules \in Nat /\ Garbage \subseteq Nat

VARIABLES
  phase,        \* where main and udfa_run are
  blockSize_,   \* the block size being tuned
  subset,       \* the subset whose report is being written
  packet,       \* the packet whose matches are written next
  reports,      \* reports[d]: the entries of the report of DFA d
  blockDim, thr, match_array, match_count  \* see UdfaKernel

K == INSTANCE UdfaKernel

ASSUME AutomataAssumption == K!KernelAssumption

gpuVars == <<thr, match_array, match_count>>
reportVars == <<subset, packet, reports>>
engineVars == <<packetVars, phase, blockSize_, reportVars, blockDim, gpuVars>>

(* rulestartvec: the rules are split evenly over the DFAs *)
RulesPerGroup ==
  IF TotalRules % NSubsets = 0 THEN TotalRules \div NSubsets ELSE TotalRules \div NSubsets + 1

RuleStart(d) == d * RulesPerGroup

-----------------------------------------------------------------------------
EngineInit ==
  /\ PacketizerInit
  /\ phase = "input"
  /\ blockSize_ = 1 /\ subset = 0 /\ packet = 0 /\ reports = [d \in 0..NSubsets-1 |-> <<>>]
  /\ blockDim = ThreadsPerBlock
  /\ thr = <<>> /\ match_array = <<>> /\ match_count = <<>>

Input ==
  /\ phase = "input"
  /\ PacketizerNext
  /\ UNCHANGED <<phase, blockSize_, reportVars, blockDim, gpuVars>>

(* udfa_run starts with get_payload_sizes()[0], undefined when there is no *)
(* packet, and allocates the match arrays.                                 *)
Allocate ==
  /\ phase = "input" /\ ~reading
  /\ phase' = IF payload_sizes = <<>> THEN "undefined" ELSE "tune"
  /\ UNCHANGED <<packetVars, blockSize_, reportVars, blockDim, gpuVars>>

(* One turn of the tuning loop.  Whether the blocks still outnumber what   *)
(* the device holds at this size is the answer of the CUDA runtime.        *)
TuneStep ==
  /\ phase = "tune"
  /\ blockSize_ < NSubsets /\ blockSize_ < MaxBlock
  /\ blockSize_' = blockSize_ + 1
  /\ UNCHANGED <<packetVars, phase, reportVars, blockDim, gpuVars>>

(* The loop ends; the block is cfg's or the tuned one. *)
SetGeometry ==
  /\ phase = "tune"
  /\ blockDim' = IF Tuning THEN blockSize_ ELSE ThreadsPerBlock
  /\ phase' = "launch"
  /\ UNCHANGED <<packetVars, blockSize_, reportVars, gpuVars>>

Launch ==
  /\ phase = "launch"
  /\ phase' = "kernel"
  /\ thr' = [t \in K!Threads |-> K!Started]
  /\ UNCHANGED <<packetVars, blockSize_, reportVars, blockDim, match_array, match_count>>

Kernel ==
  /\ phase = "kernel"
  /\ UNCHANGED <<packetVars, phase, blockSize_, reportVars, blockDim>>
  /\ K!KernelNext

(* Mutant: the results are copied without waiting for the kernel. *)
Synchronize_NoWait ==
  /\ phase = "kernel"
  /\ phase' = "report"
  /\ UNCHANGED <<packetVars, blockSize_, reportVars, blockDim, gpuVars>>

(* cudaThreadSynchronize, then both arrays are copied back *)
Synchronize ==
  /\ phase = "kernel" /\ K!KernelDone
  /\ phase' = "report"
  /\ UNCHANGED <<packetVars, blockSize_, reportVars, blockDim, gpuVars>>

(* What is subtracted for packet j (from 0): pad_size_vec[j-1], which may  *)
(* lie behind the end.                                                     *)
PadBefore(j) ==
  IF j = 0 \/ padded_sizes = <<>> THEN {0}
  ELSE IF j <= Len(padded_sizes) THEN {padded_sizes[j]} ELSE Garbage

(* Mutant: the match arrays indexed with the packets outermost. *)
PacketReport_Transposed(d, j, pad) ==
  LET slot == NSubsets * j + d
  IN [i \in 1..match_count[slot] |->
        LET m == match_array[K!MatchVecSize * slot + i - 1] IN
        [off   |-> IF j = 0 THEN m.off ELSE m.off + j * payload_sizes[1] - pad,
         rules |-> {r + RuleStart(d) : r \in States2Rules[d][m.stat]}]]

(* mapping_states2rules for packet j (from 0) of DFA d, whose part of the  *)
(* match arrays starts behind those of the DFAs before it.                 *)
PacketReport(d, j, pad) ==
  LET slot == Len(payload_sizes) * d + j
  IN [i \in 1..match_count[slot] |->
        LET m == match_array[K!MatchVecSize * slot + i - 1] IN
        [off   |-> IF j = 0 THEN m.off ELSE m.off + j * payload_sizes[1] - pad,
         rules |-> {r + RuleStart(d) : r \in States2Rules[d][m.stat]}]]

(* the matches of the next packet are written to the report of the subset *)
ReportPacket ==
  /\ phase = "report" /\ subset < NSubsets /\ packet < Len(payload_sizes)
  /\ \E pad \in PadBefore(packet) :
       reports' = [reports EXCEPT ![subset] = @ \o PacketReport(subset, packet, pad)]
  /\ packet' = packet + 1
  /\ UNCHANGED <<packetVars, phase, blockSize_, subset, blockDim, gpuVars>>

(* Mutant: the report of the last subset never ends. *)
NextSubset_NotLast ==
  /\ phase = "report" /\ subset < NSubsets - 1 /\ packet = Len(payload_sizes)
  /\ subset' = subset + 1 /\ packet' = 0
  /\ UNCHANGED <<packetVars, phase, blockSize_, reports, blockDim, gpuVars>>

NextSubset ==
  /\ phase = "report" /\ subset < NSubsets /\ packet = Len(payload_sizes)
  /\ subset' = subset + 1 /\ packet' = 0
  /\ UNCHANGED <<packetVars, phase, blockSize_, reports, blockDim, gpuVars>>

(* the arrays are freed, the program ends *)
Exit ==
  /\ phase = "report" /\ subset = NSubsets
  /\ phase' = "done"
  /\ thr' = <<>> /\ match_array' = <<>> /\ match_count' = <<>>
  /\ UNCHANGED <<packetVars, blockSize_, reportVars, blockDim>>

EngineNext ==
  \/ Input \/ Allocate \/ TuneStep \/ SetGeometry \/ Launch \/ Kernel
  \/ Synchronize \/ ReportPacket \/ NextSubset \/ Exit

(* The program never waits for anything but its own steps. *)
EngineSpec == EngineInit /\ [][EngineNext]_engineVars /\ WF_engineVars(EngineNext)

-----------------------------------------------------------------------------
(* The reference: where a DFA is after k bytes of the file, when it is     *)
(* restarted at every packet_size-th byte, and the entries of a report for *)
(* the places where it accepts.                                            *)
StateAfter(d) ==
  LET after[k \in 0..Len(input)] ==
        IF k = 0 THEN 0
        ELSE Delta[d][<<IF (k - 1) % packet_size = 0 THEN 0 ELSE after[k-1], input[k]>>]
  IN after

FileMatches(d) ==
  {[off |-> k - 1, rules |-> {r + RuleStart(d) : r \in States2Rules[d][StateAfter(d)[k]]}] :
     k \in {k \in 1..Len(input) : StateAfter(d)[k] \in Accept[d]}}

InFile(e) == e.off < Len(input)

(* The contract between the input loop and the kernel: whatever the file,  *)
(* the packets have at all times the layout the kernel's index arithmetic  *)
(* needs, and the tuned block size is a legal one.                         *)
LaunchIsLegal ==
  /\ LayoutOK
  /\ phase \in {"launch", "kernel"} =>
       /\ packet_size \in 1..payload_sizes[1]
       /\ blockDim \in 1..(IF Tuning THEN MaxBlock ELSE ThreadsPerBlock)

(* The host reads counts and matches only where a thread of this run has   *)
(* written them: the arrays come from malloc and cudaMalloc uninitialized. *)
HostReadsWhatWasWritten ==
  phase = "report" =>
    \A s \in 0..(K!Slots - 1) :
      /\ s \in DOMAIN match_count
      /\ \A i \in 0..match_count[s]-1 : K!MatchVecSize * s + i \in DOMAIN match_array

(* No packet is padded in front of another one, and no offset is computed  *)
(* from padded_sizes.                                                      *)
OffsetsKnown == padded_sizes = <<>> \/ Len(payload_sizes) = 1

(* End to end: then the report of every DFA, once it is written, lists      *)
(* exactly the matches of the reference, in the order of the file, with    *)
(* their offsets in the file; matches on padding follow behind the file.   *)
ReportExact ==
  OffsetsKnown => \A d \in 0..subset-1 :
    /\ \A i, j \in DOMAIN reports[d] : i < j => reports[d][i].off < reports[d][j].off
    /\ {e \in Range(reports[d]) : InFile(e)} = FileMatches(d)

(* mapping_states2rules: with aligned packets every reported offset is the *)
(* place of a match in the file (or lies behind its end).                  *)
OffsetsAreTrue ==
  phase = "done" /\ packet_size % FetchBytes = 0 =>
    \A d \in 0..NSubsets-1 : {e \in Range(reports[d]) : InFile(e)} \subseteq FileMatches(d)

(* A non-empty file is always reported on, for every subset: no order of   *)
(* the threads, no block size and no tuning keeps the run from its end.    *)
EngineEnds == <>(phase = "done" \/ (phase = "undefined" /\ input = <<>>))
=============================================================================
