-------------------------- MODULE UdfaKernel_proofs --------------------------
(***************************************************************************)
(* Proofs about the kernel for every number of packets, DFAs and threads.  *)
(***************************************************************************)
EXTENDS UdfaKernel, ArithmeticLemmas

(* What KernelTypeOK says of the parameters of the launch. *)
LaunchOK == LayoutOK /\ packet_size \in 1..payload_sizes[1] /\ blockDim \in Nat \ {0}

(* A thread has at most one match per byte and never runs past its packet; *)
(* its matches are in the array, and when it has stopped, its count is.    *)
Progress(t) ==
  /\ thr[t].cnt <= thr[t].p
  /\ thr[t].p <= payload_sizes[t.bx + 1]
  /\ \A n \in 0..thr[t].cnt-1 : MatchAddress(t, n) \in DOMAIN match_array
  /\ thr[t].pc = "exit" => /\ thr[t].p = payload_sizes[t.bx + 1]
                        /\ Slot(t) \in DOMAIN match_count

KInv == KernelTypeOK /\ \A t \in Threads : Working(t) => Progress(t)

-----------------------------------------------------------------------------
(* The indices of a thread are those of a packet, a DFA and a slot. *)
LEMMA ThreadFacts ==
  ASSUME LaunchOK, NEW t \in Threads
  PROVE  /\ t.bx \in 0..GridX-1 /\ t.by \in Nat /\ t.tx \in 0..blockDim-1
         /\ payload_sizes[t.bx + 1] \in Nat \ {0}
         /\ payload_sizes[t.bx + 1] <= payload_sizes[1]
         /\ payload_sizes[t.bx + 1] % FetchBytes = 0
         /\ GridX \in Nat \ {0} /\ payload_sizes[1] \in Nat \ {0}
         /\ DfaId(t) \in Nat
         /\ Slot(t) \in Nat
<1>1. /\ GridX \in Nat \ {0} /\ blockDim \in Nat \ {0}
      /\ payload_sizes \in Seq(Nat) /\ Len(payload_sizes) = GridX
  BY DEF LaunchOK, LayoutOK, GridX
<1>2. NSubsets \div blockDim \in Nat
  BY <1>1, DivMod, KernelAssumption
<1>3. t.bx \in 0..GridX-1 /\ t.by \in Nat /\ t.tx \in 0..blockDim-1
  BY <1>1, <1>2 DEF Threads
<1>4. t.bx + 1 \in 1..GridX /\ 1 \in 1..GridX
  BY <1>1, <1>3
<1>5. \A j \in 1..GridX : payload_sizes[j] \in Nat
  BY <1>1
<1>6. \A j \in 1..GridX : /\ payload_sizes[j] > 0 /\ payload_sizes[j] % FetchBytes = 0
                          /\ payload_sizes[j] <= payload_sizes[1]
  BY <1>1 DEF LaunchOK, LayoutOK
<1>7. t.by * blockDim \in Nat
  BY <1>1, <1>3, ProductGrows
<1>8. DfaId(t) \in Nat
  BY <1>1, <1>3, <1>7 DEF DfaId
<1>9. DfaId(t) * GridX \in Nat
  BY <1>1, <1>8, ProductGrows
<1>10. Slot(t) \in Nat
  BY <1>1, <1>3, <1>9 DEF Slot
<1> QED BY <1>1, <1>3, <1>4, <1>5, <1>6, <1>8, <1>10

(* A working thread's slot is one of those allocated. *)
LEMMA SlotInBounds ==
  ASSUME LaunchOK, NEW t \in Threads, Working(t)
  PROVE  DfaId(t) \in 0..NSubsets-1 /\ Slot(t) \in 0..Slots-1
<1>1. DfaId(t) \in 0..NSubsets-1
  BY ThreadFacts, KernelAssumption DEF Working
<1>2. t.bx + GridX * DfaId(t) \in 0..(GridX * NSubsets - 1)
  BY <1>1, ThreadFacts, DigitBounds, KernelAssumption
<1>3. GridX * DfaId(t) = DfaId(t) * GridX
  BY <1>1, ThreadFacts
<1> QED BY <1>1, <1>2, <1>3 DEF Slot, Slots

(* The kernel reads inside the array of packets, wherever it starts. *)
LEMMA ReadsInBounds ==
  ASSUME LaunchOK, NEW t \in Threads, NEW p \in Nat, p < payload_sizes[t.bx + 1]
  PROVE  /\ InputStart(t) + p + 1 \in 1..Len(payloads)
         /\ payloads[InputStart(t) + p + 1] \in Byte
<1> DEFINE s1 == payload_sizes[1]  n == Len(payload_sizes)  b == t.bx
<1>1. /\ b \in 0..n-1 /\ s1 \in Nat \ {0} /\ n \in Nat \ {0}
      /\ payload_sizes[b + 1] \in Nat \ {0}
  BY ThreadFacts DEF GridX
<1>2. /\ payload_sizes[n] \in Nat /\ packet_size \in Nat /\ packet_size <= s1
      /\ payloads \in Seq(Byte)
  BY <1>1 DEF LaunchOK, LayoutOK
<1>3. Len(payloads) = (n - 1) * s1 + payload_sizes[n]
  BY DEF LaunchOK, LayoutOK
<1> HIDE DEF s1, n, b
<1>4. packet_size * b \in Nat /\ packet_size * b <= s1 * b /\ s1 * b \in Nat
  BY <1>1, <1>2, ProductGrows
<1>5. InputStart(t) \in Nat /\ InputStart(t) <= s1 * b
  <2>1. InputStart(t) \in Nat /\ InputStart(t) <= packet_size * b
    BY <1>4, RoundedDown, KernelAssumption DEF InputStart, b
  <2> QED BY <1>4, <2>1
<1>6. s1 * b + payload_sizes[b + 1] <= Len(payloads)
  <2>1. CASE b = n - 1
    <3>1. b + 1 = n BY <1>1, <2>1
    <3>2. s1 * b = (n - 1) * s1 BY <1>1, <2>1
    <3>3. payload_sizes[b + 1] = payload_sizes[n] BY <3>1
    <3>4. Len(payloads) = s1 * b + payload_sizes[n] BY <1>3, <3>2
    <3> QED BY <1>1, <1>2, <1>4, <3>3, <3>4
  <2>2. CASE b < n - 1
    <3>1. payload_sizes[b + 1] = s1
      BY <1>1, <2>2 DEF LaunchOK, LayoutOK, s1, n
    <3>2. s1 * b + s1 <= s1 * (n - 1)
      BY <1>1, <2>2, MultipleGap
    <3>3. s1 * (n - 1) = (n - 1) * s1
      BY <1>1
    <3> QED BY <1>1, <1>2, <1>3, <1>4, <3>1, <3>2, <3>3
  <2>3. b = n - 1 \/ b < n - 1
    BY <1>1
  <2> QED BY <2>1, <2>2, <2>3
<1>7. p < payload_sizes[b + 1]
  BY DEF b
<1>8. InputStart(t) + p + 1 \in 1..Len(payloads)
  <2>1. Len(payloads) \in Nat BY <1>2
  <2> QED BY <1>1, <1>4, <1>5, <1>6, <1>7, <2>1
<1> QED BY <1>2, <1>8

(* The state behind a table entry is the next state of the DFA. *)
LEMMA EntryFacts ==
  ASSUME NEW d \in 0..NSubsets-1, NEW s \in State, NEW c \in Byte
  PROVE  /\ Delta[d][<<s, c>>] \in State
         /\ Entry(d, s, c) < 0 => -Entry(d, s, c) = Delta[d][<<s, c>>] /\ Delta[d][<<s, c>>] \in Accept[d]
         /\ ~(Entry(d, s, c) < 0) =>
               /\ Entry(d, s, c) = Delta[d][<<s, c>>]
               /\ Delta[d][<<s, c>>] \in Accept[d] => Delta[d][<<s, c>>] = 0
<1>1. <<s, c>> \in State \X Byte
  OBVIOUS
<1>2. Delta[d][<<s, c>>] \in State
  BY <1>1, KernelAssumption
<1>3. \A u \in State : u \in Int /\ u >= 0
  BY KernelAssumption DEF State
<1>4. \A u \in State, A \in SUBSET State :
        LET e == IF u \in A THEN -u ELSE u
        IN  /\ e < 0 => -e = u /\ u \in A
            /\ ~(e < 0) => e = u /\ (u \in A => u = 0)
  BY <1>3
<1>5. Accept[d] \in SUBSET State
  BY KernelAssumption
<1> QED BY <1>2, <1>4, <1>5 DEF Entry

-----------------------------------------------------------------------------
(* The launch parameters never change, nor anything computed from them. *)
LEMMA HostUnchanged ==
  ASSUME UNCHANGED hostVars
  PROVE  /\ LaunchOK' <=> LaunchOK
         /\ Threads' = Threads /\ GridX' = GridX /\ Slots' = Slots
         /\ MatchVecSize' = MatchVecSize
         /\ \A t : /\ Working(t)' <=> Working(t)
                   /\ Slot(t)' = Slot(t) /\ DfaId(t)' = DfaId(t)
         /\ \A t, n : MatchAddress(t, n)' = MatchAddress(t, n)
BY DEF hostVars, LaunchOK, LayoutOK, Threads, GridX, Slots, MatchVecSize, Working, Slot,
       DfaId, MatchAddress

(* The type of the launch is the first part of KernelTypeOK. *)
LEMMA TypeParts ==
  KernelTypeOK <=>
    /\ LaunchOK
    /\ thr \in [Threads -> Locals]
    /\ DOMAIN match_array \subseteq Nat
    /\ \A a \in DOMAIN match_array : match_array[a] \in [off : Nat, stat : State]
    /\ match_count \in [DOMAIN match_count -> Nat]
BY DEF KernelTypeOK, LaunchOK

(* The threads start at offset 0 and nothing has been written. *)
LEMMA KInvInit == KernelInit => KInv
<1> SUFFICES ASSUME KernelInit PROVE KInv
  OBVIOUS
<1>1. LaunchOK
  BY DEF KernelInit, LaunchOK
<1>2. /\ thr = [t \in Threads |-> [pc |-> "run", p |-> 0, cnt |-> 0, state |-> 0]]
      /\ match_array = <<>> /\ match_count = <<>>
  BY DEF KernelInit, Launch, Started
<1>3. 0 \in State
  BY KernelAssumption DEF State
<1>4. DOMAIN match_array = {} /\ DOMAIN match_count = {}
  BY <1>2
<1>5. match_count \in [DOMAIN match_count -> Nat]
  BY <1>2
<1>6. KernelTypeOK
  BY <1>1, <1>2, <1>3, <1>4, <1>5, TypeParts DEF Locals
<1>7. ASSUME NEW t \in Threads PROVE Progress(t)
  <2>1. thr[t].cnt = 0 /\ thr[t].p = 0 /\ thr[t].pc = "run"
    BY <1>2
  <2>2. payload_sizes[t.bx + 1] \in Nat
    BY <1>1, ThreadFacts
  <2> QED BY <2>1, <2>2 DEF Progress
<1> QED BY <1>6, <1>7 DEF KInv

(* The state that a thread's next byte leads to. *)
NextState(t) ==
  Delta[DfaId(t)][<<thr[t].state, payloads[InputStart(t) + thr[t].p + 1]>>]

Advanced(t, n) ==
  [pc |-> "run", p |-> thr[t].p + 1, cnt |-> n,
   state |-> NextState(t)]

(* What the end of a thread changes. *)
LEMMA ExitUpdate ==
  ASSUME NEW r \in Locals
  PROVE  [r EXCEPT !.pc = "exit"]
           = [pc |-> "exit", p |-> r.p, cnt |-> r.cnt, state |-> r.state]
<1> DEFINE R == [pc |-> r.pc, p |-> r.p, cnt |-> r.cnt, state |-> r.state]
<1>1. [R EXCEPT !.pc = "exit"]
         = [pc |-> "exit", p |-> r.p, cnt |-> r.cnt, state |-> r.state]
  OBVIOUS
<1>2. R = r
  BY DEF Locals
<1> HIDE DEF R
<1> QED BY <1>1, <1>2

(* A thread's next byte: the new local state and what is written. *)
LEMMA ScanByteFacts ==
  ASSUME KInv, NEW t \in Threads, ScanByte(t)
  PROVE  /\ thr[t].pc = "run" /\ Working(t)
         /\ thr[t].p < payload_sizes[t.bx + 1]
         /\ NextState(t) \in State
         /\ \/ /\ NextState(t) \in Accept[DfaId(t)]
               /\ thr' = [thr EXCEPT ![t] = Advanced(t, thr[t].cnt + 1)]
               /\ match_array' = Put(match_array, MatchAddress(t, thr[t].cnt),
                                     [off |-> thr[t].p, stat |-> NextState(t)])
            \/ /\ NextState(t) \in Accept[DfaId(t)] => NextState(t) = 0
               /\ thr' = [thr EXCEPT ![t] = Advanced(t, thr[t].cnt)]
               /\ match_array' = match_array
         /\ match_count' = match_count /\ UNCHANGED hostVars
<1>1. /\ LaunchOK /\ Working(t) /\ thr[t].pc = "run" /\ MoreInput(t)
      /\ thr \in [Threads -> Locals]
      /\ Progress(t)
  BY TypeParts DEF KInv, ScanByte
<1>2. /\ payload_sizes[t.bx + 1] \in Nat /\ payload_sizes[t.bx + 1] % FetchBytes = 0
      /\ thr[t] \in Locals
  BY <1>1, ThreadFacts
<1>3. thr[t].p < payload_sizes[t.bx + 1]
  BY <1>1, <1>2 DEF MoreInput, Progress, Locals
<1> DEFINE d == DfaId(t)
           c == payloads[InputStart(t) + thr[t].p + 1]
           e == Entry(d, thr[t].state, c)
<1>4. d \in 0..NSubsets-1 /\ c \in Byte /\ thr[t].state \in State
  BY <1>1, <1>2, <1>3, SlotInBounds, ReadsInBounds DEF Locals
<1>5. /\ NextState(t) \in State
      /\ e < 0 => -e = NextState(t) /\ NextState(t) \in Accept[d]
      /\ ~(e < 0) => e = NextState(t) /\ (NextState(t) \in Accept[d] => NextState(t) = 0)
  BY <1>4, EntryFacts DEF NextState
<1>6. match_count' = match_count /\ UNCHANGED hostVars
  BY DEF ScanByte
<1>7. IF e < 0
      THEN /\ match_array' = Put(match_array, MatchAddress(t, thr[t].cnt),
                                 [off |-> thr[t].p, stat |-> -e])
           /\ thr' = [thr EXCEPT ![t] = [pc |-> "run", p |-> thr[t].p + 1,
                                         cnt |-> thr[t].cnt + 1, state |-> -e]]
      ELSE /\ thr' = [thr EXCEPT ![t] = [pc |-> "run", p |-> thr[t].p + 1,
                                         cnt |-> thr[t].cnt, state |-> e]]
           /\ match_array' = match_array
  BY DEF ScanByte
<1> HIDE DEF e
<1>8. CASE e < 0
  BY <1>1, <1>3, <1>5, <1>6, <1>7, <1>8 DEF Advanced
<1>9. CASE ~(e < 0)
  BY <1>1, <1>3, <1>5, <1>6, <1>7, <1>9 DEF Advanced
<1> QED BY <1>8, <1>9

-----------------------------------------------------------------------------
(* A thread beyond the last DFA returns without a trace. *)
LEMMA ReturnKeeps ==
  ASSUME KInv, NEW t \in Threads, Return(t)
  PROVE  KInv'
<1>1. /\ thr[t] \in Locals /\ thr \in [Threads -> Locals]
      /\ ~Working(t) /\ UNCHANGED hostVars /\ UNCHANGED <<match_array, match_count>>
      /\ thr' = [thr EXCEPT ![t].pc = "exit"]
  BY TypeParts DEF KInv, Return
<1> DEFINE r == [pc |-> "exit", p |-> thr[t].p, cnt |-> thr[t].cnt, state |-> thr[t].state]
<1>2. thr' = [thr EXCEPT ![t] = r] /\ r \in Locals
  BY <1>1, ExitUpdate DEF Locals
<1> HIDE DEF r
<1>3. /\ LaunchOK' /\ thr' \in [Threads' -> Locals]
  BY <1>1, <1>2, HostUnchanged, TypeParts DEF KInv
<1>4. KernelTypeOK'
  BY <1>1, <1>3, TypeParts DEF KInv, KernelTypeOK, LaunchOK
<1>5. ASSUME NEW q \in Threads, Working(q) PROVE Progress(q)'
  <2>1. q # t /\ thr'[q] = thr[q]
    BY <1>1, <1>2, <1>5
  <2>2. Progress(q)
    BY <1>5 DEF KInv
  <2> QED BY <1>1, <2>1, <2>2, HostUnchanged DEF Progress, hostVars
<1> QED BY <1>1, <1>4, <1>5, HostUnchanged DEF KInv

(* A thread that has consumed its packet writes its count. *)
LEMMA FinishKeeps ==
  ASSUME KInv, NEW t \in Threads, Finish(t)
  PROVE  KInv'
<1>1. /\ thr[t] \in Locals /\ thr \in [Threads -> Locals] /\ LaunchOK /\ Progress(t)
      /\ Working(t) /\ ~MoreInput(t) /\ UNCHANGED hostVars /\ UNCHANGED match_array
      /\ thr' = [thr EXCEPT ![t].pc = "exit"]
      /\ match_count' = Put(match_count, Slot(t), thr[t].cnt)
  BY TypeParts DEF KInv, Finish
<1> DEFINE r == [pc |-> "exit", p |-> thr[t].p, cnt |-> thr[t].cnt, state |-> thr[t].state]
<1>2. thr' = [thr EXCEPT ![t] = r] /\ r \in Locals
  BY <1>1, ExitUpdate DEF Locals
<1>3. thr'[t] = r
  BY <1>1, <1>2
<1>4. /\ thr'[t].p = thr[t].p /\ thr'[t].cnt = thr[t].cnt
  BY <1>3
<1> HIDE DEF r
<1>5. /\ LaunchOK' /\ thr' \in [Threads' -> Locals]
  BY <1>1, <1>2, HostUnchanged
<1>6. /\ DOMAIN match_count' = DOMAIN match_count \cup {Slot(t)}
      /\ match_count' \in [DOMAIN match_count' -> Nat]
  <2>1. thr[t].cnt \in Nat
    BY <1>1 DEF Locals
  <2>2. match_count \in [DOMAIN match_count -> Nat]
    BY TypeParts DEF KInv
  <2> QED BY <1>1, <2>1, <2>2 DEF Put
<1>7. KernelTypeOK'
  BY <1>1, <1>5, <1>6, TypeParts DEF KInv, KernelTypeOK, LaunchOK
<1>8. thr[t].p = payload_sizes[t.bx + 1]
  <2>1. /\ thr[t].p \in Nat /\ payload_sizes[t.bx + 1] \in Nat
        /\ thr[t].p <= payload_sizes[t.bx + 1]
        /\ ~(thr[t].p < payload_sizes[t.bx + 1])
    BY <1>1, ThreadFacts DEF Locals, Progress, MoreInput
  <2> QED BY <2>1
<1>9. ASSUME NEW q \in Threads, Working(q) PROVE Progress(q)'
  <2>1. Progress(q)
    BY <1>9 DEF KInv
  <2>2. CASE q = t
    BY <1>1, <1>4, <1>6, <1>8, <2>1, <2>2, HostUnchanged DEF Progress, hostVars
  <2>3. CASE q # t
    <3>1. thr'[q] = thr[q]
      BY <1>1, <1>2, <2>3
    <3> QED BY <1>1, <1>6, <2>1, <3>1, HostUnchanged DEF Progress, hostVars
  <2> QED BY <2>2, <2>3
<1> QED BY <1>1, <1>7, <1>9, HostUnchanged DEF KInv

(* A byte moves the state and may append a match. *)
LEMMA ScanByteKeeps ==
  ASSUME KInv, NEW t \in Threads, ScanByte(t)
  PROVE  KInv'
<1>1. /\ thr[t] \in Locals /\ thr \in [Threads -> Locals] /\ LaunchOK
  BY TypeParts DEF KInv
<1>2. /\ Working(t) /\ thr[t].pc = "run" /\ Progress(t)
      /\ thr[t].p < payload_sizes[t.bx + 1] /\ NextState(t) \in State
      /\ match_count' = match_count /\ UNCHANGED hostVars
  BY ScanByteFacts DEF KInv
<1> DEFINE a == MatchAddress(t, thr[t].cnt)
           v == [off |-> thr[t].p, stat |-> NextState(t)]
<1>3. /\ thr[t].p \in Nat /\ thr[t].cnt \in Nat /\ payload_sizes[t.bx + 1] \in Nat
      /\ v \in [off : Nat, stat : State]
  BY <1>1, <1>2, ThreadFacts DEF Locals
<1>4. a \in Nat
  <2>1. MatchVecSize \in Nat
    BY <1>1, ThreadFacts, DivMod, ProductGrows, KernelAssumption DEF MatchVecSize
  <2>2. MatchVecSize * Slot(t) \in Nat
    BY <1>1, <2>1, ThreadFacts, ProductGrows
  <2> QED BY <1>3, <2>2 DEF MatchAddress
<1>5. PICK n \in {thr[t].cnt, thr[t].cnt + 1} :
        /\ thr' = [thr EXCEPT ![t] = Advanced(t, n)]
        /\ \/ n = thr[t].cnt + 1 /\ match_array' = Put(match_array, a, v)
           \/ n = thr[t].cnt /\ match_array' = match_array
  BY ScanByteFacts
<1> HIDE DEF a, v
<1>6. n \in Nat /\ n <= thr[t].cnt + 1 /\ Advanced(t, n) \in Locals
  BY <1>2, <1>3 DEF Advanced, Locals
<1>7. /\ thr'[t].p = thr[t].p + 1 /\ thr'[t].cnt = n /\ thr'[t].pc = "run"
  BY <1>1, <1>5 DEF Advanced
<1>8. /\ LaunchOK' /\ thr' \in [Threads' -> Locals]
  BY <1>1, <1>2, <1>5, <1>6, HostUnchanged
<1>9. /\ DOMAIN match_array \subseteq DOMAIN match_array'
      /\ n = thr[t].cnt + 1 => a \in DOMAIN match_array'
      /\ DOMAIN match_array' \subseteq Nat
      /\ \A b \in DOMAIN match_array' : match_array'[b] \in [off : Nat, stat : State]
  <2>1. /\ DOMAIN match_array \subseteq Nat
        /\ \A b \in DOMAIN match_array : match_array[b] \in [off : Nat, stat : State]
    BY TypeParts DEF KInv
  <2>2. CASE match_array' = match_array /\ n = thr[t].cnt
    BY <1>3, <2>1, <2>2
  <2>3. CASE match_array' = Put(match_array, a, v)
    <3>1. /\ DOMAIN match_array' = DOMAIN match_array \cup {a} /\ match_array'[a] = v
          /\ \A b \in DOMAIN match_array : b # a => match_array'[b] = match_array[b]
      BY <2>3 DEF Put
    <3>2. ASSUME NEW b \in DOMAIN match_array'
          PROVE  match_array'[b] \in [off : Nat, stat : State]
      BY <1>3, <2>1, <3>1
    <3>3. DOMAIN match_array' \subseteq Nat
      BY <1>4, <2>1, <3>1
    <3> QED BY <3>1, <3>2, <3>3
  <2> QED BY <1>5, <2>2, <2>3
<1>10. KernelTypeOK'
  <2>1. match_count' \in [DOMAIN match_count' -> Nat]
    BY <1>2, TypeParts DEF KInv
  <2> QED BY <1>8, <1>9, <2>1 DEF KernelTypeOK, LaunchOK
<1>11. ASSUME NEW q \in Threads, Working(q) PROVE Progress(q)'
  <2>1. Progress(q)
    BY <1>11 DEF KInv
  <2>2. CASE q = t
    <3>1. \A m \in 0..n-1 : MatchAddress(t, m) \in DOMAIN match_array'
      <4>1. SUFFICES ASSUME NEW m \in 0..n-1 PROVE MatchAddress(t, m) \in DOMAIN match_array'
        OBVIOUS
      <4>2. m \in 0..thr[t].cnt-1 \/ (m = thr[t].cnt /\ n = thr[t].cnt + 1)
        BY <1>3, <1>5
      <4>3. CASE m \in 0..thr[t].cnt-1
        BY <1>2, <1>9, <4>3 DEF Progress
      <4> QED BY <1>9, <4>2, <4>3 DEF a
    <3>2. n <= thr[t].p + 1 /\ thr[t].p + 1 <= payload_sizes[t.bx + 1]
      BY <1>2, <1>3, <1>6 DEF Progress
    <3>3. \A m : MatchAddress(t, m)' = MatchAddress(t, m)
      BY <1>2, HostUnchanged
    <3>4. payload_sizes' = payload_sizes
      BY <1>2 DEF hostVars
    <3> QED BY <1>7, <2>2, <3>1, <3>2, <3>3, <3>4 DEF Progress
  <2>3. CASE q # t
    <3>1. thr'[q] = thr[q]
      BY <1>1, <1>5, <2>3
    <3> QED BY <1>2, <1>9, <2>1, <3>1, HostUnchanged DEF Progress, hostVars
  <2> QED BY <2>2, <2>3
<1> QED BY <1>2, <1>10, <1>11, HostUnchanged DEF KInv

(* Hence the invariant is inductive. *)
LEMMA KInvNext == KInv /\ [KernelNext]_kernelVars => KInv'
<1> SUFFICES ASSUME KInv, [KernelNext]_kernelVars PROVE KInv'
  OBVIOUS
<1>1. CASE KernelNext
  <2>1. PICK t \in Threads : ThreadStep(t)
    BY <1>1 DEF KernelNext
  <2> QED BY <2>1, ReturnKeeps, ScanByteKeeps, FinishKeeps DEF ThreadStep
<1>2. CASE UNCHANGED kernelVars
  <2>1. UNCHANGED hostVars /\ UNCHANGED <<thr, match_array, match_count>>
    BY <1>2 DEF kernelVars, hostVars
  <2>2. KernelTypeOK'
    BY <2>1, HostUnchanged, TypeParts DEF KInv, KernelTypeOK, LaunchOK
  <2> QED BY <2>1, <2>2, HostUnchanged DEF KInv, Progress, hostVars
<1> QED BY <1>1, <1>2

(* The invariant holds in every launch, whatever the order of the threads. *)
THEOREM KernelInvariant == KernelSpec => []KInv
<1> QED BY KInvInit, KInvNext, PTL DEF KernelSpec

(* The variables of the kernel have their types in every launch. *)
THEOREM KernelTypeCorrect == KernelSpec => []KernelTypeOK
<1>1. KInv => KernelTypeOK
  BY DEF KInv
<1> QED BY <1>1, KernelInvariant, PTL

-----------------------------------------------------------------------------
(* The match vector of a thread has an entry for every byte of its packet. *)
LEMMA VectorLongEnough ==
  ASSUME LaunchOK, NarrowEnough, NEW t \in Threads
  PROVE  MatchVecSize \in Nat /\ payload_sizes[t.bx + 1] <= MatchVecSize
<1>1. /\ payload_sizes[1] \in Nat /\ payload_sizes[t.bx + 1] \in Nat
      /\ payload_sizes[t.bx + 1] <= payload_sizes[1]
  BY ThreadFacts
<1>2. MatchVecSize \in Nat /\ payload_sizes[1] <= MatchVecSize
  BY <1>1, ScaledUp, KernelAssumption DEF NarrowEnough, MatchVecSize
<1> QED BY <1>1, <1>2

(* An entry of the vector of a working thread lies in the match array. *)
LEMMA AddressInBounds ==
  ASSUME LaunchOK, NarrowEnough, NEW t \in Threads, Working(t),
         NEW n \in Nat, n < payload_sizes[t.bx + 1]
  PROVE  /\ n \in 0..MatchVecSize-1
         /\ MatchAddress(t, n) \in 0..(MatchVecSize * Slots - 1)
<1>1. MatchVecSize \in Nat /\ n \in 0..MatchVecSize-1
  BY VectorLongEnough, ThreadFacts
<1>2. Slots \in Nat
  BY ThreadFacts, ProductGrows, KernelAssumption DEF Slots
<1> QED BY <1>1, <1>2, SlotInBounds, DigitBounds DEF MatchAddress

(* WritesInBounds: with at most MatchFactor DFAs no thread ever writes     *)
(* outside the arrays udfa_run allocated, whatever the packets, the number *)
(* of DFAs and the block size.                                             *)
THEOREM MatchesStayInBounds == ASSUME NarrowEnough PROVE KernelSpec => []WritesInBounds
<1>1. KernelInit => WritesInBounds
  BY DEF KernelInit, Launch, WritesInBounds
<1>2. KInv /\ WritesInBounds /\ [KernelNext]_kernelVars => WritesInBounds'
  <2> SUFFICES ASSUME KInv, WritesInBounds, [KernelNext]_kernelVars PROVE WritesInBounds'
    OBVIOUS
  <2>1. CASE UNCHANGED kernelVars
    BY <2>1, HostUnchanged DEF kernelVars, hostVars, WritesInBounds
  <2>2. ASSUME NEW t \in Threads, Return(t) PROVE WritesInBounds'
    BY <2>2, HostUnchanged DEF Return, WritesInBounds
  <2>3. ASSUME NEW t \in Threads, ScanByte(t) PROVE WritesInBounds'
    <3>1. /\ LaunchOK /\ Working(t) /\ Progress(t) /\ thr[t] \in Locals
          /\ thr[t].p < payload_sizes[t.bx + 1]
          /\ match_count' = match_count /\ UNCHANGED hostVars
      BY <2>3, ScanByteFacts, TypeParts DEF KInv
    <3>2. /\ thr[t].cnt \in Nat /\ thr[t].p \in Nat /\ payload_sizes[t.bx + 1] \in Nat
          /\ thr[t].cnt <= thr[t].p
      BY <3>1, ThreadFacts DEF Locals, Progress
    <3>3. MatchAddress(t, thr[t].cnt) \in 0..(MatchVecSize * Slots - 1)
      BY <3>1, <3>2, AddressInBounds
    <3>4. \/ match_array' = match_array
          \/ match_array' = Put(match_array, MatchAddress(t, thr[t].cnt),
                                [off |-> thr[t].p, stat |-> NextState(t)])
      BY <2>3, ScanByteFacts
    <3>5. DOMAIN match_array' \subseteq DOMAIN match_array \cup {MatchAddress(t, thr[t].cnt)}
      BY <3>4 DEF Put
    <3> QED BY <3>1, <3>3, <3>5, HostUnchanged DEF WritesInBounds
  <2>4. ASSUME NEW t \in Threads, Finish(t) PROVE WritesInBounds'
    <3>1. /\ LaunchOK /\ Working(t) /\ UNCHANGED hostVars /\ match_array' = match_array
          /\ match_count' = Put(match_count, Slot(t), thr[t].cnt)
      BY <2>4, TypeParts DEF Finish, KInv
    <3>2. DOMAIN match_count' = DOMAIN match_count \cup {Slot(t)}
      BY <3>1 DEF Put
    <3> QED BY <3>1, <3>2, SlotInBounds, HostUnchanged DEF WritesInBounds
  <2> QED BY <2>1, <2>2, <2>3, <2>4 DEF KernelNext, ThreadStep
<1> QED BY <1>1, <1>2, KernelInvariant, PTL DEF KernelSpec

-----------------------------------------------------------------------------
(* The launch has a thread for every packet and DFA, whatever the block    *)
(* size, and that thread has the packet's and the DFA's numbers.           *)
LEMMA ThreadOfFacts ==
  ASSUME LaunchOK, NEW j \in 1..GridX, NEW d \in 0..NSubsets-1
  PROVE  /\ ThreadOf(j, d) \in Threads /\ ThreadOf(j, d).bx = j - 1
         /\ DfaId(ThreadOf(j, d)) = d /\ Working(ThreadOf(j, d))
<1>1. blockDim \in Nat \ {0} /\ GridX \in Nat /\ d \in Nat /\ NSubsets \in Nat
  BY KernelAssumption DEF LaunchOK, LayoutOK, GridX
<1> DEFINE q == d \div blockDim  r == d % blockDim  N == NSubsets \div blockDim
<1>2. /\ q \in Nat /\ r \in 0..blockDim-1 /\ d = blockDim * q + r
      /\ N \in Nat /\ NSubsets % blockDim \in 0..blockDim-1
      /\ NSubsets = blockDim * N + (NSubsets % blockDim)
  BY <1>1, DivMod
<1>3. q <= N
  <2>1. ASSUME N < q PROVE FALSE
    <3>1. blockDim * N + blockDim <= blockDim * q
      BY <1>1, <1>2, <2>1, MultipleGap
    <3> HIDE DEF q, r, N
    <3>2. blockDim * N \in Nat /\ blockDim * q \in Nat
      BY <1>1, <1>2, ProductGrows
    <3> QED BY <1>1, <1>2, <3>1, <3>2
  <2> QED BY <1>2, <2>1
<1> HIDE DEF q, r, N
<1>4. ThreadOf(j, d) = [bx |-> j - 1, by |-> q, tx |-> r]
  BY DEF ThreadOf, q, r
<1>5. ThreadOf(j, d) \in Threads
  BY <1>1, <1>2, <1>3, <1>4 DEF Threads, N
<1>6. q * blockDim = blockDim * q /\ blockDim * q \in Nat
  BY <1>1, <1>2, ProductGrows
<1>7. DfaId(ThreadOf(j, d)) = d
  BY <1>1, <1>2, <1>4, <1>6 DEF DfaId
<1> QED BY <1>1, <1>4, <1>5, <1>7 DEF Working

(* Conversely, a working thread is the one of its packet and its DFA.      *)
LEMMA ThreadOfInverse ==
  ASSUME LaunchOK, NEW t \in Threads
  PROVE  t = ThreadOf(t.bx + 1, DfaId(t))
<1>1. /\ blockDim \in Nat \ {0} /\ t.by \in Nat /\ t.tx \in 0..blockDim-1 /\ t.bx \in Nat
      /\ DfaId(t) \in Nat
  BY ThreadFacts DEF LaunchOK
<1> DEFINE d == DfaId(t)  q == d \div blockDim  r == d % blockDim
<1>2. q \in Nat /\ r \in 0..blockDim-1 /\ d = r + blockDim * q
  <2>1. q \in Nat /\ r \in 0..blockDim-1 /\ d = blockDim * q + r
    BY <1>1, DivMod
  <2> HIDE DEF q, r, d
  <2>2. blockDim * q \in Nat
    BY <1>1, <2>1, ProductGrows
  <2> QED BY <1>1, <2>1, <2>2
<1>3. d = t.tx + blockDim * t.by
  BY <1>1, ProductGrows DEF DfaId
<1> HIDE DEF q, r, d
<1>4. t.by = q /\ t.tx = r
  BY <1>1, <1>2, <1>3, DigitsUnique
<1>5. t = [bx |-> t.bx, by |-> t.by, tx |-> t.tx]
  BY DEF Threads
<1> QED BY <1>1, <1>4, <1>5 DEF ThreadOf, q, r, d

(* Every entry of match_count belongs to a pair. *)
LEMMA SlotOfPair ==
  ASSUME LaunchOK, NEW s \in 0..Slots-1
  PROVE  \E t \in Threads : Working(t) /\ Slot(t) = s
<1>1. GridX \in Nat \ {0} /\ NSubsets \in Nat \ {0}
  BY KernelAssumption DEF LaunchOK, LayoutOK, GridX
<1> DEFINE d == s \div GridX  b == s % GridX
<1>2. s \in Nat /\ s < GridX * NSubsets
  BY <1>1, ProductGrows DEF Slots
<1>3. d \in Nat /\ b \in 0..GridX-1 /\ s = GridX * d + b
  BY <1>1, <1>2, DivMod
<1> HIDE DEF d, b
<1>4. GridX * d \in Nat /\ d * GridX = GridX * d
  BY <1>1, <1>3, ProductGrows
<1>5. d < NSubsets
  <2>1. ASSUME NSubsets <= d PROVE FALSE
    <3>1. GridX * NSubsets <= GridX * d /\ GridX * NSubsets \in Nat
      <4>1. /\ NSubsets * GridX \in Nat /\ NSubsets * GridX <= d * GridX
            /\ GridX * NSubsets = NSubsets * GridX
        BY <1>1, <1>3, <2>1, ProductGrows
      <4> QED BY <1>4, <4>1
    <3> QED BY <1>2, <1>3, <1>4, <3>1
  <2> QED BY <1>1, <1>3, <2>1
<1>6. PICK j \in 1..GridX : j - 1 = b
  BY <1>1, <1>3
<1>7. d \in 0..NSubsets-1
  BY <1>1, <1>3, <1>5
<1>8. /\ ThreadOf(j, d) \in Threads /\ Working(ThreadOf(j, d))
      /\ ThreadOf(j, d).bx = j - 1 /\ DfaId(ThreadOf(j, d)) = d
  BY <1>7, ThreadOfFacts
<1>9. Slot(ThreadOf(j, d)) = s
  BY <1>1, <1>3, <1>4, <1>6, <1>8 DEF Slot
<1> QED BY <1>8, <1>9

CountsInBounds == DOMAIN match_count \subseteq 0..(Slots - 1)

(* No count is written outside of the array of counts. *)
LEMMA CountsStayInBounds == KernelSpec => []CountsInBounds
<1>1. KernelInit => CountsInBounds
  BY DEF KernelInit, Launch, CountsInBounds
<1>2. KInv /\ CountsInBounds /\ [KernelNext]_kernelVars => CountsInBounds'
  <2> SUFFICES ASSUME KInv, CountsInBounds, [KernelNext]_kernelVars PROVE CountsInBounds'
    OBVIOUS
  <2>1. CASE UNCHANGED kernelVars
    BY <2>1, HostUnchanged DEF kernelVars, hostVars, CountsInBounds
  <2>2. ASSUME NEW t \in Threads, Return(t) \/ ScanByte(t) PROVE CountsInBounds'
    BY <2>2, HostUnchanged DEF Return, ScanByte, CountsInBounds
  <2>3. ASSUME NEW t \in Threads, Finish(t) PROVE CountsInBounds'
    <3>1. /\ LaunchOK /\ Working(t) /\ UNCHANGED hostVars
          /\ match_count' = Put(match_count, Slot(t), thr[t].cnt)
      BY <2>3, TypeParts DEF Finish, KInv
    <3>2. DOMAIN match_count' = DOMAIN match_count \cup {Slot(t)}
      BY <3>1 DEF Put
    <3> QED BY <3>1, <3>2, SlotInBounds, HostUnchanged DEF CountsInBounds
  <2> QED BY <2>1, <2>2, <2>3 DEF KernelNext, ThreadStep
<1> QED BY <1>1, <1>2, KernelInvariant, PTL DEF KernelSpec

(* EveryPairCounted: when the kernel has ended, match_count has been       *)
(* written for every pair of a packet and a DFA, whatever the block size.  *)
THEOREM EveryPairIsCounted == KernelSpec => []EveryPairCounted
<1>1. KInv /\ CountsInBounds => EveryPairCounted
  <2> SUFFICES ASSUME KInv, CountsInBounds, KernelDone
               PROVE  DOMAIN match_count = 0..(Slots - 1)
    BY DEF EveryPairCounted
  <2>1. ASSUME NEW s \in 0..(Slots - 1) PROVE s \in DOMAIN match_count
    <3>1. LaunchOK
      BY TypeParts DEF KInv
    <3>2. PICK t \in Threads : Working(t) /\ Slot(t) = s
      BY <2>1, <3>1, SlotOfPair
    <3>3. thr[t].pc = "exit" /\ Progress(t)
      BY <3>2 DEF KernelDone, KInv
    <3> QED BY <3>2, <3>3 DEF Progress
  <2> QED BY <2>1 DEF CountsInBounds
<1> QED BY <1>1, KernelInvariant, CountsStayInBounds, PTL

-----------------------------------------------------------------------------
(* With packet_size a multiple of the word, the word pointer of a thread   *)
(* is at the first byte of its packet.                                     *)
LEMMA StartOfPacket ==
  ASSUME LaunchOK, Aligned, NEW t \in Threads
  PROVE  InputStart(t) = t.bx * payload_sizes[1]
<1> DEFINE s1 == payload_sizes[1]  F == FetchBytes  k == s1 \div F  b == t.bx
<1>1. F \in Nat \ {0} /\ s1 \in Nat \ {0} /\ b \in Nat /\ 1 \in 1..GridX
  BY ThreadFacts, KernelAssumption
<1>2. s1 % F = 0
  BY <1>1 DEF LaunchOK, LayoutOK, GridX
<1>3. InputStart(t) = F * ((s1 * b) \div F)
  BY DEF InputStart, Aligned
<1> HIDE DEF s1, F, b
<1>4. k \in Nat /\ s1 = F * k
  <2>1. k \in Nat /\ s1 = F * k + (s1 % F)
    BY <1>1, DivMod
  <2> QED BY <1>1, <1>2, <2>1
<1> HIDE DEF k
<1>5. k * b \in Nat /\ s1 * b = F * (k * b) /\ s1 * b \in Nat
  BY <1>1, <1>4, ProductGrows
<1>6. (s1 * b) \div F = k * b
  <2>1. /\ (s1 * b) \div F \in Nat /\ (s1 * b) % F \in 0..F-1
        /\ s1 * b = F * ((s1 * b) \div F) + ((s1 * b) % F)
    BY <1>1, <1>5, DivMod
  <2> DEFINE q == (s1 * b) \div F  r == (s1 * b) % F
  <2> HIDE DEF q, r
  <2>2. q \in Nat /\ r \in 0..F-1 /\ 0 \in 0..F-1 /\ r + F * q = 0 + F * (k * b)
    <3>1. F * q \in Nat
      BY <1>1, <2>1, ProductGrows DEF q
    <3> QED BY <1>1, <1>5, <2>1, <3>1 DEF q, r
  <2>3. q = k * b
    BY <1>1, <1>5, <2>2, DigitsUnique
  <2> QED BY <2>3 DEF q
<1>7. s1 * b = b * s1
  BY <1>1
<1> QED BY <1>3, <1>5, <1>6, <1>7 DEF s1, F, b

(* The packet that PacketScan sees. *)
LEMMA PacketFacts ==
  ASSUME LaunchOK, NEW j \in 1..GridX
  PROVE  /\ Len(scan_packet) = GridX
         /\ Len(scan_packet[j]) = payload_sizes[j]
         /\ \A i \in 1..payload_sizes[j] :
              scan_packet[j][i] = payloads[(j - 1) * payload_sizes[1] + i]
<1> DEFINE s1 == payload_sizes[1]  n == Len(payload_sizes)  a == (j - 1) * s1  k == payload_sizes[j]
<1>1. /\ n \in Nat \ {0} /\ n = GridX /\ j \in 1..n
      /\ payload_sizes \in [1..n -> Nat] /\ payloads \in Seq(Byte)
  BY DEF LaunchOK, LayoutOK, GridX
<1>2. s1 \in Nat /\ k \in Nat /\ payload_sizes[n] \in Nat
  BY <1>1
<1>3. Len(payloads) = (n - 1) * s1 + payload_sizes[n]
  BY DEF LaunchOK, LayoutOK
<1> HIDE DEF s1, n, k
<1>4. a \in Nat
  BY <1>1, <1>2, ProductGrows
<1>5. a + k <= Len(payloads)
  <2>1. CASE j = n
    <3>1. k = payload_sizes[n] BY <2>1 DEF k
    <3> QED BY <1>2, <1>3, <1>4, <2>1, <3>1
  <2>2. CASE j < n
    <3>1. k = s1
      BY <1>1, <2>2 DEF LaunchOK, LayoutOK, s1, k, n
    <3>2. s1 * (j - 1) + s1 <= s1 * (n - 1)
      BY <1>1, <1>2, <2>2, MultipleGap
    <3>3. s1 * (n - 1) = (n - 1) * s1 /\ s1 * (j - 1) = a
      BY <1>1, <1>2
    <3>4. (n - 1) * s1 \in Nat
      BY <1>1, <1>2, ProductGrows
    <3> HIDE DEF a
    <3> QED BY <1>2, <1>3, <1>4, <3>1, <3>2, <3>3, <3>4
  <2>3. j = n \/ j < n
    BY <1>1
  <2> QED BY <2>1, <2>2, <2>3
<1>6. scan_packet[j] = SubSeq(payloads, a + 1, a + k)
  BY DEF scan_packet, s1, k
<1> HIDE DEF a
<1>7. Len(scan_packet[j]) = k /\ \A i \in 1..k : scan_packet[j][i] = payloads[a + i]
  BY <1>1, <1>2, <1>4, <1>5, <1>6
<1>8. Len(scan_packet) = GridX
  BY <1>1 DEF scan_packet
<1> QED BY <1>7, <1>8 DEF a, k, s1

-----------------------------------------------------------------------------
(* The hypotheses of the refinement: see Aligned, NarrowEnough and         *)
(* ZeroRejects.                                                            *)
RInv == KInv /\ Aligned

PairOf(t) == <<t.bx + 1, DfaId(t)>>

(* Working threads and pairs correspond one to one. *)
LEMMA PairFacts ==
  ASSUME LaunchOK, NEW t \in Threads, Working(t)
  PROVE  /\ PairOf(t) \in ScanPairs
         /\ ThreadOf(PairOf(t)[1], PairOf(t)[2]) = t
         /\ \A x \in ScanPairs :
              /\ ThreadOf(x[1], x[2]) \in Threads /\ Working(ThreadOf(x[1], x[2]))
              /\ ThreadOf(x[1], x[2]) = t => x = PairOf(t)
<1>1. t.bx \in 0..GridX-1 /\ DfaId(t) \in 0..NSubsets-1 /\ GridX \in Nat
  BY ThreadFacts, SlotInBounds
<1>2. PairOf(t) \in ScanPairs /\ PairOf(t)[1] = t.bx + 1 /\ PairOf(t)[2] = DfaId(t)
  BY <1>1 DEF PairOf, ScanPairs
<1>3. ThreadOf(PairOf(t)[1], PairOf(t)[2]) = t
  BY <1>2, ThreadOfInverse
<1>4. ASSUME NEW x \in ScanPairs
      PROVE  /\ ThreadOf(x[1], x[2]) \in Threads /\ Working(ThreadOf(x[1], x[2]))
             /\ ThreadOf(x[1], x[2]) = t => x = PairOf(t)
  <2>1. x[1] \in 1..GridX /\ x[2] \in 0..NSubsets-1 /\ x = <<x[1], x[2]>>
    BY DEF ScanPairs
  <2>2. /\ ThreadOf(x[1], x[2]) \in Threads /\ ThreadOf(x[1], x[2]).bx = x[1] - 1
        /\ DfaId(ThreadOf(x[1], x[2])) = x[2] /\ Working(ThreadOf(x[1], x[2]))
    BY <2>1, ThreadOfFacts
  <2>3. ASSUME ThreadOf(x[1], x[2]) = t PROVE x = PairOf(t)
    <3>1. t.bx = x[1] - 1 /\ DfaId(t) = x[2]
      BY <2>2, <2>3
    <3>2. x[1] = t.bx + 1
      BY <1>1, <2>1, <3>1
    <3> QED BY <2>1, <3>1, <3>2 DEF PairOf
  <2> QED BY <2>2, <2>3
<1> QED BY <1>2, <1>3, <1>4

(* Two different working threads write to different addresses. *)
LEMMA AddressesDiffer ==
  ASSUME LaunchOK, NarrowEnough, NEW t \in Threads, NEW q \in Threads,
         Working(t), Working(q),
         NEW m \in Nat, NEW n \in Nat,
         m < payload_sizes[t.bx + 1], n < payload_sizes[q.bx + 1],
         MatchAddress(t, m) = MatchAddress(q, n)
  PROVE  t = q /\ m = n
<1>1. /\ MatchVecSize \in Nat /\ m \in 0..MatchVecSize-1 /\ n \in 0..MatchVecSize-1
      /\ Slot(t) \in Nat /\ Slot(q) \in Nat
  BY AddressInBounds, VectorLongEnough, ThreadFacts
<1>2. Slot(t) = Slot(q) /\ m = n
  BY <1>1, DigitsUnique DEF MatchAddress
<1>3. /\ GridX \in Nat /\ t.bx \in 0..GridX-1 /\ q.bx \in 0..GridX-1
      /\ DfaId(t) \in Nat /\ DfaId(q) \in Nat
  BY ThreadFacts
<1>4. Slot(t) = t.bx + GridX * DfaId(t) /\ Slot(q) = q.bx + GridX * DfaId(q)
  BY <1>3 DEF Slot
<1>5. DfaId(t) = DfaId(q) /\ t.bx = q.bx
  BY <1>2, <1>3, <1>4, DigitsUnique
<1> QED BY <1>2, <1>5, ThreadOfInverse

(* The initial states of the kernel map to those of the scans. *)
LEMMA ScanInit == KernelInit => Scan!Init
<1> SUFFICES ASSUME KernelInit PROVE Scan!Init
  OBVIOUS
<1>1. /\ LaunchOK
      /\ thr = [t \in Threads |-> [pc |-> "run", p |-> 0, cnt |-> 0, state |-> 0]]
  BY DEF KernelInit, Launch, Started, LaunchOK
<1>2. Scan!Pairs = ScanPairs
  BY <1>1 DEF Scan!Pairs, ScanPairs, scan_packet, LaunchOK, LayoutOK, GridX
<1>3. ASSUME NEW x \in ScanPairs
      PROVE  LET q == ThreadOf(x[1], x[2]) IN
             thr[q].p = 0 /\ thr[q].state = 0 /\ thr[q].pc = "run" /\ FoundBy(q) = <<>>
  <2>1. ThreadOf(x[1], x[2]) \in Threads
    BY <1>1, ThreadOfFacts DEF ScanPairs
  <2>2. thr[ThreadOf(x[1], x[2])] = [pc |-> "run", p |-> 0, cnt |-> 0, state |-> 0]
    BY <1>1, <2>1
  <2>3. thr[ThreadOf(x[1], x[2])].cnt = 0
    BY <2>2
  <2>4. FoundBy(ThreadOf(x[1], x[2])) = <<>>
    BY <2>3 DEF FoundBy
  <2> QED BY <2>2, <2>4
<1>4. scan_off = [x \in ScanPairs |-> 0] /\ scan_st = [x \in ScanPairs |-> 0]
  BY <1>3 DEF scan_off, scan_st
<1>5. scan_found = [x \in ScanPairs |-> <<>>]
  BY <1>3 DEF scan_found
<1>6. scan_published = {}
  BY <1>3 DEF scan_published
<1> QED BY <1>2, <1>4, <1>5, <1>6 DEF Scan!Init

(* The scans of all other pairs stay as they are. *)
LEMMA ScanUnchanged ==
  ASSUME UNCHANGED hostVars
  PROVE  /\ scan_packet' = scan_packet /\ ScanPairs' = ScanPairs
         /\ \A j, d : ThreadOf(j, d)' = ThreadOf(j, d)
BY DEF hostVars, scan_packet, ScanPairs, ThreadOf, GridX

(* Two names of the matches found after a step. *)
LEMMA FoundByPrime ==
  ASSUME UNCHANGED hostVars, NEW j, NEW d, NEW q, q = ThreadOf(j, d)
  PROVE  FoundBy(ThreadOf(j, d))' = FoundBy(q)'
<1>1. q = ThreadOf(j, d)'
  BY DEF hostVars, ThreadOf
<1> QED BY <1>1 DEF FoundBy, MatchAddress, Slot, DfaId

(* A step that changes no private list is a stutter of the scans. *)
LEMMA ScanStutter ==
  ASSUME UNCHANGED kernelVars
  PROVE  UNCHANGED Scan!scanVars
BY DEF kernelVars, Scan!scanVars, scan_packet, scan_off, scan_st, scan_found,
       scan_published, ScanPairs, ThreadOf, GridX, FoundBy, MatchAddress, MatchVecSize,
       Slot, DfaId

(* The return of a thread without a pair is a stutter. *)
LEMMA ReturnStutters ==
  ASSUME RInv, NEW t \in Threads, Return(t)
  PROVE  UNCHANGED Scan!scanVars
<1>1. /\ LaunchOK /\ ~Working(t) /\ UNCHANGED hostVars /\ UNCHANGED match_array
      /\ thr' = [thr EXCEPT ![t].pc = "exit"] /\ thr \in [Threads -> Locals]
  BY TypeParts DEF RInv, KInv, Return
<1>2. ASSUME NEW x \in ScanPairs
      PROVE  LET q == ThreadOf(x[1], x[2]) IN thr'[q] = thr[q]
  <2>1. ThreadOf(x[1], x[2]) \in Threads /\ Working(ThreadOf(x[1], x[2]))
    BY <1>1, ThreadOfFacts DEF ScanPairs
  <2> QED BY <1>1, <2>1
<1>3. \A x \in ScanPairs : FoundBy(ThreadOf(x[1], x[2]))' = FoundBy(ThreadOf(x[1], x[2]))
  BY <1>1, <1>2, ScanUnchanged, HostUnchanged DEF FoundBy
<1>4. UNCHANGED <<scan_off, scan_st>>
  BY <1>1, <1>2, ScanUnchanged DEF scan_off, scan_st
<1>5. UNCHANGED scan_published
  BY <1>1, <1>2, ScanUnchanged DEF scan_published
<1>6. UNCHANGED scan_found
  BY <1>1, <1>3, ScanUnchanged DEF scan_found
<1> QED BY <1>1, <1>4, <1>5, <1>6, ScanUnchanged DEF Scan!scanVars

(* The end of a thread publishes what its scan has found. *)
LEMMA FinishPublishes ==
  ASSUME RInv, NEW t \in Threads, Finish(t)
  PROVE  Scan!Publish(PairOf(t))
<1> DEFINE x == PairOf(t)
           r == [pc |-> "exit", p |-> thr[t].p, cnt |-> thr[t].cnt, state |-> thr[t].state]
<1>1. /\ LaunchOK /\ Working(t) /\ UNCHANGED hostVars /\ UNCHANGED match_array
      /\ thr' = [thr EXCEPT ![t].pc = "exit"] /\ thr \in [Threads -> Locals]
      /\ thr[t] \in Locals /\ thr[t].pc = "run" /\ ~MoreInput(t) /\ Progress(t)
  BY TypeParts DEF RInv, KInv, Finish
<1>2. thr' = [thr EXCEPT ![t] = r]
  BY <1>1, ExitUpdate
<1>3. /\ thr'[t].p = thr[t].p /\ thr'[t].cnt = thr[t].cnt /\ thr'[t].state = thr[t].state
      /\ thr'[t].pc = "exit"
  BY <1>1, <1>2
<1>4. /\ x \in ScanPairs /\ ThreadOf(x[1], x[2]) = t
      /\ \A y \in ScanPairs : /\ ThreadOf(y[1], y[2]) \in Threads
                              /\ ThreadOf(y[1], y[2]) = t => y = x
  BY <1>1, PairFacts
<1> HIDE DEF x, r
<1>5. ASSUME NEW y \in ScanPairs
      PROVE  LET q == ThreadOf(y[1], y[2]) IN
             /\ thr'[q].p = thr[q].p /\ thr'[q].cnt = thr[q].cnt
             /\ thr'[q].state = thr[q].state
             /\ thr'[q].pc = "exit" <=> (thr[q].pc = "exit" \/ y = x)
  <2>1. CASE ThreadOf(y[1], y[2]) = t
    BY <1>3, <1>4, <2>1
  <2>2. CASE ThreadOf(y[1], y[2]) # t
    <3>1. thr'[ThreadOf(y[1], y[2])] = thr[ThreadOf(y[1], y[2])] /\ y # x
      BY <1>1, <1>2, <1>4, <2>2
    <3> QED BY <3>1
  <2> QED BY <2>1, <2>2
<1>6. \A y \in ScanPairs : FoundBy(ThreadOf(y[1], y[2]))' = FoundBy(ThreadOf(y[1], y[2]))
  BY <1>1, <1>5, ScanUnchanged, HostUnchanged DEF FoundBy
<1>7. UNCHANGED <<scan_off, scan_st>>
  BY <1>1, <1>5, ScanUnchanged DEF scan_off, scan_st
<1>8. UNCHANGED scan_found
  BY <1>1, <1>6, ScanUnchanged DEF scan_found
<1>9. scan_published' = scan_published \cup {x} /\ x \notin scan_published
  BY <1>1, <1>4, <1>5, ScanUnchanged DEF scan_published
<1>10. scan_off[x] = Len(scan_packet[x[1]])
  <2>1. /\ thr[t].p \in Nat /\ payload_sizes[t.bx + 1] \in Nat
        /\ thr[t].p <= payload_sizes[t.bx + 1]
        /\ ~(thr[t].p < payload_sizes[t.bx + 1])
    BY <1>1, ThreadFacts DEF Locals, Progress, MoreInput
  <2>2. x[1] = t.bx + 1 /\ x[1] \in 1..GridX
    BY <1>4 DEF x, PairOf, ScanPairs
  <2>3. Len(scan_packet[x[1]]) = payload_sizes[x[1]]
    BY <1>1, <2>2, PacketFacts
  <2> QED BY <1>4, <2>1, <2>2, <2>3 DEF scan_off
<1>11. UNCHANGED scan_packet
  BY <1>1, ScanUnchanged
<1> QED BY <1>7, <1>8, <1>9, <1>10, <1>11 DEF Scan!Publish, x

(* What the scan of the other pairs sees of a write by thread t: nothing. *)
LEMMA OthersKeepMatches ==
  ASSUME KInv, NarrowEnough, NEW t \in Threads, ScanByte(t),
         NEW q \in Threads, Working(q), q # t
  PROVE  thr'[q] = thr[q] /\ FoundBy(q)' = FoundBy(q)
<1>1. /\ LaunchOK /\ Working(t) /\ Progress(t) /\ Progress(q)
      /\ thr[t].p < payload_sizes[t.bx + 1] /\ UNCHANGED hostVars
      /\ thr \in [Threads -> Locals] /\ thr[t] \in Locals /\ thr[q] \in Locals
  BY ScanByteFacts, TypeParts DEF KInv
<1>2. thr'[q] = thr[q]
  BY <1>1, ScanByteFacts
<1>3. /\ thr[t].cnt \in Nat /\ thr[t].cnt < payload_sizes[t.bx + 1]
      /\ thr[q].cnt \in Nat /\ thr[q].cnt <= payload_sizes[q.bx + 1]
      /\ payload_sizes[q.bx + 1] \in Nat
  BY <1>1, ThreadFacts DEF Locals, Progress
<1>4. ASSUME NEW n \in 1..thr[q].cnt
      PROVE  match_array'[MatchAddress(q, n - 1)] = match_array[MatchAddress(q, n - 1)]
  <2>1. PICK m \in 0..thr[q].cnt-1 : n - 1 = m
    BY <1>3
  <2>2. m \in Nat /\ m < payload_sizes[q.bx + 1] /\ MatchAddress(q, m) \in DOMAIN match_array
    BY <1>1, <1>3 DEF Progress
  <2>3. MatchAddress(q, m) # MatchAddress(t, thr[t].cnt)
    BY <1>1, <1>3, <2>2, AddressesDiffer
  <2>4. \/ match_array' = match_array
        \/ match_array' = Put(match_array, MatchAddress(t, thr[t].cnt),
                              [off |-> thr[t].p, stat |-> NextState(t)])
    BY ScanByteFacts
  <2>5. match_array'[MatchAddress(q, m)] = match_array[MatchAddress(q, m)]
    BY <2>2, <2>3, <2>4 DEF Put
  <2> QED BY <2>1, <2>5
<1> QED BY <1>1, <1>2, <1>4, HostUnchanged DEF FoundBy

(* The list of thread t itself grows by its match. *)
LEMMA OwnMatches ==
  ASSUME KInv, NarrowEnough, ZeroRejects, NEW t \in Threads, ScanByte(t)
  PROVE  /\ thr'[t].pc = "run" /\ thr'[t].p = thr[t].p + 1 /\ thr'[t].state = NextState(t)
         /\ FoundBy(t)' =
              IF NextState(t) \in Accept[DfaId(t)]
              THEN Append(FoundBy(t), [off |-> thr[t].p, stat |-> NextState(t)])
              ELSE FoundBy(t)
<1> DEFINE v == [off |-> thr[t].p, stat |-> NextState(t)]  M == [off : Nat, stat : State]
           c == thr[t].cnt
<1>1. /\ LaunchOK /\ Working(t) /\ Progress(t) /\ UNCHANGED hostVars
      /\ thr \in [Threads -> Locals] /\ thr[t] \in Locals /\ NextState(t) \in State
      /\ thr[t].p < payload_sizes[t.bx + 1]
      /\ \A a \in DOMAIN match_array : match_array[a] \in M
  BY ScanByteFacts, TypeParts DEF KInv
<1>2. c \in Nat /\ v \in M /\ c < payload_sizes[t.bx + 1] /\ payload_sizes[t.bx + 1] \in Nat
  BY <1>1, ThreadFacts DEF Locals, Progress
<1>3. DfaId(t) \in 0..NSubsets-1
  BY <1>1, SlotInBounds
<1>4. \A n : MatchAddress(t, n)' = MatchAddress(t, n)
  BY <1>1, HostUnchanged
<1>5. FoundBy(t) \in [1..c -> M]
  <2>1. ASSUME NEW n \in 1..c PROVE match_array[MatchAddress(t, n - 1)] \in M
    <3>1. n - 1 \in 0..c-1
      BY <1>2
    <3> QED BY <1>1, <3>1 DEF Progress
  <2> QED BY <2>1 DEF FoundBy
<1>6. CASE NextState(t) \in Accept[DfaId(t)]
  <2>1. NextState(t) # 0
    BY <1>3, <1>6 DEF ZeroRejects
  <2>2. /\ thr' = [thr EXCEPT ![t] = Advanced(t, c + 1)]
        /\ match_array' = Put(match_array, MatchAddress(t, c), v)
    BY <1>6, <2>1, ScanByteFacts
  <2>3. /\ thr'[t].pc = "run" /\ thr'[t].p = thr[t].p + 1 /\ thr'[t].state = NextState(t)
        /\ thr'[t].cnt = c + 1
    BY <1>1, <2>2 DEF Advanced
  <2> HIDE DEF v, M, c
  <2>4. FoundBy(t)' = [n \in 1..c+1 |-> match_array'[MatchAddress(t, n - 1)]]
    BY <1>4, <2>3 DEF FoundBy
  <2>5. match_array'[MatchAddress(t, c)] = v
    BY <2>2 DEF Put
  <2>6. ASSUME NEW n \in 1..c
        PROVE  match_array'[MatchAddress(t, n - 1)] = FoundBy(t)[n]
    <3>1. PICK m \in 0..c-1 : n - 1 = m
      BY <1>2
    <3>2. m \in Nat /\ m < payload_sizes[t.bx + 1] /\ m # c
          /\ MatchAddress(t, m) \in DOMAIN match_array
      BY <1>1, <1>2 DEF Progress, c
    <3>3. MatchAddress(t, m) # MatchAddress(t, c)
      BY <1>1, <1>2, <3>2, AddressesDiffer
    <3>4. match_array'[MatchAddress(t, m)] = match_array[MatchAddress(t, m)]
      BY <2>2, <3>2, <3>3 DEF Put
    <3> QED BY <3>1, <3>4 DEF FoundBy, c
  <2> DEFINE f == FoundBy(t)  g == Append(f, v)
  <2>7. f \in [1..c -> M] /\ c \in Nat /\ v \in M
    BY <1>2, <1>5
  <2>8. \A n \in 1..c : match_array'[MatchAddress(t, n - 1)] = f[n]
    BY <2>6
  <2> HIDE DEF f
  <2>9. f \in Seq(M) /\ Len(f) = c
    BY <2>7
  <2>10. g \in Seq(M) /\ Len(g) = c + 1 /\ g[c + 1] = v /\ \A n \in 1..c : g[n] = f[n]
    BY <2>7, <2>9
  <2> HIDE DEF g
  <2>11. g = [n \in 1..c+1 |-> g[n]]
    BY <2>10
  <2>12. ASSUME NEW n \in 1..c+1
         PROVE  match_array'[MatchAddress(t, n - 1)] = g[n]
    <3>1. CASE n \in 1..c
      BY <2>8, <2>10, <3>1
    <3>2. CASE n = c + 1
      <4>1. n - 1 = c
        BY <2>7, <3>2
      <4>2. match_array'[MatchAddress(t, n - 1)] = v
        BY <2>5, <4>1
      <4> QED BY <2>10, <3>2, <4>2
    <3>3. n \in 1..c \/ n = c + 1
      BY <2>7
    <3> QED BY <3>1, <3>2, <3>3
  <2>13. FoundBy(t)' = g
    BY <2>4, <2>11, <2>12
  <2> QED BY <1>6, <2>3, <2>13 DEF v, f, g
<1>7. CASE NextState(t) \notin Accept[DfaId(t)]
  <2>1. /\ thr' = [thr EXCEPT ![t] = Advanced(t, c)] /\ match_array' = match_array
    BY <1>7, ScanByteFacts
  <2>2. /\ thr'[t].pc = "run" /\ thr'[t].p = thr[t].p + 1 /\ thr'[t].state = NextState(t)
        /\ thr'[t].cnt = c
    BY <1>1, <2>1 DEF Advanced
  <2>3. FoundBy(t)' = FoundBy(t)
    BY <1>4, <2>1, <2>2 DEF FoundBy
  <2> QED BY <1>7, <2>2, <2>3
<1> QED BY <1>6, <1>7

(* A byte of a thread is a byte of its own scan and of no other. *)
LEMMA ScanByteConsumes ==
  ASSUME RInv, NarrowEnough, ZeroRejects, NEW t \in Threads, ScanByte(t)
  PROVE  Scan!Consume(PairOf(t))
<1>1. /\ LaunchOK /\ Working(t) /\ thr[t].pc = "run" /\ thr[t].p < payload_sizes[t.bx + 1]
      /\ UNCHANGED hostVars /\ thr[t] \in Locals
  BY ScanByteFacts, TypeParts DEF RInv, KInv
<1>0. PICK x : x = PairOf(t)
  OBVIOUS
<1>2. /\ x \in ScanPairs /\ ThreadOf(x[1], x[2]) = t
      /\ \A y \in ScanPairs : /\ ThreadOf(y[1], y[2]) \in Threads
                              /\ Working(ThreadOf(y[1], y[2]))
                              /\ ThreadOf(y[1], y[2]) = t => y = x
  BY <1>0, <1>1, PairFacts
<1>3. /\ x[1] = t.bx + 1 /\ x[1] \in 1..GridX /\ x[2] = DfaId(t) /\ t.bx = x[1] - 1
      /\ thr[t].p \in Nat /\ payload_sizes[x[1]] \in Nat
  BY <1>0, <1>1, <1>2, ThreadFacts DEF PairOf, ScanPairs, Locals
<1> DEFINE u == NextState(t)  v == [off |-> thr[t].p, stat |-> u]
<1>4. /\ scan_off[x] = thr[t].p /\ scan_st[x] = thr[t].state /\ x \notin scan_published
      /\ scan_found[x] = FoundBy(t)
  BY <1>1, <1>2 DEF scan_off, scan_st, scan_published, scan_found
<1>5. Len(scan_packet[x[1]]) = payload_sizes[x[1]]
  BY <1>1, <1>3, PacketFacts
<1>6. scan_packet[x[1]][scan_off[x] + 1] = payloads[InputStart(t) + thr[t].p + 1]
  <2>1. InputStart(t) = (x[1] - 1) * payload_sizes[1] /\ InputStart(t) \in Nat
    <3>1. t.bx * payload_sizes[1] \in Nat
      BY <1>1, ThreadFacts, ProductGrows
    <3> QED BY <1>1, <1>3, <3>1, StartOfPacket DEF RInv
  <2>2. PICK i \in 1..payload_sizes[x[1]] : i = thr[t].p + 1
    BY <1>1, <1>3
  <2>3. scan_packet[x[1]][i] = payloads[(x[1] - 1) * payload_sizes[1] + i]
    BY <1>1, <1>3, PacketFacts
  <2>4. InputStart(t) + thr[t].p + 1 = InputStart(t) + i
    BY <1>3, <2>1, <2>2
  <2> QED BY <1>4, <2>1, <2>2, <2>3, <2>4
<1>7. u = Delta[x[2]][<<scan_st[x], scan_packet[x[1]][scan_off[x] + 1]>>]
  BY <1>3, <1>4, <1>6 DEF NextState
<1>8. /\ thr'[t].pc = "run" /\ thr'[t].p = thr[t].p + 1 /\ thr'[t].state = u
      /\ FoundBy(t)' = IF u \in Accept[x[2]] THEN Append(FoundBy(t), v) ELSE FoundBy(t)
  BY <1>3, OwnMatches DEF RInv
<1>9. ASSUME NEW y \in ScanPairs, y # x
      PROVE  /\ thr'[ThreadOf(y[1], y[2])] = thr[ThreadOf(y[1], y[2])]
             /\ FoundBy(ThreadOf(y[1], y[2]))' = FoundBy(ThreadOf(y[1], y[2]))
  <2>1. PICK q \in Threads : q = ThreadOf(y[1], y[2]) /\ Working(q) /\ q # t
    BY <1>2, <1>9
  <2>2. thr'[q] = thr[q] /\ FoundBy(q)' = FoundBy(q)
    BY <2>1, OthersKeepMatches DEF RInv
  <2>3. FoundBy(ThreadOf(y[1], y[2]))' = FoundBy(q)'
    BY <1>1, <2>1, FoundByPrime
  <2> QED BY <2>1, <2>2, <2>3
<1> HIDE DEF u, v
<1>10. /\ ScanPairs' = ScanPairs /\ \A y : ThreadOf(y[1], y[2])' = ThreadOf(y[1], y[2])
       /\ scan_packet' = scan_packet
  BY <1>1, ScanUnchanged
<1>11. scan_off' = [scan_off EXCEPT ![x] = @ + 1]
  BY <1>2, <1>4, <1>8, <1>9, <1>10 DEF scan_off
<1>12. scan_st' = [scan_st EXCEPT ![x] = u]
  BY <1>2, <1>4, <1>8, <1>9, <1>10 DEF scan_st
<1>13. scan_published' = scan_published
  <2>1. ASSUME NEW y \in ScanPairs
        PROVE  thr'[ThreadOf(y[1], y[2])].pc = "exit" <=> thr[ThreadOf(y[1], y[2])].pc = "exit"
    BY <1>1, <1>2, <1>8, <1>9
  <2> QED BY <1>10, <2>1 DEF scan_published
<1>14. scan_found' = IF u \in Accept[x[2]] THEN [scan_found EXCEPT ![x] = Append(@, v)]
                     ELSE scan_found
  <2>1. scan_found' = [y \in ScanPairs |-> FoundBy(ThreadOf(y[1], y[2]))']
    BY <1>10 DEF scan_found
  <2>2. CASE u \in Accept[x[2]]
    <3>1. FoundBy(ThreadOf(x[1], x[2]))' = Append(scan_found[x], v)
      <4>1. FoundBy(ThreadOf(x[1], x[2]))' = FoundBy(t)'
        BY <1>1, <1>2, FoundByPrime
      <4> QED BY <1>4, <1>8, <2>2, <4>1
    <3>2. ASSUME NEW y \in ScanPairs, y # x
          PROVE  FoundBy(ThreadOf(y[1], y[2]))' = scan_found[y]
      BY <1>9, <1>10, <3>2 DEF scan_found
    <3> QED BY <1>2, <2>1, <2>2, <3>1, <3>2 DEF scan_found
  <2>3. CASE u \notin Accept[x[2]]
    <3>1. ASSUME NEW y \in ScanPairs
          PROVE  FoundBy(ThreadOf(y[1], y[2]))' = FoundBy(ThreadOf(y[1], y[2]))
      BY <1>2, <1>8, <1>9, <1>10, <2>3
    <3> QED BY <2>1, <2>3, <3>1 DEF scan_found
  <2> QED BY <2>2, <2>3
<1>15. v = [off |-> scan_off[x], stat |-> u]
  BY <1>4 DEF v
<1>16. scan_off[x] < Len(scan_packet[x[1]])
  BY <1>1, <1>3, <1>4, <1>5
<1> QED BY <1>0, <1>4, <1>7, <1>10, <1>11, <1>12, <1>13, <1>14, <1>15, <1>16 DEF Scan!Consume

(* Hence every step of the kernel is a step of the scans or a stutter. *)
LEMMA StepImplementsScan ==
  ASSUME NarrowEnough, ZeroRejects
  PROVE  RInv /\ [KernelNext]_kernelVars => [Scan!Next]_(Scan!scanVars)
<1> SUFFICES ASSUME RInv, [KernelNext]_kernelVars PROVE [Scan!Next]_(Scan!scanVars)
  OBVIOUS
<1>1. LaunchOK
  BY TypeParts DEF RInv, KInv
<1>2. Scan!Pairs = ScanPairs
  BY <1>1 DEF Scan!Pairs, ScanPairs, scan_packet, LaunchOK, LayoutOK, GridX
<1>3. ASSUME NEW t \in Threads, ThreadStep(t) PROVE [Scan!Next]_(Scan!scanVars)
  <2>1. CASE Return(t)
    BY <2>1, ReturnStutters
  <2>2. CASE ScanByte(t)
    <3>1. PairOf(t) \in Scan!Pairs
      BY <1>1, <1>2, <2>2, PairFacts DEF ScanByte
    <3> QED BY <2>2, <3>1, ScanByteConsumes DEF Scan!Next
  <2>3. CASE Finish(t)
    <3>1. PairOf(t) \in Scan!Pairs
      BY <1>1, <1>2, <2>3, PairFacts DEF Finish
    <3> QED BY <2>3, <3>1, FinishPublishes DEF Scan!Next
  <2> QED BY <1>3, <2>1, <2>2, <2>3 DEF ThreadStep
<1> QED BY <1>3, ScanStutter DEF KernelNext

(* ImplementsScan: with aligned packets, at most MatchFactor DFAs and a    *)
(* state 0 that accepts nothing, the kernel implements the independent     *)
(* scans of PacketScan for every input, automaton and block size: threads  *)
(* never mix their results.                                                *)
THEOREM KernelImplementsScan ==
  ASSUME NarrowEnough, ZeroRejects
  PROVE  KernelSpec /\ Aligned => ImplementsScan
<1>1. Aligned /\ [KernelNext]_kernelVars => Aligned'
  BY DEF Aligned, KernelNext, ThreadStep, Return, ScanByte, Finish, kernelVars, hostVars
<1>2. KernelSpec /\ Aligned => []Aligned
  BY <1>1, PTL DEF KernelSpec
<1>3. KInv /\ Aligned <=> RInv
  BY DEF RInv
<1>4. Scan!Spec <=> Scan!Init /\ [][Scan!Next]_(Scan!scanVars)
  BY DEF Scan!Spec
<1> QED BY <1>2, <1>3, <1>4, ScanInit, StepImplementsScan, KernelInvariant, PTL
        DEF KernelSpec, ImplementsScan

-----------------------------------------------------------------------------
(* What the host finds when the kernel has ended: the count of a pair is   *)
(* the number of matches its thread has found.                             *)
CountsMatch ==
  \A t \in Threads : Working(t) /\ thr[t].pc = "exit" => match_count[Slot(t)] = thr[t].cnt

ResultsWritten ==
  \A s \in 0..Slots-1 :
    s \in DOMAIN match_count /\ \A i \in 0..match_count[s]-1 : MatchVecSize * s + i \in DOMAIN match_array

(* The matches a thread has found are in the array, in their own places. *)
LEMMA FoundByIsList ==
  ASSUME KInv, NEW t \in Threads, Working(t)
  PROVE  FoundBy(t) \in Seq([off : Nat, stat : State]) /\ Len(FoundBy(t)) = thr[t].cnt
<1> DEFINE M == [off : Nat, stat : State]  c == thr[t].cnt
<1>1. /\ Progress(t) /\ thr[t] \in Locals /\ \A a \in DOMAIN match_array : match_array[a] \in M
  BY TypeParts DEF KInv
<1>2. c \in Nat
  BY <1>1 DEF Locals
<1>3. ASSUME NEW n \in 1..c PROVE match_array[MatchAddress(t, n - 1)] \in M
  <2>1. n - 1 \in 0..c-1
    BY <1>2
  <2> QED BY <1>1, <2>1 DEF Progress
<1>4. FoundBy(t) \in [1..c -> M]
  BY <1>3 DEF FoundBy
<1> HIDE DEF c, M
<1>5. FoundBy(t) \in Seq(M) /\ Len(FoundBy(t)) = c
  BY <1>2, <1>4
<1> QED BY <1>5 DEF c, M

(* Every pair of a packet and a DFA has a slot of its own. *)
LEMMA SlotsDiffer ==
  ASSUME LaunchOK, NEW t \in Threads, NEW q \in Threads, Slot(t) = Slot(q)
  PROVE  t = q
<1>1. /\ GridX \in Nat /\ t.bx \in 0..GridX-1 /\ q.bx \in 0..GridX-1
      /\ DfaId(t) \in Nat /\ DfaId(q) \in Nat
  BY ThreadFacts
<1>2. Slot(t) = t.bx + GridX * DfaId(t) /\ Slot(q) = q.bx + GridX * DfaId(q)
  BY <1>1 DEF Slot
<1>3. DfaId(t) = DfaId(q) /\ t.bx = q.bx
  BY <1>1, <1>2, DigitsUnique
<1> QED BY <1>3, ThreadOfInverse

(* No step of any thread changes the count of another. *)
LEMMA CountsMatchNext == KInv /\ CountsMatch /\ [KernelNext]_kernelVars => CountsMatch'
<1> SUFFICES ASSUME KInv, CountsMatch, [KernelNext]_kernelVars PROVE CountsMatch'
  OBVIOUS
<1>1. LaunchOK /\ thr \in [Threads -> Locals]
  BY TypeParts DEF KInv
<1>2. CASE UNCHANGED kernelVars
  BY <1>2, HostUnchanged DEF kernelVars, hostVars, CountsMatch
<1>3. ASSUME NEW t \in Threads, Return(t) PROVE CountsMatch'
  <2>1. /\ ~Working(t) /\ UNCHANGED hostVars /\ match_count' = match_count
        /\ \A q \in Threads : q # t => thr'[q] = thr[q]
    BY <1>1, <1>3 DEF Return
  <2> QED BY <2>1, HostUnchanged DEF CountsMatch
<1>4. ASSUME NEW t \in Threads, ScanByte(t) PROVE CountsMatch'
  <2>1. UNCHANGED hostVars /\ match_count' = match_count
    BY <1>4 DEF ScanByte
  <2>2. /\ thr'[t].pc = "run"
        /\ \A q \in Threads : q # t => thr'[q] = thr[q]
    <3>1. PICK n : thr' = [thr EXCEPT ![t] = Advanced(t, n)] BY <1>4, ScanByteFacts
    <3>2. thr'[t] = Advanced(t, n) /\ \A q \in Threads : q # t => thr'[q] = thr[q]
      BY <1>1, <3>1
    <3>3. thr'[t].pc = "run" BY <3>2 DEF Advanced
    <3> QED BY <3>2, <3>3
  <2> QED BY <2>1, <2>2, HostUnchanged DEF CountsMatch
<1>5. ASSUME NEW t \in Threads, Finish(t) PROVE CountsMatch'
  <2>1. /\ UNCHANGED hostVars /\ match_count' = Put(match_count, Slot(t), thr[t].cnt)
        /\ thr' = [thr EXCEPT ![t].pc = "exit"] /\ thr[t] \in Locals
    BY <1>1, <1>5 DEF Finish
  <2>2. thr'[t].cnt = thr[t].cnt /\ \A q \in Threads : q # t => thr'[q] = thr[q]
    <3>1. thr' = [thr EXCEPT ![t] = [thr[t] EXCEPT !.pc = "exit"]] BY <2>1
    <3>2. [thr[t] EXCEPT !.pc = "exit"].cnt = thr[t].cnt BY <2>1, ExitUpdate
    <3> QED BY <1>1, <3>1, <3>2
  <2>3. ASSUME NEW q \in Threads, Working(q), thr'[q].pc = "exit"
        PROVE  match_count'[Slot(q)] = thr'[q].cnt
    <3>1. CASE q = t BY <2>1, <2>2, <3>1 DEF Put
    <3>2. CASE q # t
      <4>1. Slot(q) # Slot(t) BY <1>1, <3>2, SlotsDiffer
      <4>2. /\ thr[q].pc = "exit" /\ thr'[q] = thr[q] /\ match_count[Slot(q)] = thr[q].cnt
            /\ Slot(q) \in DOMAIN match_count
        BY <2>2, <2>3, <3>2 DEF CountsMatch, KInv, Progress
      <4> QED BY <2>1, <4>1, <4>2 DEF Put
    <3> QED BY <3>1, <3>2
  <2> QED BY <2>1, <2>3, HostUnchanged DEF CountsMatch
<1> QED BY <1>2, <1>3, <1>4, <1>5 DEF KernelNext, ThreadStep

(* When all threads have ended, everything the host copies is written, for *)
(* wide and for narrow match vectors.                                      *)
LEMMA ResultsAreWritten == KInv /\ CountsMatch /\ KernelDone => ResultsWritten
<1> SUFFICES ASSUME KInv, CountsMatch, KernelDone, NEW s \in 0..Slots-1
             PROVE  /\ s \in DOMAIN match_count
                    /\ \A i \in 0..match_count[s]-1 : MatchVecSize * s + i \in DOMAIN match_array
  BY DEF ResultsWritten
<1>1. LaunchOK BY TypeParts DEF KInv
<1>2. PICK t \in Threads : Working(t) /\ Slot(t) = s BY <1>1, SlotOfPair
<1>3. thr[t].pc = "exit" /\ Progress(t) BY <1>2 DEF KernelDone, KInv
<1>4. s \in DOMAIN match_count /\ match_count[s] = thr[t].cnt
  BY <1>2, <1>3 DEF CountsMatch, Progress
<1>5. ASSUME NEW i \in 0..match_count[s]-1 PROVE MatchVecSize * s + i \in DOMAIN match_array
  <2>1. MatchAddress(t, i) \in DOMAIN match_array BY <1>3, <1>4 DEF Progress
  <2>2. MatchAddress(t, i) = MatchVecSize * s + i
    <3>1. MatchVecSize \in Nat
      <4>1. payload_sizes[1] \in Nat /\ payload_sizes[1] * MatchFactor \in Nat
        BY <1>1, ThreadFacts, ProductGrows, KernelAssumption
      <4> QED BY <4>1, DivMod, KernelAssumption DEF MatchVecSize
    <3>2. s \in Nat /\ MatchVecSize * s \in Nat
      <4>1. s \in Nat BY <1>1, <1>2, ThreadFacts
      <4> QED BY <3>1, <4>1
    <3> QED BY <1>2, <3>2 DEF MatchAddress
  <2> QED BY <2>1, <2>2
<1> QED BY <1>4, <1>5
=============================================================================
