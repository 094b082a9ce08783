----------------------------- MODULE Trace_proofs -----------------------------
(***************************************************************************)
(* Proofs about traces, from the socket to the automaton.                  *)
(*   - subset construction: it builds the DFA of its NFA, and the two       *)
(*     traversals of trace.c agree, for every NFA                          *)
(*   - memory: the simulated traversals, for every set of automata, layout  *)
(*     and cache                                                           *)
(*   - servers: traces are handed over whole and rounds do not mix, for     *)
(*     every number of servers, of clients and of their connections, and    *)
(*     every size of trace, call and buffer                                *)
(***************************************************************************)
EXTENDS TraceScan, FaMemory, MCReduction, TraceServer, ArithmeticLemmas, SequenceTheorems

(* Every known set has a state that accepts what the set accepts. *)
AcceptInv ==
  /\ Start \in DOMAIN mapping /\ mapping[Start] = 0
  /\ \A S \in DOMAIN mapping : accepts[mapping[S]] = AcceptedBy(S)

(* The queue holds states with their sets, and so does the loop. *)
QueueInv ==
  /\ \A k \in 1..Len(queue) : /\ queue[k].nfa \in DOMAIN mapping
                              /\ mapping[queue[k].nfa] = queue[k].dfa
  /\ pc = "symbols" => /\ cl_state \in DOMAIN mapping
                       /\ mapping[cl_state] = state /\ state \in marking

(* Which transitions of a marked state are still missing. *)
Missing(s, ch) == pc \in {"symbols", "failed"} /\ s = state /\ i <= ch
StillMissing(s, ch) == pc' \in {"symbols", "failed"} /\ s = state' /\ i' <= ch  \* after the step

TransitionInv ==
  \A S \in DOMAIN mapping, ch \in Symbol :
    mapping[S] \in marking /\ ~Missing(mapping[S], ch) =>
      /\ Move(S, ch) \in DOMAIN mapping
      /\ state_table[mapping[S]][ch] = mapping[Move(S, ch)]

(* A state that has not been processed is in the queue. *)
PendingInv ==
  /\ \A s \in 0..size-1 : s \in marking \/ \E k \in 1..Len(queue) : queue[k].dfa = s
  /\ pc = "done" => queue = <<>>

SInv ==
  /\ SubsetTypeOK /\ OneStatePerSet
  /\ AcceptInv /\ QueueInv /\ TransitionInv /\ PendingInv

-----------------------------------------------------------------------------
(* A sequence over a set is one over every larger set. *)
LEMMA SeqMonotone ==
  ASSUME NEW A, NEW B, A \subseteq B, NEW q \in Seq(A)
  PROVE  q \in Seq(B)
OBVIOUS

(* The initial set, the moves and the rules of an NFA are of their types. *)
LEMMA NfaFacts ==
  ASSUME nfa \in Nfas
  PROVE  /\ Start \in SUBSET NFA
         /\ \A S \in SUBSET NFA, ch \in Symbol : Move(S, ch) \in SUBSET NFA
         /\ \A S \in SUBSET NFA : AcceptedBy(S) \in SUBSET Rule
<1>1. nfa.accepting \in [NFA -> SUBSET Rule]
  BY NfaAssumption
<1>2. \A s : epsilon_closure(s) \in SUBSET NFA
  BY DEF epsilon_closure
<1>3. Start \in SUBSET NFA
  BY <1>2 DEF Start
<1>4. \A S \in SUBSET NFA, ch \in Symbol : Move(S, ch) \in SUBSET NFA
  BY <1>2 DEF Move
<1>5. \A S \in SUBSET NFA : AcceptedBy(S) \in SUBSET Rule
  BY <1>1 DEF AcceptedBy
<1> QED BY <1>3, <1>4, <1>5

(* What is computed from the NFA never changes. *)
LEMMA NfaUnchanged ==
  ASSUME nfa' = nfa
  PROVE  /\ Start' = Start
         /\ \A S, ch : Move(S, ch)' = Move(S, ch)
         /\ \A S : AcceptedBy(S)' = AcceptedBy(S)
BY DEF Start, Move, AcceptedBy, epsilon_closure

(* At first the initial set is the only one known, and is in the queue. *)
LEMMA SInvInit == SubsetInit => SInv
<1> SUFFICES ASSUME SubsetInit PROVE SInv
  OBVIOUS
<1>1. /\ nfa \in Nfas /\ pc = "dequeue" /\ queue = <<[dfa |-> 0, nfa |-> Start]>>
      /\ mapping = [S \in {Start} |-> 0] /\ size = 1
      /\ state_table = [s \in {0} |-> NoTransitions]
      /\ accepts = [s \in {0} |-> AcceptedBy(Start)]
      /\ marking = {} /\ dead_state = NO_STATE
      /\ state = NO_STATE /\ cl_state = {} /\ i = 0
  BY DEF SubsetInit
<1>2. 0..size-1 = {0} /\ 0 \in 0..CSize /\ size \in 1..MaxDfaSize
  BY <1>1, NfaAssumption
<1>3. DOMAIN mapping = {Start} /\ mapping[Start] = 0 /\ Start \in SUBSET NFA
  BY <1>1, NfaFacts
<1>4. /\ Len(queue) = 1 /\ queue[1].nfa = Start /\ queue[1].dfa = 0
      /\ \A k \in 1..Len(queue) : k = 1
  BY <1>1
<1>5. SubsetTypeOK
  <2>1. queue \in Seq([dfa : 0..size-1, nfa : SUBSET NFA])
    BY <1>1, <1>2, <1>3
  <2>2. state_table \in [0..size-1 -> [Symbol -> 0..size-1 \cup {NO_STATE}]]
    BY <1>1, <1>2 DEF NoTransitions
  <2>3. accepts \in [0..size-1 -> SUBSET Rule]
    BY <1>1, <1>2, <1>3, NfaFacts
  <2>4. mapping \in [DOMAIN mapping -> 0..size-1]
    BY <1>1, <1>2
  <2> QED BY <1>1, <1>2, <1>3, <2>1, <2>2, <2>3, <2>4 DEF SubsetTypeOK
<1>6. OneStatePerSet
  BY <1>2, <1>3 DEF OneStatePerSet
<1>7. AcceptInv
  BY <1>1, <1>3 DEF AcceptInv
<1>8. QueueInv
  BY <1>1, <1>3, <1>4 DEF QueueInv
<1>9. TransitionInv
  BY <1>1 DEF TransitionInv
<1>10. PendingInv
  BY <1>1, <1>2, <1>4 DEF PendingInv
<1> QED BY <1>5, <1>6, <1>7, <1>8, <1>9, <1>10 DEF SInv

(* The next set is taken from the queue and its state is marked. *)
LEMMA DequeueKeeps ==
  ASSUME SInv, Dequeue, nfa' = nfa
  PROVE  SInv'
<1>1. /\ pc = "dequeue" /\ queue # <<>> /\ queue' = Tail(queue)
      /\ state' = Head(queue).dfa /\ cl_state' = Head(queue).nfa /\ i' = 0
      /\ UNCHANGED <<mapping, size, state_table, accepts, dead_state>>
      /\ IF Head(queue).dfa \in marking
         THEN UNCHANGED <<pc, marking>>
         ELSE pc' = "symbols" /\ marking' = marking \cup {Head(queue).dfa}
  BY DEF Dequeue
<1>2. SubsetTypeOK
  BY DEF SInv
<1>3. /\ queue \in Seq([dfa : 0..size-1, nfa : SUBSET NFA])
      /\ Len(queue) \in Nat \ {0} /\ Head(queue) = queue[1]
      /\ queue' \in Seq([dfa : 0..size-1, nfa : SUBSET NFA])
      /\ Len(queue') = Len(queue) - 1
      /\ \A k \in 1..Len(queue') : queue'[k] = queue[k + 1]
  BY <1>1, <1>2 DEF SubsetTypeOK
<1>4. Head(queue) \in [dfa : 0..size-1, nfa : SUBSET NFA]
  <2> DEFINE Q == [dfa : 0..size-1, nfa : SUBSET NFA]
  <2> HIDE DEF Q
  <2>1. queue \in Seq(Q) /\ Len(queue) \in Nat \ {0}
    BY <1>3 DEF Q
  <2>2. queue[1] \in Q
    BY <2>1
  <2> QED BY <1>3, <2>2 DEF Q
<1>5. /\ Head(queue).nfa \in DOMAIN mapping /\ mapping[Head(queue).nfa] = Head(queue).dfa
  BY <1>3 DEF SInv, QueueInv
<1>6. marking \subseteq marking' /\ state' \in marking' /\ marking' \subseteq marking \cup {state'}
      /\ (pc' = "dequeue" \/ pc' = "symbols") /\ pc' # "done" /\ pc' # "failed"
  BY <1>1
<1>7. SubsetTypeOK'
  <2>1. 0 \in 0..CSize /\ 0 < CSize
    BY NfaAssumption
  <2>2. state' \in 0..size-1 /\ state' # NO_STATE /\ cl_state' \subseteq NFA
    <3>1. size \in Nat
      BY <1>2, NfaAssumption DEF SubsetTypeOK
    <3>2. \A x \in 0..size-1 : x # NO_STATE
      BY <3>1 DEF NO_STATE
    <3> QED BY <1>1, <1>4, <3>2
  <2>3. marking' \subseteq 0..size-1
    BY <1>2, <1>6, <2>2 DEF SubsetTypeOK
  <2> QED BY <1>1, <1>2, <1>3, <1>6, <2>1, <2>2, <2>3 DEF SubsetTypeOK
<1>8. OneStatePerSet'
  BY <1>1 DEF SInv, OneStatePerSet
<1>9. AcceptInv'
  BY <1>1, NfaUnchanged DEF SInv, AcceptInv
<1>10. QueueInv'
  <2>1. \A k \in 1..Len(queue') : /\ queue'[k].nfa \in DOMAIN mapping
                                  /\ mapping[queue'[k].nfa] = queue'[k].dfa
    <3>1. ASSUME NEW k \in 1..Len(queue')
          PROVE  queue'[k] = queue[k + 1] /\ k + 1 \in 1..Len(queue)
      BY <1>3
    <3>2. \A k \in 1..Len(queue) : /\ queue[k].nfa \in DOMAIN mapping
                                   /\ mapping[queue[k].nfa] = queue[k].dfa
      BY DEF SInv, QueueInv
    <3> QED BY <3>1, <3>2
  <2> QED BY <1>1, <1>5, <1>6, <2>1 DEF QueueInv
<1>11. TransitionInv'
  <2> SUFFICES ASSUME NEW S \in DOMAIN mapping, NEW ch \in Symbol,
                      mapping[S] \in marking', ~Missing(mapping[S], ch)'
               PROVE  /\ Move(S, ch) \in DOMAIN mapping
                      /\ state_table[mapping[S]][ch] = mapping[Move(S, ch)]
    BY <1>1, NfaUnchanged DEF TransitionInv
  <2>1. 0 <= ch
    BY NfaAssumption DEF Symbol
  <2>2. ~Missing(mapping[S], ch)
    BY <1>1 DEF Missing
  <2>3. mapping[S] \in marking
    <3>1. CASE Head(queue).dfa \in marking
      BY <1>1, <3>1
    <3>2. CASE Head(queue).dfa \notin marking
      BY <1>1, <1>6, <2>1, <3>2 DEF Missing
    <3> QED BY <3>1, <3>2
  <2> QED BY <2>2, <2>3 DEF SInv, TransitionInv
<1>12. PendingInv'
  <2>1. ASSUME NEW s \in 0..size-1, s \notin marking'
        PROVE  \E k \in 1..Len(queue') : queue'[k].dfa = s
    <3>1. PICK k \in 1..Len(queue) : queue[k].dfa = s
      BY <1>6, <2>1 DEF SInv, PendingInv
    <3>2. k # 1
      BY <1>1, <1>3, <1>6, <2>1, <3>1
    <3>3. PICK m \in 1..Len(queue') : m + 1 = k
      BY <1>3, <3>2
    <3> QED BY <1>3, <3>1, <3>3
  <2> QED BY <1>1, <1>6, <2>1 DEF PendingInv
<1> QED BY <1>7, <1>8, <1>9, <1>10, <1>11, <1>12 DEF SInv

(* The steps that leave the tables alone: the construction ends or gives up. *)
LEMMA FinishKeeps ==
  ASSUME SInv, Finish \/ TooManyStates \/ UNCHANGED subsetVars, nfa' = nfa
  PROVE  SInv'
<1>1. UNCHANGED <<nfa, queue, mapping, size, state_table, accepts, marking, dead_state,
                  state, cl_state, i>>
  BY DEF Finish, TooManyStates, subsetVars, dfaVars
<1>2. \/ pc' = pc
      \/ pc = "dequeue" /\ pc' = "done" /\ queue = <<>>
      \/ pc = "symbols" /\ pc' = "failed"
  BY DEF Finish, TooManyStates, subsetVars
<1>3. SubsetTypeOK'
  BY <1>1, <1>2 DEF SInv, SubsetTypeOK
<1>4. OneStatePerSet' /\ AcceptInv' /\ QueueInv'
  BY <1>1, <1>2, NfaUnchanged DEF SInv, OneStatePerSet, AcceptInv, QueueInv
<1>6. PendingInv'
  BY <1>1, <1>2 DEF SInv, PendingInv
<1>7. TransitionInv'
  <2>1. \A s, ch : Missing(s, ch) => Missing(s, ch)'
    BY <1>1, <1>2 DEF Missing
  <2> QED BY <1>1, <2>1, NfaUnchanged DEF SInv, TransitionInv
<1> QED BY <1>3, <1>4, <1>6, <1>7 DEF SInv

(* Inside the loop over the characters: the types of the loop variables.   *)
LEMMA LoopFacts ==
  ASSUME SInv, pc = "symbols"
  PROVE  /\ size \in Nat \ {0} /\ size <= MaxDfaSize /\ i \in Nat /\ i < CSize /\ i \in Symbol
         /\ cl_state \in DOMAIN mapping /\ DOMAIN mapping \subseteq SUBSET NFA
         /\ mapping[cl_state] = state /\ state \in 0..size-1 /\ state \in marking
         /\ Move(cl_state, i) \in SUBSET NFA
         /\ state_table[state] \in [Symbol -> 0..size-1 \cup {NO_STATE}]
         /\ mapping \in [DOMAIN mapping -> 0..size-1]
<1>1. SubsetTypeOK
  BY DEF SInv
<1>2. /\ size \in Nat \ {0} /\ size <= MaxDfaSize /\ i \in Nat /\ i < CSize /\ i \in Symbol
      /\ DOMAIN mapping \subseteq SUBSET NFA /\ state \in 0..size-1
      /\ mapping \in [DOMAIN mapping -> 0..size-1]
  BY <1>1, NfaAssumption DEF SubsetTypeOK, Symbol
<1>3. /\ cl_state \in DOMAIN mapping /\ mapping[cl_state] = state /\ state \in marking
  BY DEF SInv, QueueInv
<1>4. Move(cl_state, i) \in SUBSET NFA
  BY <1>1, <1>2, <1>3, NfaFacts DEF SubsetTypeOK
<1>5. state_table[state] \in [Symbol -> 0..size-1 \cup {NO_STATE}]
  BY <1>1, <1>2 DEF SubsetTypeOK
<1> QED BY <1>2, <1>3, <1>4, <1>5

(* The end of a turn of the loop: only the turn's transition is no longer  *)
(* missing.                                                                *)
LEMMA NextSymbolFacts ==
  ASSUME SInv, pc = "symbols", NextSymbol
  PROVE  /\ pc' \in {"dequeue", "symbols"} /\ i' \in 0..CSize /\ (pc' = "symbols" => i' < CSize)
         /\ UNCHANGED <<marking, state, cl_state>>
         /\ \A s, ch : ch \in Symbol /\ ~StillMissing(s, ch) =>
                        ~Missing(s, ch) \/ (s = state /\ ch = i)
<1>1. /\ i' = i + 1 /\ pc' = IF i + 1 = CSize THEN "dequeue" ELSE "symbols"
      /\ UNCHANGED <<marking, state, cl_state>> /\ i \in Nat /\ i < CSize /\ CSize \in Nat
  BY LoopFacts, NfaAssumption DEF NextSymbol
<1>2. pc' \in {"dequeue", "symbols"} /\ i' \in 0..CSize /\ (pc' = "symbols" => i' < CSize)
  BY <1>1
<1>3. ASSUME NEW s, NEW ch \in Symbol, ~StillMissing(s, ch), Missing(s, ch)
      PROVE  s = state /\ ch = i
  <2>1. s = state /\ i <= ch /\ ch \in Nat /\ ch < CSize
    BY <1>1, <1>3 DEF Missing, Symbol
  <2>2. CASE i + 1 = CSize
    BY <1>1, <2>1, <2>2
  <2>3. CASE i + 1 # CSize
    <3>1. ~(i + 1 <= ch)
      BY <1>1, <1>3, <2>1, <2>3 DEF StillMissing
    <3> QED BY <1>1, <2>1, <3>1
  <2> QED BY <2>2, <2>3
<1> QED BY <1>1, <1>2, <1>3

(* A transition to a set that has a state: nothing is queued. *)
LEMMA KnownTargetKeeps ==
  ASSUME SInv, KnownTarget, nfa' = nfa
  PROVE  SInv'
<1> DEFINE T == Move(cl_state, i)
<1>1. /\ pc = "symbols" /\ T \in DOMAIN mapping /\ NextSymbol
      /\ state_table' = [state_table EXCEPT ![state][i] = mapping[T]]
      /\ UNCHANGED <<queue, mapping, size, accepts, dead_state>>
  BY DEF KnownTarget
<1>2. /\ pc' \in {"dequeue", "symbols"} /\ i' \in 0..CSize /\ (pc' = "symbols" => i' < CSize)
      /\ UNCHANGED <<marking, state, cl_state>>
      /\ \A s, ch : ch \in Symbol /\ ~StillMissing(s, ch) =>
                     ~Missing(s, ch) \/ (s = state /\ ch = i)
  BY <1>1, NextSymbolFacts
<1>3. /\ size \in Nat \ {0} /\ i \in Symbol
      /\ mapping[cl_state] = state /\ state \in 0..size-1 /\ state \in marking
      /\ cl_state \in DOMAIN mapping /\ mapping \in [DOMAIN mapping -> 0..size-1]
      /\ state_table[state] \in [Symbol -> 0..size-1 \cup {NO_STATE}]
  BY <1>1, LoopFacts
<1> HIDE DEF T
<1>4. SubsetTypeOK
  BY DEF SInv
<1>5. mapping[T] \in 0..size-1
  BY <1>1, <1>3
<1>6. /\ state_table' \in [0..size-1 -> [Symbol -> 0..size-1 \cup {NO_STATE}]]
      /\ state_table'[state][i] = mapping[T]
      /\ \A s \in 0..size-1, ch \in Symbol :
           (s # state \/ ch # i) => state_table'[s][ch] = state_table[s][ch]
  BY <1>1, <1>3, <1>4, <1>5 DEF SubsetTypeOK
<1>7. SubsetTypeOK'
  BY <1>1, <1>2, <1>4, <1>6 DEF SubsetTypeOK
<1>8. OneStatePerSet' /\ AcceptInv' /\ QueueInv'
  BY <1>1, <1>2, NfaUnchanged DEF SInv, OneStatePerSet, AcceptInv, QueueInv
<1>9. TransitionInv'
  <2> SUFFICES ASSUME NEW S \in DOMAIN mapping, NEW ch \in Symbol,
                      mapping[S] \in marking, ~StillMissing(mapping[S], ch)
               PROVE  /\ Move(S, ch) \in DOMAIN mapping
                      /\ state_table'[mapping[S]][ch] = mapping[Move(S, ch)]
    BY <1>1, <1>2, NfaUnchanged DEF TransitionInv, Missing, StillMissing
  <2>1. CASE mapping[S] = state /\ ch = i
    <3>1. S = cl_state
      BY <1>3, <2>1 DEF SInv, OneStatePerSet
    <3> QED BY <1>1, <1>6, <2>1, <3>1 DEF T
  <2>2. CASE ~(mapping[S] = state /\ ch = i)
    <3>1. ~Missing(mapping[S], ch)
      BY <1>2, <2>2
    <3>2. /\ Move(S, ch) \in DOMAIN mapping
          /\ state_table[mapping[S]][ch] = mapping[Move(S, ch)]
      BY <3>1 DEF SInv, TransitionInv
    <3>3. mapping[S] \in 0..size-1
      BY <1>3
    <3> QED BY <1>6, <2>2, <3>2, <3>3
  <2> QED BY <2>1, <2>2
<1>10. PendingInv'
  BY <1>1, <1>2 DEF SInv, PendingInv
<1> QED BY <1>7, <1>8, <1>9, <1>10 DEF SInv

(* A transition to a new set: it gets the next state and is queued. *)
LEMMA NewTargetKeeps ==
  ASSUME SInv, NewTarget, nfa' = nfa
  PROVE  SInv'
<1> DEFINE T == Move(cl_state, i)
           e == [dfa |-> size, nfa |-> T]
<1>1. /\ pc = "symbols" /\ T \notin DOMAIN mapping /\ NextSymbol /\ size # MaxDfaSize
      /\ state_table' = AddTo([state_table EXCEPT ![state][i] = size], size, NoTransitions)
      /\ mapping' = AddTo(mapping, T, size) /\ size' = size + 1
      /\ accepts' = AddTo(accepts, size, AcceptedBy(T))
      /\ queue' = Append(queue, e)
      /\ dead_state' = IF T = {} THEN size ELSE dead_state
  BY DEF NewTarget, NewState
<1>2. /\ pc' \in {"dequeue", "symbols"} /\ i' \in 0..CSize /\ (pc' = "symbols" => i' < CSize)
      /\ UNCHANGED <<marking, state, cl_state>>
      /\ \A s, ch : ch \in Symbol /\ ~StillMissing(s, ch) =>
                     ~Missing(s, ch) \/ (s = state /\ ch = i)
  BY <1>1, NextSymbolFacts
<1>3. /\ size \in Nat \ {0} /\ size < MaxDfaSize /\ i \in Symbol /\ T \in SUBSET NFA
      /\ mapping[cl_state] = state /\ state \in 0..size-1 /\ state \in marking
      /\ cl_state \in DOMAIN mapping /\ mapping \in [DOMAIN mapping -> 0..size-1]
      /\ state_table[state] \in [Symbol -> 0..size-1 \cup {NO_STATE}]
      /\ DOMAIN mapping \subseteq SUBSET NFA
  BY <1>1, LoopFacts, NfaAssumption
<1>4. SubsetTypeOK
  BY DEF SInv
<1>5. /\ 0..size'-1 = 0..size-1 \cup {size} /\ size \notin 0..size-1 /\ size' \in 1..MaxDfaSize
  BY <1>1, <1>3, NfaAssumption
<1>6. AcceptedBy(T) \in SUBSET Rule
  BY <1>3, <1>4, NfaFacts DEF SubsetTypeOK
<1> HIDE DEF T
<1>7. /\ DOMAIN mapping' = DOMAIN mapping \cup {T} /\ mapping'[T] = size
      /\ \A S \in DOMAIN mapping : mapping'[S] = mapping[S] /\ S # T
      /\ mapping' \in [DOMAIN mapping' -> 0..size'-1]
  BY <1>1, <1>3, <1>5 DEF AddTo
<1>8. /\ accepts' \in [0..size'-1 -> SUBSET Rule] /\ accepts'[size] = AcceptedBy(T)
      /\ \A s \in 0..size-1 : accepts'[s] = accepts[s]
  BY <1>1, <1>4, <1>5, <1>6 DEF AddTo, SubsetTypeOK
<1>9. /\ state_table' \in [0..size'-1 -> [Symbol -> 0..size'-1 \cup {NO_STATE}]]
      /\ state_table'[state][i] = size
      /\ \A s \in 0..size-1, ch \in Symbol :
           (s # state \/ ch # i) => state_table'[s][ch] = state_table[s][ch]
  <2> DEFINE st == [state_table EXCEPT ![state][i] = size]
  <2>1. /\ state_table \in [0..size-1 -> [Symbol -> 0..size-1 \cup {NO_STATE}]]
    BY <1>4 DEF SubsetTypeOK
  <2>2. /\ st \in [0..size-1 -> [Symbol -> 0..size'-1 \cup {NO_STATE}]]
        /\ st[state][i] = size
        /\ \A s \in 0..size-1, ch \in Symbol :
             (s # state \/ ch # i) => st[s][ch] = state_table[s][ch]
    BY <1>3, <1>5, <2>1
  <2>3. NoTransitions \in [Symbol -> 0..size'-1 \cup {NO_STATE}]
    BY DEF NoTransitions
  <2> HIDE DEF st
  <2>4. state_table' = AddTo(st, size, NoTransitions) /\ DOMAIN st = 0..size-1
    BY <1>1, <2>2 DEF st
  <2>5. \A s \in 0..size-1 : state_table'[s] = st[s]
    BY <1>5, <2>4 DEF AddTo
  <2>6. state_table' \in [0..size'-1 -> [Symbol -> 0..size'-1 \cup {NO_STATE}]]
    BY <1>5, <2>2, <2>3, <2>4 DEF AddTo
  <2> QED BY <1>3, <2>2, <2>5, <2>6
<1>10. /\ queue' \in Seq([dfa : 0..size'-1, nfa : SUBSET NFA])
       /\ Len(queue') = Len(queue) + 1 /\ queue'[Len(queue) + 1] = e /\ Len(queue) \in Nat
       /\ \A k \in 1..Len(queue) : queue'[k] = queue[k]
  <2> DEFINE Q == [dfa : 0..size'-1, nfa : SUBSET NFA]
  <2>1. queue \in Seq([dfa : 0..size-1, nfa : SUBSET NFA])
    BY <1>4 DEF SubsetTypeOK
  <2>2. [dfa : 0..size-1, nfa : SUBSET NFA] \subseteq Q
    BY <1>5
  <2>3. queue \in Seq(Q)
    BY <2>1, <2>2, SeqMonotone
  <2>4. e \in Q
    BY <1>3, <1>5
  <2> HIDE DEF Q, e
  <2>5. /\ queue' \in Seq(Q) /\ Len(queue') = Len(queue) + 1 /\ Len(queue) \in Nat
        /\ queue'[Len(queue) + 1] = e /\ \A k \in 1..Len(queue) : queue'[k] = queue[k]
    BY <1>1, <2>3, <2>4
  <2> QED BY <2>5 DEF Q
<1>11. SubsetTypeOK'
  <2>1. dead_state' \in 0..size'-1 \cup {NO_STATE}
    BY <1>1, <1>4, <1>5 DEF SubsetTypeOK
  <2>2. DOMAIN mapping' \subseteq SUBSET NFA
    BY <1>3, <1>7
  <2>3. /\ marking' \subseteq 0..size'-1 /\ state' \in 0..size'-1 \cup {NO_STATE}
        /\ cl_state' \subseteq NFA /\ (pc' = "symbols" => state' # NO_STATE)
    BY <1>1, <1>2, <1>4, <1>5 DEF SubsetTypeOK
  <2>4. pc' \in {"dequeue", "symbols", "done", "failed"} /\ nfa' \in Nfas
    BY <1>2, <1>4 DEF SubsetTypeOK
  <2> QED BY <1>2, <1>5, <1>7, <1>8, <1>9, <1>10, <2>1, <2>2, <2>3, <2>4 DEF SubsetTypeOK
<1>12. OneStatePerSet'
  <2>1. ASSUME NEW A \in DOMAIN mapping', NEW B \in DOMAIN mapping', mapping'[A] = mapping'[B]
        PROVE  A = B
    <3>1. CASE A \in DOMAIN mapping /\ B \in DOMAIN mapping
      BY <1>7, <2>1, <3>1 DEF SInv, OneStatePerSet
    <3>2. CASE A = T /\ B \in DOMAIN mapping
      BY <1>3, <1>5, <1>7, <2>1, <3>2
    <3>3. CASE A \in DOMAIN mapping /\ B = T
      BY <1>3, <1>5, <1>7, <2>1, <3>3
    <3> QED BY <1>7, <3>1, <3>2, <3>3
  <2>2. ASSUME NEW s \in 0..size'-1 PROVE \E S \in DOMAIN mapping' : mapping'[S] = s
    <3>1. CASE s = size
      BY <1>7, <3>1
    <3>2. CASE s \in 0..size-1
      BY <1>7, <3>2 DEF SInv, OneStatePerSet
    <3> QED BY <1>5, <3>1, <3>2
  <2> QED BY <2>1, <2>2 DEF OneStatePerSet
<1>13. AcceptInv'
  <2>1. ASSUME NEW S \in DOMAIN mapping' PROVE accepts'[mapping'[S]] = AcceptedBy(S)
    <3>1. CASE S = T
      BY <1>7, <1>8, <3>1
    <3>2. CASE S \in DOMAIN mapping
      <4>1. mapping[S] \in 0..size-1 /\ accepts[mapping[S]] = AcceptedBy(S)
        BY <1>3, <3>2 DEF SInv, AcceptInv
      <4> QED BY <1>7, <1>8, <3>2, <4>1
    <3> QED BY <1>7, <3>1, <3>2
  <2>2. Start \in DOMAIN mapping' /\ mapping'[Start] = 0
    BY <1>7 DEF SInv, AcceptInv
  <2> QED BY <2>1, <2>2, NfaUnchanged DEF AcceptInv
<1>14. QueueInv'
  <2>1. ASSUME NEW k \in 1..Len(queue')
        PROVE  queue'[k].nfa \in DOMAIN mapping' /\ mapping'[queue'[k].nfa] = queue'[k].dfa
    <3>1. CASE k = Len(queue) + 1
      BY <1>7, <1>10, <3>1
    <3>2. CASE k \in 1..Len(queue)
      BY <1>7, <1>10, <3>2 DEF SInv, QueueInv
    <3> QED BY <1>10, <3>1, <3>2
  <2> QED BY <1>2, <1>3, <1>7, <2>1 DEF QueueInv
<1>15. TransitionInv'
  <2> SUFFICES ASSUME NEW S \in DOMAIN mapping', NEW ch \in Symbol,
                      mapping'[S] \in marking, ~StillMissing(mapping'[S], ch)
               PROVE  /\ Move(S, ch) \in DOMAIN mapping'
                      /\ state_table'[mapping'[S]][ch] = mapping'[Move(S, ch)]
    BY <1>2, NfaUnchanged DEF TransitionInv, Missing, StillMissing
  <2>1. S \in DOMAIN mapping /\ mapping'[S] = mapping[S] /\ mapping[S] \in 0..size-1
    BY <1>3, <1>4, <1>5, <1>7 DEF SubsetTypeOK
  <2>2. CASE mapping[S] = state /\ ch = i
    <3>1. S = cl_state
      BY <1>3, <2>1, <2>2 DEF SInv, OneStatePerSet
    <3> QED BY <1>7, <1>9, <2>1, <2>2, <3>1 DEF T
  <2>3. CASE ~(mapping[S] = state /\ ch = i)
    <3>1. ~Missing(mapping[S], ch)
      BY <1>2, <2>1, <2>3
    <3>2. /\ Move(S, ch) \in DOMAIN mapping
          /\ state_table[mapping[S]][ch] = mapping[Move(S, ch)]
      BY <2>1, <3>1 DEF SInv, TransitionInv
    <3> QED BY <1>7, <1>9, <2>1, <2>3, <3>2
  <2> QED BY <2>2, <2>3
<1>16. PendingInv'
  <2>1. ASSUME NEW s \in 0..size'-1, s \notin marking
        PROVE  \E k \in 1..Len(queue') : queue'[k].dfa = s
    <3>1. CASE s = size
      BY <1>10, <3>1
    <3>2. CASE s \in 0..size-1
      <4>1. PICK k \in 1..Len(queue) : queue[k].dfa = s
        BY <2>1, <3>2 DEF SInv, PendingInv
      <4> QED BY <1>10, <4>1
    <3> QED BY <1>5, <3>1, <3>2
  <2> QED BY <1>2, <2>1 DEF PendingInv
<1> QED BY <1>11, <1>12, <1>13, <1>14, <1>15, <1>16 DEF SInv

(* Hence the invariant is inductive. *)
LEMMA SInvNext == SInv /\ [SubsetNext]_subsetVars => SInv'
<1> SUFFICES ASSUME SInv, [SubsetNext]_subsetVars PROVE SInv'
  OBVIOUS
<1>1. CASE Dequeue /\ nfa' = nfa
  BY <1>1, DequeueKeeps
<1>2. CASE KnownTarget /\ nfa' = nfa
  BY <1>2, KnownTargetKeeps
<1>3. CASE NewTarget /\ nfa' = nfa
  BY <1>3, NewTargetKeeps
<1>4. CASE (Finish \/ TooManyStates) /\ nfa' = nfa
  BY <1>4, FinishKeeps
<1>5. CASE UNCHANGED subsetVars
  <2>1. nfa' = nfa
    BY <1>5 DEF subsetVars
  <2> QED BY <1>5, <2>1, FinishKeeps
<1> QED BY <1>1, <1>2, <1>3, <1>4, <1>5 DEF SubsetNext

(* Finish leaves nothing out: with an empty queue every state is marked,   *)
(* and outside the loop no transition of a marked state is missing.        *)
LEMMA SInvDeterminized == SInv => Determinized
<1> SUFFICES ASSUME SInv, pc = "done"
             PROVE  /\ Start \in DOMAIN mapping /\ mapping[Start] = 0
                    /\ \A S \in DOMAIN mapping :
                         /\ accepts[mapping[S]] = AcceptedBy(S)
                         /\ \A ch \in Symbol :
                              /\ Move(S, ch) \in DOMAIN mapping
                              /\ state_table[mapping[S]][ch] = mapping[Move(S, ch)]
  BY DEF Determinized
<1>1. \A s \in 0..size-1 : s \in marking
  <2>1. \A k \in 1..Len(queue) : FALSE
    BY DEF SInv, PendingInv
  <2> QED BY <2>1 DEF SInv, PendingInv
<1>2. \A S \in DOMAIN mapping : mapping[S] \in marking
  BY <1>1 DEF SInv, SubsetTypeOK
<1>3. \A s, ch : ~Missing(s, ch)
  BY DEF Missing
<1> QED BY <1>2, <1>3 DEF SInv, AcceptInv, TransitionInv

(* The type invariant of nfa2dfa's state: a state number stored anywhere   *)
(* is that of a state that add_state created.                              *)
THEOREM SubsetTypeCorrect == SubsetSpec => []SubsetTypeOK
<1>1. SInv => SubsetTypeOK
  BY DEF SInv
<1> QED BY <1>1, SInvInit, SInvNext, PTL DEF SubsetSpec

(* Two sets of NFA states never get the same DFA state, and every DFA      *)
(* state stands for a set (subset.c, dfa.c add_state).                     *)
THEOREM StatesAreSets == SubsetSpec => []OneStatePerSet
<1>1. SInv => OneStatePerSet
  BY DEF SInv
<1> QED BY <1>1, SInvInit, SInvNext, PTL DEF SubsetSpec

(* When nfa2dfa returns a DFA, it is complete: every set known has its     *)
(* accepted rules and the transition on every symbol, whatever the NFA,    *)
(* its epsilon transitions and the size of the alphabet.                   *)
THEOREM DfaIsComplete == SubsetSpec => []Determinized
<1> QED BY SInvDeterminized, SInvInit, SInvNext, PTL DEF SubsetSpec

(* The dead state is the state of the empty set. *)
DeadInv ==
  dead_state # NO_STATE => {} \in DOMAIN mapping /\ mapping[{}] = dead_state

(* A set keeps its state, and only the empty set makes a state the dead one. *)
LEMMA DeadInvNext ==
  ASSUME SInv, DeadInv, [SubsetNext]_subsetVars
  PROVE  DeadInv'
<1>1. CASE NewTarget
  <2> DEFINE T == Move(cl_state, i)
  <2>1. /\ T \notin DOMAIN mapping
        /\ mapping' = AddTo(mapping, T, size)
        /\ dead_state' = IF T = {} THEN size ELSE dead_state
    BY <1>1 DEF NewTarget, NewState
  <2> HIDE DEF T
  <2>2. /\ DOMAIN mapping' = DOMAIN mapping \cup {T} /\ mapping'[T] = size
        /\ \A S \in DOMAIN mapping : mapping'[S] = mapping[S]
    BY <2>1 DEF AddTo
  <2> QED BY <2>1, <2>2 DEF DeadInv
<1>2. CASE UNCHANGED <<mapping, dead_state>>
  BY <1>2 DEF DeadInv
<1> QED BY <1>1, <1>2 DEF SubsetNext, Dequeue, KnownTarget, TooManyStates, Finish,
                          subsetVars, dfaVars

(* From the empty set every character leads to the empty set, and it        *)
(* accepts nothing.                                                         *)
LEMMA EmptySetIsDead ==
  AcceptedBy({}) = {} /\ \A ch \in Symbol : Move({}, ch) = {}
BY DEF AcceptedBy, Move

(* The state that the layouts of tail automata leave out is one that no    *)
(* character leaves and that accepts nothing, whatever the NFA.            *)
THEOREM DeadStateCorrect == SubsetSpec => []DeadStateIsDead
<1>1. SubsetInit => DeadInv
  BY DEF SubsetInit, DeadInv
<1>2. ASSUME SInv, DeadInv PROVE DeadStateIsDead
  <2> SUFFICES ASSUME pc = "done", dead_state # NO_STATE
               PROVE  /\ accepts[dead_state] = {}
                      /\ \A ch \in Symbol : state_table[dead_state][ch] = dead_state
    BY DEF DeadStateIsDead
  <2>1. {} \in DOMAIN mapping /\ mapping[{}] = dead_state
    BY <1>2 DEF DeadInv
  <2> QED BY <1>2, <2>1, SInvDeterminized, EmptySetIsDead DEF Determinized
<1> QED BY <1>1, <1>2, SInvInit, SInvNext, DeadInvNext, PTL DEF SubsetSpec

-----------------------------------------------------------------------------
(* The transitions whose target has been computed: those of the states that *)
(* came before, and those of this state on the symbols before i.            *)
Processed(p, ch) == p < state \/ (p = state /\ ch < i)

(* Transition (p, ch) is the first one to q, and to no state after q is     *)
(* there an earlier one.                                                   *)
FirstTo(q, p, ch) ==
  /\ state_table[p][ch] = q
  /\ \A r \in 0..p, b \in Symbol : state_table[r][b] > q => r = p /\ b > ch

(* The states are processed in the order of their numbers: the queue holds  *)
(* those after the current one.                                            *)
OrderInv ==
  /\ state \in -1..size-1 /\ marking = 0..state
  /\ Len(queue) = size - 1 - state
  /\ \A k \in 1..Len(queue) : queue[k].dfa = state + k
  /\ pc = "dequeue" => state = NO_STATE \/ i = CSize
  /\ \A q \in 1..size-1 : \E p \in 0..q-1, ch \in Symbol : Processed(p, ch) /\ FirstTo(q, p, ch)

(* The states of the finished DFA are numbered in the order in which a      *)
(* breadth-first traversal discovers them.                                 *)
NumberedAsFound ==
  pc = "done" => \A q \in 1..size-1 : \E p \in 0..q-1, ch \in Symbol : FirstTo(q, p, ch)

(* The next state of the queue has not been processed. *)
LEMMA DequeueKeepsOrder ==
  ASSUME SInv, OrderInv, Dequeue
  PROVE  OrderInv'
<1>1. /\ pc = "dequeue" /\ queue # <<>> /\ queue' = Tail(queue) /\ state' = Head(queue).dfa
      /\ i' = 0 /\ UNCHANGED <<mapping, size, state_table, accepts, dead_state>>
      /\ IF Head(queue).dfa \in marking THEN UNCHANGED <<pc, marking>>
         ELSE pc' = "symbols" /\ marking' = marking \cup {Head(queue).dfa}
  BY DEF Dequeue
<1>2. /\ size \in Nat \ {0} /\ queue \in Seq([dfa : 0..size-1, nfa : SUBSET NFA]) /\ CSize \in Nat
      /\ i \in Nat
  BY NfaAssumption DEF SInv, SubsetTypeOK
<1>3. /\ state \in -1..size-1 /\ marking = 0..state /\ Len(queue) = size - 1 - state
      /\ \A k \in 1..Len(queue) : queue[k].dfa = state + k
      /\ state = NO_STATE \/ i = CSize
  BY <1>1 DEF OrderInv
<1>4. Len(queue) \in Nat \ {0} /\ Head(queue) = queue[1]
  BY <1>1, <1>2
<1>5. state' = state + 1 /\ state + 1 <= size - 1 /\ state \in Int
  BY <1>1, <1>2, <1>3, <1>4
<1>6. marking' = 0..state' /\ pc' = "symbols"
  <2>1. state + 1 \notin marking BY <1>3, <1>5
  <2>2. Head(queue).dfa = state + 1 BY <1>1, <1>5
  <2>3. pc' = "symbols" /\ marking' = marking \cup {state + 1} BY <1>1, <2>1, <2>2
  <2>4. 0..(state + 1) = 0..state \cup {state + 1} BY <1>3, <1>5
  <2> QED BY <1>3, <1>5, <2>3, <2>4
<1>7. Len(queue') = size - 1 - state' /\ \A k \in 1..Len(queue') : queue'[k].dfa = state' + k
  <2>1. Len(queue') = Len(queue) - 1 /\ \A k \in 1..Len(queue') : queue'[k] = queue[k + 1]
    BY <1>1, <1>2, <1>4
  <2>2. ASSUME NEW k \in 1..Len(queue') PROVE queue'[k].dfa = state' + k
    <3>1. k + 1 \in 1..Len(queue) BY <1>4, <2>1
    <3> QED BY <1>3, <1>5, <2>1, <3>1
  <2> QED BY <1>2, <1>3, <1>4, <1>5, <2>1, <2>2
<1>8. ASSUME NEW q \in 1..size'-1
      PROVE  \E p \in 0..q-1, ch \in Symbol : Processed(p, ch)' /\ FirstTo(q, p, ch)'
  <2>1. q \in 1..size-1 BY <1>1
  <2>2. PICK p \in 0..q-1, ch \in Symbol : Processed(p, ch) /\ FirstTo(q, p, ch)
    BY <2>1 DEF OrderInv
  <2>3. FirstTo(q, p, ch)' BY <1>1, <2>2 DEF FirstTo
  <2>4. Processed(p, ch)' BY <1>5, <2>2 DEF Processed
  <2> QED BY <2>2, <2>3, <2>4
<1>9. state' \in -1..size'-1 BY <1>1, <1>2, <1>3, <1>5
<1> QED BY <1>1, <1>6, <1>7, <1>8, <1>9 DEF OrderInv

(* Storing the target of a transition that comes after all processed ones   *)
(* takes no state its first transition.                                    *)
LEMMA FirstStays ==
  ASSUME SInv, OrderInv, pc = "symbols", NextSymbol, NEW target,
         \A r \in 0..size-1 : \A b \in Symbol :
           state_table'[r][b] = IF r = state /\ b = i THEN target ELSE state_table[r][b],
         NEW q \in 1..size-1
  PROVE  \E p \in 0..q-1, ch \in Symbol : Processed(p, ch)' /\ FirstTo(q, p, ch)'
<1>1. /\ size \in Nat \ {0} /\ i \in Nat /\ CSize \in Nat /\ Symbol = 0..CSize-1 /\ state \in 0..size-1
      /\ i \in Symbol
  <2>1. /\ size \in Nat \ {0} /\ i \in 0..CSize /\ CSize \in Nat /\ Symbol = 0..CSize-1
        /\ state # NO_STATE /\ i < CSize /\ state \in 0..size-1 \cup {NO_STATE}
    BY NfaAssumption DEF SInv, SubsetTypeOK, Symbol
  <2> QED BY <2>1
<1>2. i' = i + 1 /\ state' = state BY DEF NextSymbol
<1>3. PICK p \in 0..q-1, ch \in Symbol : Processed(p, ch) /\ FirstTo(q, p, ch)
  BY DEF OrderInv
<1>4. p \in 0..size-1 /\ ~(p = state /\ ch = i) /\ Processed(p, ch)'
  BY <1>1, <1>2, <1>3 DEF Processed
<1>5. state_table'[p][ch] = q BY <1>3, <1>4 DEF FirstTo
<1>6. ASSUME NEW r \in 0..p, NEW b \in Symbol, state_table'[r][b] > q
      PROVE  r = p /\ b > ch
  <2>1. r \in 0..size-1 BY <1>1, <1>4
  <2>2. CASE r = state /\ b = i
    <3>1. state <= p BY <1>1, <1>4, <2>2
    <3>2. p = state /\ ch < i BY <1>1, <1>3, <1>4, <3>1 DEF Processed
    <3> QED BY <2>2, <3>2, <1>1
  <2>3. CASE ~(r = state /\ b = i)
    <3>1. state_table[r][b] > q BY <1>6, <2>1, <2>3
    <3> QED BY <1>3, <3>1 DEF FirstTo
  <2> QED BY <2>2, <2>3
<1>7. FirstTo(q, p, ch)' BY <1>5, <1>6 DEF FirstTo
<1> QED BY <1>4, <1>7

LEMMA KnownTargetKeepsOrder ==
  ASSUME SInv, OrderInv, KnownTarget, nfa' = nfa
  PROVE  OrderInv'
<1>1. /\ pc = "symbols" /\ NextSymbol /\ UNCHANGED <<queue, mapping, size, accepts, dead_state>>
      /\ state_table' = [state_table EXCEPT ![state][i] = mapping[Move(cl_state, i)]]
  BY DEF KnownTarget
<1>2. /\ i' = i + 1 /\ UNCHANGED <<marking, state>>
      /\ pc' = IF i + 1 = CSize THEN "dequeue" ELSE "symbols"
  BY <1>1 DEF NextSymbol
<1>3. state_table \in [0..size-1 -> [Symbol -> 0..size-1 \cup {NO_STATE}]]
  BY DEF SInv, SubsetTypeOK
<1>4. \A r \in 0..size-1 : \A b \in Symbol :
        state_table'[r][b] = IF r = state /\ b = i THEN mapping[Move(cl_state, i)] ELSE state_table[r][b]
  BY <1>1, <1>3
<1>5. \A q \in 1..size-1 : \E p \in 0..q-1, ch \in Symbol : Processed(p, ch)' /\ FirstTo(q, p, ch)'
  <2> DEFINE target == mapping[Move(cl_state, i)]
  <2>1. \A r \in 0..size-1 : \A b \in Symbol :
          state_table'[r][b] = IF r = state /\ b = i THEN target ELSE state_table[r][b]
    BY <1>4
  <2> HIDE DEF target
  <2> QED BY <1>1, <2>1, FirstStays
<1>6. pc' = "dequeue" => i' = CSize BY <1>2
<1>7. (\A q \in 1..size-1 : \E p \in 0..q-1, ch \in Symbol : Processed(p, ch) /\ FirstTo(q, p, ch))'
  BY <1>1, <1>5
<1> QED BY <1>1, <1>2, <1>6, <1>7 DEF OrderInv

(* A new state goes to the end of the queue; no transition leads to a       *)
(* state after it.                                                         *)
LEMMA NewTargetKeepsOrder ==
  ASSUME SInv, OrderInv, NewTarget, nfa' = nfa
  PROVE  OrderInv'
<1> DEFINE S == Move(cl_state, i)
<1>1. /\ pc = "symbols" /\ NextSymbol /\ size' = size + 1
      /\ queue' = Append(queue, [dfa |-> size, nfa |-> S])
      /\ state_table' = AddTo([state_table EXCEPT ![state][i] = size], size, NoTransitions)
  BY DEF NewTarget, NewState
<1>2. /\ i' = i + 1 /\ UNCHANGED <<marking, state>>
      /\ pc' = IF i + 1 = CSize THEN "dequeue" ELSE "symbols"
  BY <1>1 DEF NextSymbol
<1>3. /\ state_table \in [0..size-1 -> [Symbol -> 0..size-1 \cup {NO_STATE}]]
      /\ size \in Nat \ {0} /\ queue \in Seq([dfa : 0..size-1, nfa : SUBSET NFA])
      /\ state \in 0..size-1 /\ i \in Symbol
      /\ CSize \in Nat /\ Symbol = 0..CSize-1
  <2>1. /\ size \in Nat \ {0} /\ i \in 0..CSize /\ CSize \in Nat /\ Symbol = 0..CSize-1
        /\ state # NO_STATE /\ i < CSize /\ state \in 0..size-1 \cup {NO_STATE}
        /\ state_table \in [0..size-1 -> [Symbol -> 0..size-1 \cup {NO_STATE}]]
        /\ queue \in Seq([dfa : 0..size-1, nfa : SUBSET NFA])
    BY <1>1, NfaAssumption DEF SInv, SubsetTypeOK, Symbol
  <2> QED BY <2>1
<1>4. \A r \in 0..size-1 : \A b \in Symbol :
        state_table'[r][b] = IF r = state /\ b = i THEN size ELSE state_table[r][b]
  <2>1. \A r \in 0..size-1 : state_table'[r] = [state_table EXCEPT ![state][i] = size][r]
    BY <1>1, <1>3 DEF AddTo
  <2> QED BY <1>3, <2>1
<1>5. \A q \in 1..size-1 : \E p \in 0..q-1, ch \in Symbol : Processed(p, ch)' /\ FirstTo(q, p, ch)'
  BY <1>1, <1>4, FirstStays
<1>6. PICK x, y, z : x = state /\ y = i /\ z = size
  OBVIOUS
<1>7. x \in 0..z-1 /\ y \in Symbol /\ Processed(x, y)' /\ FirstTo(z, x, y)'
  <2>1. x \in 0..z-1 /\ y \in Symbol /\ Processed(x, y)'
    BY <1>2, <1>3, <1>6 DEF Processed
  <2>2. state_table'[x][y] = z BY <1>3, <1>4, <1>6
  <2>3. ASSUME NEW r \in 0..x, NEW b \in Symbol PROVE ~(state_table'[r][b] > z)
    <3>1. r \in 0..size-1 BY <1>3, <1>6
    <3>2. state_table[r][b] \in 0..size-1 \cup {NO_STATE} BY <1>3, <3>1
    <3>3. state_table'[r][b] \in {size, state_table[r][b]} BY <1>4, <3>1
    <3> QED BY <1>3, <1>6, <3>2, <3>3 DEF NO_STATE
  <2> QED BY <2>1, <2>2, <2>3 DEF FirstTo
<1>8. ASSUME NEW q \in 1..size'-1
      PROVE  \E p \in 0..q-1, ch \in Symbol : Processed(p, ch)' /\ FirstTo(q, p, ch)'
  <2>1. q \in 1..size-1 \/ q = z BY <1>1, <1>3, <1>6
  <2>2. CASE q \in 1..size-1 BY <1>5, <2>2
  <2>3. CASE q = z BY <1>7, <2>3
  <2> QED BY <2>1, <2>2, <2>3
<1>9. Len(queue') = size' - 1 - state' /\ \A k \in 1..Len(queue') : queue'[k].dfa = state' + k
  <2>1. Len(queue) = size - 1 - state /\ \A k \in 1..Len(queue) : queue[k].dfa = state + k
    BY DEF OrderInv
  <2>2. PICK x0 : x0 = [dfa |-> size, nfa |-> S] OBVIOUS
  <2>3. /\ Len(queue') = Len(queue) + 1 /\ Len(queue) \in Nat
        /\ \A k \in 1..Len(queue) : queue'[k] = queue[k]
        /\ queue'[Len(queue) + 1] = x0
    BY <1>1, <1>3, <2>2
  <2>4. ASSUME NEW k \in 1..Len(queue') PROVE queue'[k].dfa = state + k
    <3>1. CASE k \in 1..Len(queue) BY <2>1, <2>3, <3>1
    <3>2. CASE k = Len(queue) + 1
      <4>1. queue'[k].dfa = size BY <2>2, <2>3, <3>2
      <4> QED BY <1>3, <2>1, <3>2, <4>1
    <3> QED BY <2>3, <3>1, <3>2
  <2> QED BY <1>1, <1>2, <1>3, <2>1, <2>3, <2>4
<1>10. state' \in -1..size'-1 /\ marking' = 0..state' /\ (pc' = "dequeue" => i' = CSize)
  <2>1. marking = 0..state BY DEF OrderInv
  <2> QED BY <1>1, <1>2, <1>3, <2>1
<1> QED BY <1>8, <1>9, <1>10 DEF OrderInv

(* The states of the DFA are numbered as they are found, for every NFA.     *)
(* This is the order in which the depths and the image are laid out.       *)
THEOREM StatesInDiscoveryOrder == SubsetSpec => []NumberedAsFound
<1>1. SubsetInit => OrderInv
  <2> SUFFICES ASSUME SubsetInit PROVE OrderInv OBVIOUS
  <2>1. /\ size = 1 /\ state = -1 /\ marking = {} /\ Len(queue) = 1 /\ queue[1].dfa = 0
    BY DEF SubsetInit, NO_STATE
  <2> QED BY <2>1 DEF OrderInv, NO_STATE
<1>2. ASSUME SInv, OrderInv, [SubsetNext]_subsetVars
      PROVE  OrderInv'
  <2>1. CASE UNCHANGED <<queue, dfaVars, state, i>> /\ pc' # "dequeue"
    BY <1>2, <2>1 DEF OrderInv, Processed, FirstTo, dfaVars
  <2>2. CASE UNCHANGED subsetVars
    BY <1>2, <2>2 DEF OrderInv, Processed, FirstTo, subsetVars, dfaVars
  <2> QED BY <1>2, <2>1, <2>2, DequeueKeepsOrder, KnownTargetKeepsOrder, NewTargetKeepsOrder
        DEF SubsetNext, TooManyStates, Finish
<1>3. OrderInv => NumberedAsFound
  BY DEF OrderInv, NumberedAsFound
<1> QED BY <1>1, <1>2, <1>3, SInvInit, SInvNext, PTL DEF SubsetSpec

-----------------------------------------------------------------------------
(* The two traversals stand on corresponding states.                       *)
MatchInv ==
  /\ nfa_state \in DOMAIN mapping /\ mapping[nfa_state] = dfa_state
  /\ dfa_rules = nfa_rules /\ nfa_rules \subseteq Rule

TInv == SInv /\ MatchInv

(* Both traversals start in their initial states. *)
LEMMA TInvInit == TraceInit => TInv
<1> SUFFICES ASSUME TraceInit PROVE TInv
  OBVIOUS
<1>1. SInv
  BY SInvInit DEF TraceInit
<1> QED BY <1>1 DEF TraceInit, TInv, MatchInv, SInv, AcceptInv

(* A state keeps its set while the construction goes on. *)
LEMMA BuildKeeps ==
  ASSUME TInv, [SubsetNext]_subsetVars, UNCHANGED traceVars
  PROVE  TInv'
<1>1. SInv /\ SInv'
  BY SInvNext DEF TInv
<1>2. ASSUME NEW S \in DOMAIN mapping
      PROVE  S \in DOMAIN mapping' /\ mapping'[S] = mapping[S]
  <2>1. CASE mapping' = mapping
    BY <1>2, <2>1
  <2>2. CASE NewTarget
    BY <1>2, <2>2 DEF NewTarget, NewState, AddTo
  <2> QED BY <2>1, <2>2 DEF SubsetNext, Dequeue, KnownTarget, TooManyStates, Finish,
                            subsetVars, dfaVars
<1>3. MatchInv'
  BY <1>2 DEF TInv, MatchInv, traceVars
<1> QED BY <1>1, <1>3 DEF TInv

(* A character moves the DFA to the state of the next active set. *)
LEMMA ScanKeeps ==
  ASSUME TInv, Scan
  PROVE  TInv'
<1>1. PICK ch \in Symbol : NfaByte(ch) /\ DfaByte(ch)
  BY DEF Scan
<1>2. pc = "done" /\ UNCHANGED subsetVars /\ UNCHANGED <<nfa, mapping, accepts>>
  BY DEF Scan, subsetVars, dfaVars
<1>3. SInv /\ SInv'
  BY <1>2, SInvNext DEF TInv
<1>4. /\ nfa_state' = Move(nfa_state, ch)
      /\ nfa_rules' = nfa_rules \cup AcceptedBy(nfa_state')
      /\ dfa_state' = state_table[dfa_state][ch]
      /\ dfa_rules' = dfa_rules \cup accepts[dfa_state']
  BY <1>1 DEF NfaByte, DfaByte
<1>5. nfa_state' \in DOMAIN mapping /\ mapping[nfa_state'] = dfa_state'
  BY <1>2, <1>3, <1>4, SInvDeterminized DEF TInv, MatchInv, Determinized
<1>6. accepts[dfa_state'] = AcceptedBy(nfa_state')
  BY <1>3, <1>5 DEF SInv, AcceptInv
<1>7. accepts[dfa_state'] \subseteq Rule
  BY <1>3, <1>5 DEF SInv, SubsetTypeOK
<1>8. MatchInv'
  BY <1>2, <1>4, <1>5, <1>6, <1>7 DEF TInv, MatchInv
<1> QED BY <1>3, <1>8 DEF TInv

(* Hence the invariant of the two traversals is inductive. *)
LEMMA TInvNext == TInv /\ [Build \/ Scan]_scanVars => TInv'
<1> SUFFICES ASSUME TInv, [Build \/ Scan]_scanVars PROVE TInv'
  OBVIOUS
<1>1. CASE Build \/ UNCHANGED scanVars
  BY <1>1, BuildKeeps DEF Build, scanVars
<1>2. CASE Scan
  BY <1>2, ScanKeeps
<1> QED BY <1>1, <1>2

(* trace.c: on every trace the DFA traversal reports what the NFA          *)
(* traversal reports, character by character, for every NFA.               *)
THEOREM TraversalsAgree == TraceSpec => []SameMatches
<1>1. TInv => SameMatches
  BY DEF TInv, MatchInv, SameMatches, SInv, AcceptInv
<1> QED BY <1>1, TInvInit, TInvNext, PTL DEF TraceSpec

(* The DFA traversal never leaves the state table, the NFA traversal never *)
(* leaves the NFA.                                                         *)
THEOREM TraceTypeCorrect == TraceSpec => []TraceTypeOK
<1>1. TInv => TraceTypeOK
  BY DEF TInv, MatchInv, TraceTypeOK, SInv, SubsetTypeOK
<1> QED BY <1>1, TInvInit, TInvNext, PTL DEF TraceSpec

-----------------------------------------------------------------------------
(***************************************************************************)
(* The simulation of memory layouts.                                       *)
(***************************************************************************)
(* What the assumption says of the simulation that runs. *)
LEMMA SimulationFacts ==
  ASSUME FaMemoryAssumption, mem \in Simulations
  PROVE  /\ CHUNK \in Nat \ {0} /\ CSIZE \in Nat \ {0} /\ PER_WORD \in Nat \ {0} /\ CSIZE % CHUNK = 0
         /\ mem.kind \in {"dfas", "dfa", "nfa"} /\ IsNfa \in BOOLEAN
         /\ Len(mem.fas) \in Nat \ {0} /\ DOMAIN mem.fas = 1..Len(mem.fas)
         /\ mem.kind # "dfas" => Len(mem.fas) = 1
         /\ \A k \in DOMAIN mem.fas : mem.fas[k].size \in Nat \ {0}
         /\ \A k \in DOMAIN mem.fas : IF IsNfa THEN IsAnNfa(mem.fas[k]) ELSE IsDfa(mem.fas[k])
         /\ mem.layout \in {"LINEAR", "BITMAP", "INDIRECT_ADDR"} /\ mem.threshold \in Nat
         /\ mem.layout = "INDIRECT_ADDR" => (mem.threshold + 1) % 4 = 0
         /\ mem.cache.line_size \in Nat \ {0} /\ mem.cache.assoc \in Nat \ {0}
         /\ mem.cache.lines_per_set \in Nat \ {0}
<1>1. /\ CHUNK \in Nat \ {0} /\ CSIZE \in Nat \ {0} /\ PER_WORD \in Nat \ {0} /\ CSIZE % CHUNK = 0
  BY DEF FaMemoryAssumption
<1>2. /\ mem.kind \in {"dfas", "dfa", "nfa"} /\ (mem.kind # "dfas" => Len(mem.fas) = 1)
      /\ Len(mem.fas) \in Nat \ {0} /\ DOMAIN mem.fas = 1..Len(mem.fas)
      /\ mem.layout \in {"LINEAR", "BITMAP", "INDIRECT_ADDR"} /\ mem.threshold \in Nat
      /\ mem.layout = "INDIRECT_ADDR" => (mem.threshold + 1) % 4 = 0
  BY DEF FaMemoryAssumption
<1>3. /\ mem.cache.line_size \in Nat \ {0} /\ mem.cache.assoc \in Nat \ {0}
      /\ mem.cache.lines_per_set \in Nat \ {0}
  BY DEF FaMemoryAssumption
<1>4. ASSUME NEW k \in DOMAIN mem.fas
      PROVE  /\ mem.fas[k].size \in Nat \ {0}
             /\ IF IsNfa THEN IsAnNfa(mem.fas[k]) ELSE IsDfa(mem.fas[k])
  BY DEF FaMemoryAssumption, IsNfa
<1>5. IsNfa \in BOOLEAN
  BY DEF IsNfa
<1>6. QED
  BY <1>1, <1>2, <1>3, <1>4, <1>5

(* There are finitely many characters. *)
LEMMA CharIsFinite == ASSUME FaMemoryAssumption PROVE IsFiniteSet(Char)
<1>1. CSIZE - 1 \in Int
  BY DEF FaMemoryAssumption
<1> QED BY <1>1, FS_Interval DEF Char

(* The states of the automata, and the symbols of their transitions. *)
LEMMA StateFacts ==
  ASSUME FaMemoryAssumption, mem \in Simulations, NEW x \in AllStates
  PROVE  /\ x[1] \in DOMAIN mem.fas /\ x[1] \in Nat /\ x[2] \in 0..mem.fas[x[1]].size-1 /\ x[2] \in Nat
         /\ x = <<x[1], x[2]>>
         /\ IsFiniteSet(Char) /\ Labeled(x) \in SUBSET Char /\ IsFiniteSet(Labeled(x))
         /\ Cardinality(Labeled(x)) \in Nat /\ num_labeled_tr(x) \in Nat
         /\ Cardinality(Labeled(x)) <= num_labeled_tr(x)
         /\ HasEpsilon(x) \in BOOLEAN /\ HasFirst(x) \in BOOLEAN
<1>1. PICK k \in DOMAIN mem.fas : x \in {<<k, q>> : q \in 0..mem.fas[k].size-1}
  BY DEF AllStates
<1>2. DOMAIN mem.fas = 1..Len(mem.fas) /\ Len(mem.fas) \in Nat /\ mem.fas[k].size \in Nat
  BY SimulationFacts
<1>3. PICK q \in 0..mem.fas[k].size-1 : x = <<k, q>>
  BY <1>1
<1>4. /\ x[1] \in DOMAIN mem.fas /\ x[1] \in Nat /\ x[2] \in 0..mem.fas[x[1]].size-1 /\ x[2] \in Nat
      /\ x = <<x[1], x[2]>> /\ x[1] = k
  BY <1>1, <1>2, <1>3
<1>5. IsFiniteSet(Char)
  BY CharIsFinite
<1>6. HasEpsilon(x) \in BOOLEAN /\ HasFirst(x) \in BOOLEAN
  BY SimulationFacts DEF HasEpsilon, HasFirst
<1>7. CASE ~IsNfa
  <2>1. mem.fas[k].labeled \in [0..mem.fas[k].size-1 -> SUBSET Char]
    BY SimulationFacts, <1>1, <1>7 DEF IsDfa
  <2>2. Labeled(x) \in SUBSET Char /\ num_labeled_tr(x) = Cardinality(Labeled(x))
    BY <2>1, <1>4, <1>7 DEF Labeled, num_labeled_tr, Fa
  <2>3. IsFiniteSet(Labeled(x)) /\ Cardinality(Labeled(x)) \in Nat
    BY <2>2, <1>5, FS_Subset, FS_CardinalityType
  <2>4. QED
    BY <1>4, <1>5, <1>6, <2>2, <2>3
<1>8. CASE IsNfa
  <2> DEFINE Q == 0..mem.fas[k].size-1
             T == mem.fas[k].transitions[x[2]]
             f == [t \in T |-> t[1]]
  <2>1. mem.fas[k].transitions \in [Q -> SUBSET (Char \X Q)]
    BY SimulationFacts, <1>1, <1>8 DEF IsAnNfa
  <2>2. T \in SUBSET (Char \X Q)
    BY <2>1, <1>4
  <2>3. IsFiniteSet(Q)
    <3>1. mem.fas[k].size - 1 \in Int
      BY <1>2
    <3>2. QED
      BY <3>1, FS_Interval
  <2>4. IsFiniteSet(T) /\ Cardinality(T) \in Nat
    BY <2>2, <2>3, <1>5, FS_Product, FS_Subset, FS_CardinalityType
  <2>5. Labeled(x) = {t[1] : t \in T} /\ num_labeled_tr(x) = Cardinality(T)
    BY <1>4, <1>8 DEF Labeled, num_labeled_tr, Fa
  <2>6. Labeled(x) \in SUBSET Char
    BY <2>2, <2>5
  <2>7. f \in Surjection(T, Labeled(x))
    BY <2>5 DEF Surjection
  <2>8. IsFiniteSet(Labeled(x)) /\ Cardinality(Labeled(x)) <= Cardinality(T)
    BY <2>4, <2>7, FS_Surjection
  <2>9. Cardinality(Labeled(x)) \in Nat
    BY <2>8, FS_CardinalityType
  <2>10. QED
    BY <1>4, <1>5, <1>6, <2>4, <2>5, <2>6, <2>8, <2>9
<1>9. QED
  BY <1>7, <1>8

(* Every pair of an automaton and one of its states is a state. *)
LEMMA IsAState ==
  ASSUME NEW k \in DOMAIN mem.fas, NEW q \in 0..mem.fas[k].size-1
  PROVE  <<k, q>> \in AllStates
  BY DEF AllStates

(* Rounding a number of bytes or bits up to words. *)
LEMMA RoundedUp ==
  ASSUME NEW n \in Nat, NEW d \in Nat \ {0}
  PROVE  RoundUp(n, d) \in Nat
<1>1. n + d - 1 \in Nat
  OBVIOUS
<1>2. QED
  BY <1>1, DivMod DEF RoundUp

(* How the transitions of a state are counted. *)
LEMMA CountFacts ==
  ASSUME FaMemoryAssumption, mem \in Simulations, NEW x \in AllStates
  PROVE  /\ BitmapWords(x) \in Nat /\ bitmap(x) \in SUBSET (0..CSIZE \div CHUNK - 1)
         /\ \A S \in SUBSET Marked(x) : RoundUp(Cardinality(S), PER_WORD) \in Nat
         /\ \A s \in Char : Before(x, s) \in Nat
         /\ \A s \in Labeled(x) : Before(x, s) < Cardinality(Labeled(x))
         /\ \A s \in Labeled(x) : \A u \in Labeled(x) : s < u => Before(x, s) < Before(x, u)
<1> DEFINE Chunks == 0..CSIZE \div CHUNK - 1
<1>1. CHUNK \in Nat \ {0} /\ CSIZE \in Nat \ {0} /\ PER_WORD \in Nat \ {0} /\ CSIZE % CHUNK = 0
  BY SimulationFacts
<1>2. CSIZE \div CHUNK \in Nat /\ CSIZE = CHUNK * (CSIZE \div CHUNK)
  <2>1. CSIZE \div CHUNK \in Nat /\ CSIZE = CHUNK * (CSIZE \div CHUNK) + (CSIZE % CHUNK)
    BY <1>1, DivMod
  <2>2. QED
    BY <2>1, <1>1
<1>3. Labeled(x) \in SUBSET Char /\ IsFiniteSet(Labeled(x)) /\ Cardinality(Labeled(x)) \in Nat
  BY StateFacts
<1>4. ASSUME NEW s \in Char
      PROVE  s \div CHUNK \in Chunks
  <2>1. s \in Nat /\ s < CSIZE
    BY <1>1 DEF Char
  <2>2. s \div CHUNK \in Nat /\ CHUNK * (s \div CHUNK) <= s
    BY <2>1, <1>1, DivMod, RoundedDown
  <2>3. CASE s \div CHUNK >= CSIZE \div CHUNK
    <3>1. CHUNK * (CSIZE \div CHUNK) <= CHUNK * (s \div CHUNK)
      BY <2>2, <2>3, <1>1, <1>2, ProductGrows
    <3>2. QED
      BY <3>1, <2>1, <2>2, <1>1, <1>2
  <2>4. QED
    BY <2>2, <2>3, <1>2
<1>5. bitmap(x) \in SUBSET Chunks
  BY <1>3, <1>4 DEF bitmap
<1>6. IsFiniteSet(Chunks)
  BY <1>2, FS_Interval
<1>7. ASSUME NEW S \in SUBSET Chunks
      PROVE  RoundUp(Cardinality(S), PER_WORD) \in Nat
  BY <1>1, <1>6, FS_Subset, FS_CardinalityType, RoundedUp
<1>8. Marked(x) \in SUBSET Chunks
  BY DEF Marked
<1>9. ASSUME NEW s \in Char
      PROVE  Before(x, s) \in Nat
  <2>1. {d \in Labeled(x) : d < s} \in SUBSET Labeled(x)
    OBVIOUS
  <2>2. QED
    BY <2>1, <1>3, FS_Subset, FS_CardinalityType DEF Before
<1>10. ASSUME NEW s \in Labeled(x)
       PROVE  Before(x, s) < Cardinality(Labeled(x))
  <2> DEFINE D == {d \in Labeled(x) : d < s}
  <2>1. s \in Int
    BY <1>3, <1>1 DEF Char
  <2>2. D \in SUBSET Labeled(x) /\ s \in Labeled(x) \ D
    BY <2>1
  <2>3. Cardinality(D) < Cardinality(Labeled(x))
    BY <2>2, <1>3, MoreElements
  <2>4. QED
    BY <2>3 DEF Before
<1>11. ASSUME NEW s \in Labeled(x), NEW u \in Labeled(x), s < u
       PROVE  Before(x, s) < Before(x, u)
  <2> DEFINE D == {d \in Labeled(x) : d < s}
             E == {d \in Labeled(x) : d < u}
  <2>1. \A d \in Labeled(x) : d \in Int
    BY <1>3, <1>1 DEF Char
  <2>2. D \in SUBSET E /\ s \in E \ D
    BY <2>1, <1>11
  <2>3. E \in SUBSET Labeled(x)
    OBVIOUS
  <2>4. IsFiniteSet(E)
    BY <2>3, <1>3, FS_Subset
  <2>5. Cardinality(D) < Cardinality(E)
    BY <2>2, <2>4, MoreElements
  <2>6. QED
    BY <2>5 DEF Before
<1>12. BitmapWords(x) \in Nat
  BY <1>5, <1>7 DEF BitmapWords
<1>13. QED
  BY <1>5, <1>7, <1>8, <1>9, <1>10, <1>11, <1>12

(* The width of an entry is a positive number of words. *)
LEMMA WidthFacts ==
  ASSUME FaMemoryAssumption, mem \in Simulations
  PROVE  /\ Width \in Nat \ {0}
         /\ mem.layout = "INDIRECT_ADDR" => Width \div 4 \in Nat \ {0} /\ Width = 4 * (Width \div 4)
<1>1. Width \in Nat \ {0} /\ (mem.layout = "INDIRECT_ADDR" => Width % 4 = 0)
  BY SimulationFacts DEF Width
<1>2. QED
  BY <1>1, DivMod

(* Every state has a number of bytes. *)
LEMMA BytesFacts ==
  ASSUME FaMemoryAssumption, mem \in Simulations, NEW x \in AllStates
  PROVE  /\ Bytes(x) \in Nat /\ FullBytes(x) \in Nat \ {0} /\ InFull(x) \in BOOLEAN
         /\ One(HasEpsilon(x)) \in Nat /\ One(HasFirst(x)) \in Nat
<1>1. One(HasEpsilon(x)) \in 0..1 /\ One(HasFirst(x)) \in 0..1
  BY DEF One
<1>2. /\ num_labeled_tr(x) \in Nat /\ BitmapWords(x) \in Nat /\ Width \in Nat \ {0}
      /\ CSIZE \in Nat \ {0} /\ mem.threshold \in Nat
  BY StateFacts, CountFacts, WidthFacts, SimulationFacts
<1>3. InFull(x) \in BOOLEAN
  BY <1>2 DEF InFull
<1>4. FullBytes(x) \in Nat \ {0}
  <2>1. CSIZE + One(HasEpsilon(x)) \in Nat \ {0}
    BY <1>1, <1>2
  <2>2. \A m \in Nat \ {0}, n \in Nat \ {0} : m * n \in Nat \ {0}
    OBVIOUS
  <2>3. QED
    BY <2>1, <2>2, <1>2 DEF FullBytes
<1>5. OwnBytes(x) \in Nat
  <2>1. \A m \in Nat, n \in Nat : m * n \in Nat
    OBVIOUS
  <2>2. num_labeled_tr(x) + One(HasFirst(x)) \in Nat
    BY <1>1, <1>2
  <2>3. 1 + BitmapWords(x) + num_labeled_tr(x) + One(HasFirst(x)) \in Nat
    BY <1>1, <1>2
  <2>4. mem.layout \in {"LINEAR", "BITMAP", "INDIRECT_ADDR"}
    BY SimulationFacts
  <2>5. /\ (num_labeled_tr(x) + One(HasFirst(x))) * 4 \in Nat
        /\ (1 + BitmapWords(x) + num_labeled_tr(x) + One(HasFirst(x))) * 4 \in Nat
        /\ (num_labeled_tr(x) + One(HasFirst(x))) * Width \in Nat
    BY <2>1, <2>2, <2>3, <1>2
  <2>6. QED
    BY <2>4, <2>5 DEF OwnBytes
<1>6. QED
  BY <1>1, <1>3, <1>4, <1>5 DEF Bytes

(* Finitely many images of the numbers of a range are a finite set. *)
LEMMA StatesFinite ==
  ASSUME FaMemoryAssumption, mem \in Simulations
  PROVE  IsFiniteSet(AllStates)
<1> DEFINE D == DOMAIN mem.fas
           F == [k \in D |-> {<<k, q>> : q \in 0..mem.fas[k].size-1}]
           R == {F[k] : k \in D}
<1>1. D = 1..Len(mem.fas) /\ Len(mem.fas) \in Nat
  BY SimulationFacts
<1>2. IsFiniteSet(D)
  BY <1>1, FS_Interval
<1>3. F \in Surjection(D, R)
  BY DEF Surjection
<1>4. IsFiniteSet(R)
  BY <1>2, <1>3, FS_Surjection
<1>5. ASSUME NEW T \in R
      PROVE  IsFiniteSet(T)
  <2>1. PICK k \in D : T = {<<k, q>> : q \in 0..mem.fas[k].size-1}
    BY <1>5
  <2>2. mem.fas[k].size - 1 \in Int
    BY SimulationFacts
  <2>3. IsFiniteSet(0..mem.fas[k].size-1) /\ IsFiniteSet({k})
    <3>1. IsFiniteSet(0..mem.fas[k].size-1)
      BY <2>2, FS_Interval
    <3>2. QED
      BY <3>1, FS_Singleton
  <2>4. T = {k} \X (0..mem.fas[k].size-1)
    BY <2>1
  <2>5. QED
    BY <2>3, <2>4, FS_Product
<1>6. IsFiniteSet(UNION R)
  BY <1>4, <1>5, FS_UNION
<1>7. AllStates = UNION R
  BY DEF AllStates
<1>8. QED
  BY <1>6, <1>7

BytesIn(S) == UNION {{x} \X (1..Bytes(x)) : x \in S}

(* The bytes of states add up. *)
LEMMA BytesAddUp ==
  ASSUME FaMemoryAssumption, mem \in Simulations, NEW S \in SUBSET AllStates
  PROVE  /\ BytesOf(S) \in Nat
         /\ \A T \in SUBSET S : BytesOf(T) <= BytesOf(S)
         /\ \A x \in AllStates \ S : BytesOf(S \cup {x}) = BytesOf(S) + Bytes(x)
<1>1. ASSUME NEW x \in AllStates
      PROVE  IsFiniteSet({x} \X (1..Bytes(x))) /\ Cardinality({x} \X (1..Bytes(x))) = Bytes(x)
  <2>1. Bytes(x) \in Nat
    BY BytesFacts
  <2>2. IsFiniteSet(1..Bytes(x)) /\ Cardinality(1..Bytes(x)) = Bytes(x)
    BY <2>1, FS_Interval
  <2>3. IsFiniteSet({x}) /\ Cardinality({x}) = 1
    BY FS_Singleton
  <2>4. /\ IsFiniteSet({x} \X (1..Bytes(x)))
        /\ Cardinality({x} \X (1..Bytes(x))) = Cardinality({x}) * Cardinality(1..Bytes(x))
    BY <2>2, <2>3, FS_Product
  <2>5. QED
    BY <2>1, <2>2, <2>3, <2>4
<1>2. ASSUME NEW T \in SUBSET AllStates
      PROVE  IsFiniteSet(BytesIn(T)) /\ Cardinality(BytesIn(T)) \in Nat
  <2> DEFINE F == [x \in T |-> {x} \X (1..Bytes(x))]
             R == {F[x] : x \in T}
  <2>1. IsFiniteSet(T)
    BY StatesFinite, FS_Subset
  <2>2. F \in Surjection(T, R)
    BY DEF Surjection
  <2>3. IsFiniteSet(R)
    BY <2>1, <2>2, FS_Surjection
  <2>4. \A B \in R : IsFiniteSet(B)
    BY <1>1
  <2>5. IsFiniteSet(UNION R)
    BY <2>3, <2>4, FS_UNION
  <2>6. BytesIn(T) = UNION R
    BY DEF BytesIn
  <2>7. QED
    BY <2>5, <2>6, FS_CardinalityType
<1>3. BytesOf(S) \in Nat
  BY <1>2 DEF BytesOf, BytesIn
<1>4. ASSUME NEW T \in SUBSET S
      PROVE  BytesOf(T) <= BytesOf(S)
  <2>1. BytesIn(T) \in SUBSET BytesIn(S)
    BY DEF BytesIn
  <2>2. Cardinality(BytesIn(T)) <= Cardinality(BytesIn(S))
    BY <2>1, <1>2, FS_Subset
  <2>3. QED
    BY <2>2 DEF BytesOf, BytesIn
<1>5. ASSUME NEW x \in AllStates \ S
      PROVE  BytesOf(S \cup {x}) = BytesOf(S) + Bytes(x)
  <2> DEFINE B == {x} \X (1..Bytes(x))
  <2>1. BytesIn(S \cup {x}) = BytesIn(S) \cup B
    BY DEF BytesIn
  <2>2. BytesIn(S) \cap B = {}
    BY <1>5 DEF BytesIn
  <2>3. IsFiniteSet(BytesIn(S)) /\ IsFiniteSet(B) /\ Cardinality(BytesIn(S)) \in Nat
    BY <1>1, <1>2
  <2>4. Cardinality(BytesIn(S) \cup B) = Cardinality(BytesIn(S)) + Cardinality(B) - Cardinality(BytesIn(S) \cap B)
    BY <2>3, FS_Union
  <2>5. Cardinality(B) = Bytes(x) /\ Bytes(x) \in Nat
    BY <1>1, BytesFacts
  <2>6. Cardinality(BytesIn(S) \cap B) = 0
    <3>1. \A X : X = {} => Cardinality(X) = 0
      BY FS_EmptySet
    <3>2. QED
      BY <3>1, <2>2
  <2>7. Cardinality(BytesIn(S \cup {x})) = Cardinality(BytesIn(S)) + Bytes(x)
    <3>1. Cardinality(BytesIn(S \cup {x})) = Cardinality(BytesIn(S) \cup B)
      BY <2>1, Zenon
    <3>2. Cardinality(BytesIn(S) \cup B) = Cardinality(BytesIn(S)) + Bytes(x) - 0
      BY <2>4, <2>5, <2>6
    <3>3. QED
      BY <3>1, <3>2, <2>3, <2>5
  <2>8. QED
    BY <2>7 DEF BytesOf, BytesIn
<1>6. QED
  BY <1>3, <1>4, <1>5

(* init orders the states. *)
LEMMA PlacingOrder ==
  ASSUME FaMemoryAssumption, mem \in Simulations, NEW x \in AllStates, NEW y \in AllStates
  PROVE  /\ ~Precedes(x, x)
         /\ x # y => Precedes(x, y) \/ Precedes(y, x)
         /\ Precedes(x, y) => \A z \in AllStates : Precedes(z, x) => Precedes(z, y)
<1>1. \A z \in AllStates : z[1] \in Nat /\ z[2] \in Nat /\ z = <<z[1], z[2]>> /\ Group(z) \in Int
  BY StateFacts DEF Group
<1>2. x # y => x[1] # y[1] \/ x[2] # y[2]
  BY <1>1
<1>3. ~Precedes(x, x)
  BY <1>1 DEF Precedes
<1>4. x # y => Precedes(x, y) \/ Precedes(y, x)
  BY <1>1, <1>2 DEF Precedes
<1>5. ASSUME Precedes(x, y), NEW z \in AllStates, Precedes(z, x)
      PROVE  Precedes(z, y)
  BY <1>1, <1>5 DEF Precedes
<1>6. QED
  BY <1>3, <1>4, <1>5

(* The bytes of two states are apart. *)
LEMMA StatesApart ==
  ASSUME FaMemoryAssumption, mem \in Simulations, NEW x \in AllStates, NEW y \in AllStates, x # y
  PROVE  Placed[x] + Bytes(x) <= Placed[y] \/ Placed[y] + Bytes(y) <= Placed[x]
<1>1. ASSUME NEW v \in AllStates, NEW w \in AllStates, Precedes(v, w)
      PROVE  Placed[v] + Bytes(v) <= Placed[w]
  <2> DEFINE V == {z \in AllStates : Precedes(z, v)}
             W == {z \in AllStates : Precedes(z, w)}
  <2>1. V \cup {v} \in SUBSET W /\ v \in AllStates \ V
    BY <1>1, PlacingOrder
  <2>2. V \in SUBSET AllStates /\ W \in SUBSET AllStates
    OBVIOUS
  <2>3. BytesOf(V \cup {v}) = BytesOf(V) + Bytes(v)
    BY <2>1, <2>2, BytesAddUp
  <2>4. BytesOf(V \cup {v}) <= BytesOf(W)
    BY <2>1, <2>2, BytesAddUp
  <2>5. Placed[v] = BytesOf(V) /\ Placed[w] = BytesOf(W)
    BY DEF Placed
  <2>6. QED
    BY <2>3, <2>4, <2>5
<1>2. QED
  BY <1>1, PlacingOrder

(* The states of a DFA that are in full are those before its offset. *)
LEMMA FullBeforeOffset ==
  ASSUME FaMemoryAssumption, mem \in Simulations, ~IsNfa, NEW x \in AllStates
  PROVE  /\ Placed[x] \in Nat /\ Offsets[x[1]] \in Nat
         /\ Placed[x] >= Offsets[x[1]] <=> ~InFull(x)
<1> DEFINE V == {z \in AllStates : Precedes(z, x)}
           W == {z \in AllStates : z[1] < x[1] \/ (z[1] = x[1] /\ InFull(z))}
<1>1. V \in SUBSET AllStates /\ W \in SUBSET AllStates
  OBVIOUS
<1>2. \A z \in AllStates : z[1] \in Nat /\ z[2] \in Nat /\ Group(z) = IF InFull(z) THEN 1 ELSE 3
  BY StateFacts DEF Group, HasEpsilon
<1>3. Placed[x] = BytesOf(V) /\ Offsets[x[1]] = BytesOf(W)
  BY StateFacts DEF Placed, Offsets
<1>4. BytesOf(V) \in Nat /\ BytesOf(W) \in Nat
  BY <1>1, BytesAddUp
<1>5. CASE ~InFull(x)
  <2>1. W \in SUBSET V
    BY <1>2, <1>5 DEF Precedes
  <2>2. BytesOf(W) <= BytesOf(V)
    BY <2>1, <1>1, BytesAddUp
  <2>3. QED
    BY <2>2, <1>3, <1>4, <1>5
<1>6. CASE InFull(x)
  <2>1. V \cup {x} \in SUBSET W
    <3>1. ASSUME NEW z \in V
          PROVE  z \in W
      <4>1. InFull(z) \in BOOLEAN /\ (z[1] = x[1] => Group(z) <= Group(x))
        BY <1>2, BytesFacts DEF Precedes
      <4>2. z[1] = x[1] => InFull(z)
        BY <4>1, <1>2, <1>6
      <4>3. QED
        BY <4>2, <1>2 DEF Precedes
    <3>2. QED
      BY <3>1, <1>6
  <2>2. x \in AllStates \ V
    BY PlacingOrder
  <2>3. BytesOf(V \cup {x}) = BytesOf(V) + Bytes(x)
    BY <2>2, <1>1, BytesAddUp
  <2>4. BytesOf(V \cup {x}) <= BytesOf(W)
    BY <2>1, <1>1, BytesAddUp
  <2>5. Bytes(x) \in Nat \ {0}
    BY <1>6, BytesFacts DEF Bytes
  <2>6. ~(Placed[x] >= Offsets[x[1]])
    BY <2>3, <2>4, <2>5, <1>3, <1>4
  <2>7. QED
    BY <2>6, <1>3, <1>4, <1>6
<1>7. QED
  BY <1>5, <1>6, BytesFacts

(* The addresses are numbers. *)
LEMMA PlacedFacts ==
  ASSUME FaMemoryAssumption, mem \in Simulations, NEW x \in AllStates
  PROVE  Placed[x] \in Nat
<1>1. {z \in AllStates : Precedes(z, x)} \in SUBSET AllStates
  OBVIOUS
<1>2. BytesOf({z \in AllStates : Precedes(z, x)}) \in Nat
  BY <1>1, BytesAddUp
<1>3. QED
  BY <1>2 DEF Placed

(* A sequence of addresses that ends with a. *)
EndsAt(q, a) == q \in Seq(Int) /\ q # <<>> /\ Last(q) = a

LEMMA EndsAtWord ==
  ASSUME NEW a \in Int
  PROVE  EndsAt(Word(a), a)
  BY DEF EndsAt, Word, Last

LEMMA EndsAtRange ==
  ASSUME NEW n \in Nat, NEW f \in [1..n -> Int]
  PROVE  f \in Seq(Int) /\ (n > 0 => EndsAt(f, f[n]))
<1>1. f \in Seq(Int) /\ Len(f) = n
  OBVIOUS
<1>2. n > 0 => f # <<>> /\ Last(f) = f[n]
  BY <1>1 DEF Last
<1>3. QED
  BY <1>1, <1>2 DEF EndsAt

LEMMA EndsAtEntry ==
  ASSUME FaMemoryAssumption, mem \in Simulations, mem.layout = "INDIRECT_ADDR", NEW a \in Int
  PROVE  EndsAt(Entry(a), a + Width - 4)
<1> DEFINE n == Width \div 4
           f == [j \in 1..n |-> a + (j - 1) * 4]
<1>1. n \in Nat \ {0} /\ Width = 4 * n
  BY WidthFacts
<1> HIDE DEF n
<1>2. f \in [1..n -> Int]
  BY <1>1
<1>3. f[n] = a + 4 * n - 4
  BY <1>1
<1>4. EndsAt(f, f[n])
  BY <1>1, <1>2, EndsAtRange
<1>5. Entry(a) = f
  BY DEF Entry, n
<1>6. QED
  BY <1>1, <1>3, <1>4, <1>5

LEMMA EndsAtConcat ==
  ASSUME NEW p \in Seq(Int), NEW q, NEW a, EndsAt(q, a)
  PROVE  EndsAt(p \o q, a)
<1>1. q \in Seq(Int) /\ q # <<>> /\ Last(q) = a
  BY DEF EndsAt
<1>2. Len(q) \in Nat \ {0} /\ Len(p) \in Nat
  BY <1>1, EmptySeq, LenProperties
<1>3. /\ p \o q \in Seq(Int) /\ Len(p \o q) = Len(p) + Len(q)
      /\ (p \o q)[Len(p) + Len(q)] = q[Len(q)]
  BY <1>1, <1>2, ConcatProperties
<1>4. p \o q # <<>>
  BY <1>2, <1>3
<1>5. QED
  BY <1>1, <1>3, <1>4 DEF EndsAt, Last

(* The reads of a state in full end with the entry of the symbol. *)
LEMMA FullReads ==
  ASSUME FaMemoryAssumption, mem \in Simulations, NEW x \in AllStates, address[x] \in Int, NEW s \in Char
  PROVE  EndsAt(FullAccesses(x, s),
                IF mem.layout = "INDIRECT_ADDR" THEN address[x] + (One(HasEpsilon(x)) + s) * Width + Width - 4
                ELSE address[x] + (One(HasEpsilon(x)) + s) * 4)
<1> DEFINE e == One(HasEpsilon(x)) + s
           w == Width
           a == address[x]
<1>1. e \in Nat /\ w \in Nat \ {0} /\ a \in Int
  BY BytesFacts, WidthFacts, SimulationFacts DEF Char
<1> HIDE DEF e, w
<1>2. e * w \in Nat
  <2>1. \A m \in Nat, n \in Nat : m * n \in Nat
    OBVIOUS
  <2>2. QED
    BY <2>1, <1>1
<1>3. CASE mem.layout = "INDIRECT_ADDR"
  <2>1. (IF HasEpsilon(x) THEN Entry(a) ELSE <<>>) \in Seq(Int)
    <3>1. Entry(a) \in Seq(Int)
      BY <1>1, <1>3, EndsAtEntry DEF EndsAt
    <3>2. QED
      BY <3>1
  <2>2. EndsAt(Entry(a + e * w), a + e * w + Width - 4)
    <3>1. a + e * w \in Int
      BY <1>1, <1>2
    <3>2. QED
      BY <3>1, <1>3, EndsAtEntry
  <2>3. EndsAt((IF HasEpsilon(x) THEN Entry(a) ELSE <<>>) \o Entry(a + e * w), a + e * w + Width - 4)
    BY <2>1, <2>2, EndsAtConcat
  <2>4. FullAccesses(x, s) = (IF HasEpsilon(x) THEN Entry(a) ELSE <<>>) \o Entry(a + e * w)
    BY <1>3 DEF FullAccesses, e, w
  <2>5. QED
    BY <2>3, <2>4, <1>3 DEF e, w
<1>4. CASE mem.layout # "INDIRECT_ADDR"
  <2>1. (IF HasEpsilon(x) THEN Word(a) ELSE <<>>) \in Seq(Int)
    <3>1. Word(a) \in Seq(Int)
      BY <1>1, EndsAtWord DEF EndsAt
    <3>2. QED
      BY <3>1
  <2>2. EndsAt(Word(a + e * 4), a + e * 4)
    BY <1>1, EndsAtWord
  <2>3. EndsAt((IF HasEpsilon(x) THEN Word(a) ELSE <<>>) \o Word(a + e * 4), a + e * 4)
    BY <2>1, <2>2, EndsAtConcat
  <2>4. FullAccesses(x, s) = (IF HasEpsilon(x) THEN Word(a) ELSE <<>>) \o Word(a + e * 4)
    BY <1>4 DEF FullAccesses, e
  <2>5. QED
    BY <2>3, <2>4, <1>4 DEF e
<1>5. QED
  BY <1>3, <1>4

LEMMA LinearReads ==
  ASSUME FaMemoryAssumption, mem \in Simulations, NEW x \in AllStates, address[x] \in Int, NEW s \in Char
  PROVE  EndsAt(LinearAccesses(x, s), address[x] + (One(HasFirst(x)) + Before(x, s)) * 4)
<1> DEFINE n == One(HasFirst(x)) + Before(x, s) + 1
           f == [j \in 1..n |-> address[x] + (j - 1) * 4]
<1>1. One(HasFirst(x)) \in Nat /\ Before(x, s) \in Nat
  BY BytesFacts, CountFacts
<1>2. n \in Nat \ {0} /\ n - 1 = One(HasFirst(x)) + Before(x, s)
  BY <1>1
<1> HIDE DEF n
<1>3. f \in [1..n -> Int] /\ f[n] = address[x] + (n - 1) * 4
  BY <1>2
<1>4. EndsAt(f, f[n])
  BY <1>2, <1>3, EndsAtRange
<1>5. LinearAccesses(x, s) = f
  BY DEF LinearAccesses, n
<1>6. QED
  BY <1>2, <1>3, <1>4, <1>5

LEMMA BitmapReads ==
  ASSUME FaMemoryAssumption, mem \in Simulations, NEW x \in AllStates, NEW base \in Int, NEW s \in Char
  PROVE  /\ Bitmaps(x, s, base) \in Seq(Int)
         /\ RoundUp(Cardinality(Marked(x)), PER_WORD) \in Nat /\ BehindBitmaps(x, base) \in Int
<1> DEFINE n == RoundUp(Cardinality({k \in Marked(x) : k <= s \div CHUNK}), PER_WORD)
           f == [j \in 1..n |-> base + j * 4]
<1>1. n \in Nat /\ RoundUp(Cardinality(Marked(x)), PER_WORD) \in Nat
  BY CountFacts
<1> HIDE DEF n
<1>2. f \in [1..n -> Int]
  BY <1>1
<1>3. f \in Seq(Int)
  BY <1>1, <1>2, EndsAtRange
<1>4. Word(base) \in Seq(Int)
  BY EndsAtWord DEF EndsAt
<1>5. <<>> \in Seq(Int)
  OBVIOUS
<1>6. Word(base) \o f \in Seq(Int) /\ Word(base) \o <<>> \in Seq(Int)
  BY <1>3, <1>4, <1>5, ConcatProperties
<1>7. Bitmaps(x, s, base) \in {Word(base) \o f, Word(base) \o <<>>}
  BY DEF Bitmaps, n
<1>8. BehindBitmaps(x, base) \in Int
  BY <1>1 DEF BehindBitmaps
<1>9. QED
  BY <1>1, <1>6, <1>7, <1>8

(* How far from the address of a state the word of a symbol is. *)
WordAt(x, s) ==
  LET unit == IF mem.layout = "INDIRECT_ADDR" THEN Width ELSE 4
      first == One(HasEpsilon(x))
      chunks == RoundUp(Cardinality(Marked(x)), PER_WORD)
  IN IF InFull(x) THEN (first + s) * unit + unit - 4
     ELSE IF mem.layout # "BITMAP" THEN (One(HasFirst(x)) + Before(x, s)) * unit + unit - 4
     ELSE IF IsNfa THEN (2 * first + chunks + Before(x, s)) * 4
     ELSE (2 + chunks + Before(x, s)) * 4

LEMMA FullReadsAt ==
  ASSUME FaMemoryAssumption, mem \in Simulations, NEW x \in AllStates, address[x] \in Int, NEW s \in Char, InFull(x)
  PROVE  EndsAt(FullAccesses(x, s), address[x] + WordAt(x, s))
<1> DEFINE e == One(HasEpsilon(x)) + s
           w == Width
<1>1. e \in Nat /\ w \in Nat
  BY BytesFacts, WidthFacts, SimulationFacts DEF Char
<1>2. e * w \in Nat
  <2> HIDE DEF e, w
  <2>1. \A m \in Nat, n \in Nat : m * n \in Nat
    OBVIOUS
  <2>2. QED
    BY <2>1, <1>1
<1>3. WordAt(x, s) = IF mem.layout = "INDIRECT_ADDR" THEN e * w + w - 4 ELSE e * 4 + 4 - 4
  BY DEF WordAt
<1>4. EndsAt(FullAccesses(x, s), IF mem.layout = "INDIRECT_ADDR" THEN address[x] + e * w + w - 4 ELSE address[x] + e * 4)
  BY FullReads
<1> HIDE DEF e, w
<1>5. address[x] + e * w + w - 4 = address[x] + (e * w + w - 4)
  BY <1>1, <1>2
<1>6. address[x] + e * 4 = address[x] + (e * 4 + 4 - 4)
  BY <1>1
<1>7. QED
  BY <1>3, <1>4, <1>5, <1>6

(* The reads of a DFA. *)
LEMMA DfaReads ==
  ASSUME FaMemoryAssumption, mem \in Simulations, NEW x \in AllStates, address[x] \in Int, NEW s \in Char, ~IsNfa
  PROVE  /\ get_dfa_accesses(x, s) \in Seq(Int)
         /\ s \in Labeled(x) => EndsAt(get_dfa_accesses(x, s), address[x] + WordAt(x, s))
<1> DEFINE a == address[x]
           r == RoundUp(Cardinality(Marked(x)), PER_WORD)
           b == Before(x, s)
           w == Width
<1>1. /\ One(HasFirst(x)) = 1 /\ b \in Nat /\ w \in Nat \ {0} /\ r \in Nat
  <2>1. b \in Nat /\ w \in Nat \ {0}
    BY CountFacts, WidthFacts
  <2>2. r \in Nat
    BY CountFacts
  <2>3. QED
    BY <2>1, <2>2 DEF One, HasFirst
<1> HIDE DEF r, b, w
<1>2. CASE InFull(x)
  BY <1>2, FullReadsAt DEF get_dfa_accesses, EndsAt
<1>3. CASE ~InFull(x) /\ mem.layout = "LINEAR"
  <2>1. EndsAt(LinearAccesses(x, s), a + (1 + b) * 4)
    BY <1>1, LinearReads DEF b
  <2>2. a + (1 + b) * 4 = a + ((1 + b) * 4 + 4 - 4)
    BY <1>1
  <2>3. WordAt(x, s) = (1 + b) * 4 + 4 - 4
    BY <1>1, <1>3 DEF WordAt, b
  <2>4. QED
    BY <2>1, <2>2, <2>3, <1>3 DEF get_dfa_accesses, EndsAt
<1>4. CASE ~InFull(x) /\ mem.layout = "BITMAP"
  <2> DEFINE n == IF s \in Labeled(x) THEN 1 + b ELSE 0
  <2>1. BehindBitmaps(x, a) = a + (1 + r) * 4
    BY DEF BehindBitmaps, r
  <2>2. EndsAt(Word(BehindBitmaps(x, a) + n * 4), BehindBitmaps(x, a) + n * 4)
    BY <1>1, <2>1, EndsAtWord
  <2>3. EndsAt(Bitmaps(x, s, a) \o Word(BehindBitmaps(x, a) + n * 4), BehindBitmaps(x, a) + n * 4)
    BY <2>2, EndsAtConcat, BitmapReads
  <2>4. get_dfa_accesses(x, s) = Bitmaps(x, s, a) \o Word(BehindBitmaps(x, a) + n * 4)
    BY <1>4 DEF get_dfa_accesses, b
  <2>5. s \in Labeled(x) => BehindBitmaps(x, a) + n * 4 = a + (2 + r + b) * 4
    BY <2>1, <1>1
  <2>6. WordAt(x, s) = (2 + r + b) * 4
    BY <1>4 DEF WordAt, r, b
  <2>7. QED
    BY <2>3, <2>4, <2>5, <2>6 DEF EndsAt
<1>5. CASE ~InFull(x) /\ mem.layout = "INDIRECT_ADDR"
  <2> DEFINE n == IF s \in Labeled(x) THEN 1 + b ELSE 0
  <2>1. n \in Nat
    BY <1>1
  <2> HIDE DEF n
  <2>2. n * w \in Nat
    BY <2>1, <1>1
  <2>3. EndsAt(Entry(a + n * w), a + n * w + w - 4)
    BY <2>2, <1>5, EndsAtEntry DEF w
  <2>4. get_dfa_accesses(x, s) = Entry(a + n * w)
    BY <1>5 DEF get_dfa_accesses, b, n, w
  <2>5. s \in Labeled(x) => WordAt(x, s) = n * w + w - 4
    BY <1>1, <1>5 DEF WordAt, n, b, w
  <2>6. a + n * w + w - 4 = a + (n * w + w - 4)
    BY <2>2, <1>1
  <2>7. QED
    BY <2>3, <2>4, <2>5, <2>6 DEF EndsAt
<1>6. QED
  BY <1>2, <1>3, <1>4, <1>5, SimulationFacts

(* The reads of an NFA. *)
LEMMA NfaReads ==
  ASSUME FaMemoryAssumption, mem \in Simulations, NEW x \in AllStates, address[x] \in Int, NEW s \in Char, IsNfa
  PROVE  /\ get_nfa_accesses(x, s) \in Seq(Int)
         /\ s \in Labeled(x) => EndsAt(get_nfa_accesses(x, s), address[x] + WordAt(x, s))
<1> DEFINE a == address[x]
           r == RoundUp(Cardinality(Marked(x)), PER_WORD)
           b == Before(x, s)
           w == Width
           f == One(HasEpsilon(x))
           word == IF HasEpsilon(x) THEN Word(a) ELSE <<>>
<1>1. /\ One(HasFirst(x)) = f /\ b \in Nat /\ w \in Nat \ {0} /\ r \in Nat /\ f \in Nat
  <2>1. b \in Nat /\ w \in Nat \ {0}
    BY CountFacts, WidthFacts
  <2>2. r \in Nat
    BY CountFacts
  <2>3. f \in Nat
    BY BytesFacts
  <2>4. HasFirst(x) = HasEpsilon(x)
    BY DEF HasFirst, HasEpsilon
  <2>5. QED
    BY <2>1, <2>2, <2>3, <2>4
<1>2. word \in Seq(Int)
  <2>1. Word(a) \in Seq(Int) /\ <<>> \in Seq(Int)
    BY EndsAtWord DEF EndsAt
  <2>2. QED
    BY <2>1
<1> HIDE DEF r, b, w, f, word
<1>3. CASE InFull(x)
  BY <1>3, FullReadsAt DEF get_nfa_accesses, EndsAt
<1>4. CASE ~InFull(x) /\ mem.layout = "LINEAR"
  <2>1. EndsAt(LinearAccesses(x, s), a + (f + b) * 4)
    BY <1>1, LinearReads DEF b
  <2>2. a + (f + b) * 4 = a + ((f + b) * 4 + 4 - 4)
    BY <1>1
  <2>3. WordAt(x, s) = (f + b) * 4 + 4 - 4
    BY <1>1, <1>4 DEF WordAt, b
  <2>4. get_nfa_accesses(x, s) = LinearAccesses(x, s)
    BY <1>4 DEF get_nfa_accesses
  <2>5. QED
    BY <2>1, <2>2, <2>3, <2>4 DEF EndsAt
<1>5. CASE ~InFull(x) /\ mem.layout = "BITMAP"
  <2> DEFINE base == a + 4 * f
             p == word \o Bitmaps(x, s, base)
             e == BehindBitmaps(x, base) + (f - 1 + b) * 4
  <2>1. base \in Int
    BY <1>1
  <2>2. Bitmaps(x, s, base) \in Seq(Int)
    BY <2>1, BitmapReads
  <2>3. p \in Seq(Int) /\ <<>> \in Seq(Int)
    BY <1>2, <2>2, ConcatProperties
  <2>4. BehindBitmaps(x, base) = base + (1 + r) * 4
    BY DEF BehindBitmaps, r
  <2>5. e = a + (2 * f + r + b) * 4
    BY <2>4, <1>1
  <2>6. e \in Int
    BY <2>5, <1>1
  <2>7. get_nfa_accesses(x, s) = p \o (IF s \notin Labeled(x) THEN <<>> ELSE Word(e))
    BY <1>5 DEF get_nfa_accesses, b, f, word
  <2> HIDE DEF p, e, base
  <2>8. EndsAt(p \o Word(e), e)
    BY <2>3, <2>6, EndsAtWord, EndsAtConcat
  <2>9. p \o <<>> \in Seq(Int)
    BY <2>3, ConcatProperties
  <2>10. WordAt(x, s) = (2 * f + r + b) * 4
    BY <1>5 DEF WordAt, r, b, f
  <2>11. QED
    BY <2>5, <2>7, <2>8, <2>9, <2>10 DEF EndsAt
<1>6. CASE ~InFull(x) /\ mem.layout = "INDIRECT_ADDR"
  <2> DEFINE p == IF HasEpsilon(x) THEN Entry(a) ELSE <<>>
             e == a + (f + b) * w
  <2>1. (f + b) * w \in Nat
    BY <1>1
  <2>2. e \in Int
    BY <2>1
  <2>3. p \in Seq(Int) /\ <<>> \in Seq(Int)
    <3>1. EndsAt(Entry(a), a + Width - 4)
      BY <1>6, EndsAtEntry
    <3>2. Entry(a) \in Seq(Int)
      BY <3>1 DEF EndsAt
    <3>3. QED
      BY <3>2
  <2>4. get_nfa_accesses(x, s) = p \o (IF s \notin Labeled(x) THEN <<>> ELSE Entry(e))
    BY <1>6 DEF get_nfa_accesses, b, f, w
  <2>5. WordAt(x, s) = (f + b) * w + w - 4
    BY <1>1, <1>6 DEF WordAt, b, w
  <2>6. e + w - 4 = a + WordAt(x, s)
    BY <2>1, <2>5, <1>1
  <2> HIDE DEF p, e
  <2>7. EndsAt(p \o Entry(e), e + w - 4)
    BY <2>2, <2>3, <1>6, EndsAtEntry, EndsAtConcat DEF w
  <2>8. p \o <<>> \in Seq(Int)
    BY <2>3, ConcatProperties
  <2>9. QED
    BY <2>4, <2>6, <2>7, <2>8 DEF EndsAt
<1>7. QED
  BY <1>3, <1>4, <1>5, <1>6, SimulationFacts

(* Reads are addresses, and the last one for a transition is its word. *)
LEMMA AccessesFacts ==
  ASSUME FaMemoryAssumption, mem \in Simulations, NEW x \in AllStates, address[x] \in Int, NEW s \in Char
  PROVE  /\ Accesses(x, s) \in Seq(Int)
         /\ s \in Labeled(x) => Last(Accesses(x, s)) = address[x] + WordAt(x, s)
<1>1. CASE IsNfa
  BY <1>1, NfaReads DEF Accesses, EndsAt
<1>2. CASE ~IsNfa
  BY <1>2, DfaReads DEF Accesses, EndsAt
<1>3. QED
  BY <1>1, <1>2

(* The words of the transitions of a state are inside, in their order. *)
LEMMA WordAtFacts ==
  ASSUME FaMemoryAssumption, mem \in Simulations, NEW x \in AllStates,
         mem.layout = "BITMAP" => WordsCounted(x)
  PROVE  /\ \A s \in Labeled(x) : WordAt(x, s) \in Nat /\ WordAt(x, s) + 4 <= Bytes(x)
         /\ \A s, u \in Labeled(x) : s < u => WordAt(x, s) < WordAt(x, u)
<1> DEFINE r == RoundUp(Cardinality(Marked(x)), PER_WORD)
           w == Width
           f == One(HasEpsilon(x))
           g == One(HasFirst(x))
           n == num_labeled_tr(x)
           B(s) == Before(x, s)
           unit == IF mem.layout = "INDIRECT_ADDR" THEN w ELSE 4
<1>1. /\ Labeled(x) \in SUBSET Char /\ CSIZE \in Nat
      /\ r \in Nat /\ w \in Nat \ {0} /\ n \in Nat
      /\ f \in 0..1 /\ g \in 0..1 /\ (IsNfa => f = g) /\ (~IsNfa => g = 1)
  <2>1. Labeled(x) \in SUBSET Char /\ n \in Nat
    BY StateFacts
  <2>2. CSIZE \in Nat
    BY SimulationFacts
  <2>3. r \in Nat
    BY CountFacts
  <2>4. w \in Nat \ {0}
    BY WidthFacts
  <2>5. f \in 0..1 /\ g \in 0..1 /\ (IsNfa => f = g) /\ (~IsNfa => g = 1)
    BY DEF One, HasFirst, HasEpsilon
  <2>6. QED
    BY <2>1, <2>2, <2>3, <2>4, <2>5
<1>2. unit \in Nat /\ unit >= 4
  BY <1>1, WidthFacts
<1>3. \A s \in Labeled(x) : B(s) \in Nat /\ B(s) < n
  <2>1. Cardinality(Labeled(x)) <= n /\ Cardinality(Labeled(x)) \in Nat
    BY StateFacts
  <2>2. \A s \in Labeled(x) : B(s) < Cardinality(Labeled(x))
    BY CountFacts
  <2>3. \A s \in Labeled(x) : B(s) \in Nat
    BY CountFacts, <1>1
  <2>4. QED
    BY <2>1, <2>2, <2>3, <1>1
<1>4. \A s, u \in Labeled(x) : s < u => B(s) < B(u)
  BY CountFacts
<1>5. \A s \in Labeled(x) : s \in Nat /\ s < CSIZE
  BY <1>1 DEF Char
<1>6. InFull(x) => /\ Bytes(x) = (CSIZE + f) * unit
                   /\ \A s \in Labeled(x) : WordAt(x, s) = (f + s) * unit + unit - 4
  BY DEF Bytes, FullBytes, WordAt
<1>7. ~InFull(x) /\ mem.layout # "BITMAP" =>
                   /\ Bytes(x) = (n + g) * unit
                   /\ \A s \in Labeled(x) : WordAt(x, s) = (g + B(s)) * unit + unit - 4
  <2>1. ~InFull(x) /\ mem.layout # "BITMAP" => Bytes(x) = (n + g) * unit
    BY SimulationFacts DEF Bytes, OwnBytes
  <2>2. QED
    BY <2>1 DEF WordAt
<1>8. ~InFull(x) /\ mem.layout = "BITMAP" =>
                   /\ Bytes(x) = (1 + r + n + g) * 4
                   /\ \A s \in Labeled(x) : WordAt(x, s) = IF IsNfa THEN (2 * f + r + B(s)) * 4 ELSE (2 + r + B(s)) * 4
  BY DEF Bytes, OwnBytes, WordAt, WordsCounted
<1> HIDE DEF r, w, f, g, n, B, unit
<1>9. \A l, m \in Nat : l < m => l * unit \in Nat /\ l * unit + unit <= m * unit
  <2>1. ASSUME NEW l \in Nat, NEW m \in Nat, l < m
        PROVE  l * unit \in Nat /\ l * unit + unit <= m * unit
    <3>1. unit * l + unit <= unit * m
      BY <2>1, <1>2, MultipleGap
    <3>2. unit * l = l * unit /\ unit * m = m * unit /\ l * unit \in Nat
      BY <2>1, <1>2, ProductGrows
    <3>3. QED
      BY <3>1, <3>2
  <2>2. QED
    BY <2>1
<1>10. CASE InFull(x)
  <2>1. ASSUME NEW s \in Labeled(x)
        PROVE  WordAt(x, s) \in Nat /\ WordAt(x, s) + 4 <= Bytes(x)
    <3>1. f + s \in Nat /\ CSIZE + f \in Nat /\ f + s < CSIZE + f
      BY <1>1, <1>5
    <3>2. (f + s) * unit \in Nat /\ (f + s) * unit + unit <= (CSIZE + f) * unit
      BY <3>1, <1>9
    <3>3. QED
      BY <3>2, <1>2, <1>6, <1>10
  <2>2. ASSUME NEW s \in Labeled(x), NEW u \in Labeled(x), s < u
        PROVE  WordAt(x, s) < WordAt(x, u)
    <3>1. f + s \in Nat /\ f + u \in Nat /\ f + s < f + u /\ f + u < f + u + 1 /\ f + u + 1 \in Nat
      BY <2>2, <1>1, <1>5
    <3>2. (f + s) * unit \in Nat /\ (f + s) * unit + unit <= (f + u) * unit /\ (f + u) * unit \in Nat
      BY <3>1, <1>9
    <3>3. QED
      BY <3>2, <1>2, <1>6, <1>10
  <2>3. QED
    BY <2>1, <2>2
<1>11. CASE ~InFull(x) /\ mem.layout # "BITMAP"
  <2>1. ASSUME NEW s \in Labeled(x)
        PROVE  WordAt(x, s) \in Nat /\ WordAt(x, s) + 4 <= Bytes(x)
    <3>1. g + B(s) \in Nat /\ n + g \in Nat /\ g + B(s) < n + g
      BY <1>1, <1>3
    <3>2. (g + B(s)) * unit \in Nat /\ (g + B(s)) * unit + unit <= (n + g) * unit
      BY <3>1, <1>9
    <3>3. QED
      BY <3>2, <1>2, <1>7, <1>11
  <2>2. ASSUME NEW s \in Labeled(x), NEW u \in Labeled(x), s < u
        PROVE  WordAt(x, s) < WordAt(x, u)
    <3>1. /\ g + B(s) \in Nat /\ g + B(u) \in Nat /\ g + B(s) < g + B(u)
          /\ g + B(u) < g + B(u) + 1 /\ g + B(u) + 1 \in Nat
      BY <2>2, <1>1, <1>3, <1>4
    <3>2. (g + B(s)) * unit \in Nat /\ (g + B(s)) * unit + unit <= (g + B(u)) * unit /\ (g + B(u)) * unit \in Nat
      BY <3>1, <1>9
    <3>3. QED
      BY <3>2, <1>2, <1>7, <1>11
  <2>3. QED
    BY <2>1, <2>2
<1>12. CASE ~InFull(x) /\ mem.layout = "BITMAP"
  <2>1. ASSUME NEW s \in Labeled(x)
        PROVE  WordAt(x, s) \in Nat /\ WordAt(x, s) + 4 <= Bytes(x)
    BY <1>1, <1>3, <1>8, <1>12
  <2>2. ASSUME NEW s \in Labeled(x), NEW u \in Labeled(x), s < u
        PROVE  WordAt(x, s) < WordAt(x, u)
    BY <2>2, <1>1, <1>3, <1>4, <1>8, <1>12
  <2>3. QED
    BY <2>1, <2>2
<1>13. QED
  BY <1>10, <1>11, <1>12

(* Every transition of every layout has a word of its own. *)
LEMMA LaidOutApart ==
  ASSUME FaMemoryAssumption, mem \in Simulations, address = Placed, offset = Offsets
  PROVE  TransitionsApart
<1> DEFINE found == {p \in AllStates \X Char :
                       /\ p[2] \in Labeled(p[1])
                       /\ mem.layout = "BITMAP" => WordsCounted(p[1])}
           Found(p) == Last(Accesses(p[1], p[2]))
<1>1. ASSUME NEW p \in found
      PROVE  /\ p[1] \in AllStates /\ p[2] \in Labeled(p[1]) /\ p[2] \in Nat /\ p = <<p[1], p[2]>>
             /\ mem.layout = "BITMAP" => WordsCounted(p[1])
             /\ Found(p) = Placed[p[1]] + WordAt(p[1], p[2])
             /\ Placed[p[1]] \in Nat /\ Bytes(p[1]) \in Nat
             /\ WordAt(p[1], p[2]) \in Nat /\ WordAt(p[1], p[2]) + 4 <= Bytes(p[1])
  <2>1. /\ p[1] \in AllStates /\ p[2] \in Char /\ p[2] \in Labeled(p[1]) /\ p = <<p[1], p[2]>>
        /\ mem.layout = "BITMAP" => WordsCounted(p[1])
    BY <1>1
  <2>2. Placed[p[1]] \in Nat /\ Bytes(p[1]) \in Nat
    BY <2>1, PlacedFacts, BytesFacts
  <2>3. address[p[1]] \in Int
    BY <2>2
  <2>4. Found(p) = address[p[1]] + WordAt(p[1], p[2])
    BY <2>1, <2>3, AccessesFacts
  <2>5. WordAt(p[1], p[2]) \in Nat /\ WordAt(p[1], p[2]) + 4 <= Bytes(p[1])
    BY <2>1, WordAtFacts
  <2>6. p[2] \in Nat
    BY <2>1, SimulationFacts DEF Char
  <2>7. QED
    BY <2>1, <2>2, <2>4, <2>5, <2>6
<1>2. ASSUME NEW p \in found
      PROVE  Found(p) \in address[p[1]]..address[p[1]] + Bytes(p[1]) - 4
  BY <1>1
<1>3. ASSUME NEW p \in found, NEW q \in found, Found(p) = Found(q)
      PROVE  p = q
  <2> HIDE DEF found, Found
  <2>1. p[1] = q[1]
    <3>1. SUFFICES ASSUME p[1] # q[1] PROVE FALSE
      OBVIOUS
    <3>2. Placed[p[1]] + Bytes(p[1]) <= Placed[q[1]] \/ Placed[q[1]] + Bytes(q[1]) <= Placed[p[1]]
      BY <3>1, <1>1, StatesApart
    <3>3. QED
      BY <3>2, <1>1, <1>3
  <2>2. WordAt(p[1], p[2]) = WordAt(p[1], q[2])
    BY <2>1, <1>1, <1>3
  <2>3. p[2] \in Labeled(p[1]) /\ q[2] \in Labeled(p[1])
    BY <2>1, <1>1
  <2>4. \A s, u \in Labeled(p[1]) : s < u => WordAt(p[1], s) < WordAt(p[1], u)
    BY <1>1, WordAtFacts
  <2>5. p[2] = q[2]
    <3>1. ~(p[2] < q[2]) /\ ~(q[2] < p[2])
      <4>1. WordAt(p[1], p[2]) \in Nat
        BY <1>1
      <4>2. QED
        BY <4>1, <2>2, <2>3, <2>4
    <3>2. QED
      BY <3>1, <1>1
  <2>6. QED
    BY <2>1, <2>5, <1>1
<1>4. ASSUME NEW x \in AllStates, NEW k \in DOMAIN offset, x[1] = k
      PROVE  (allow_def_tx(k, x[2]) <=> ~InFull(x)) \/ IsNfa
  <2>1. x = <<k, x[2]>>
    BY <1>4, StateFacts
  <2>2. allow_def_tx(k, x[2]) <=> Placed[x] >= Offsets[x[1]]
    BY <2>1, <1>4 DEF allow_def_tx
  <2>3. QED
    BY <2>2, FullBeforeOffset
<1> HIDE DEF Found
<1>5. QED
  BY <1>2, <1>3, <1>4 DEF TransitionsApart, Found

(* The states an automaton is in are states, a layout is the one of the     *)
(* simulation, and the cache is a set of lines.                             *)
NoAddress == [x \in {} |-> 0]

LayoutInv ==
  /\ mem \in Simulations
  /\ address = NoAddress \/ (address = Placed /\ offset = Offsets)
  /\ c \in Char \cup {NO_CHAR} /\ (c # NO_CHAR => address = Placed)

ActiveInv ==
  IF IsNfa THEN /\ active \in SUBSET (0..mem.fas[1].size-1)
                /\ c # NO_CHAR => todo \subseteq active
  ELSE /\ active \in [DOMAIN mem.fas -> Int] /\ exact \in [DOMAIN mem.fas -> Int]
       /\ \A k \in DOMAIN mem.fas : active[k] \in 0..mem.fas[k].size-1 /\ exact[k] \in 0..mem.fas[k].size-1
       /\ c # NO_CHAR => todo \subseteq DOMAIN mem.fas

CacheInv ==
  /\ reads \in Seq(Int)
  /\ content \in [0..mem.cache.assoc * mem.cache.lines_per_set - 1 -> Int]
  /\ CacheIsASet

(* What a layout is depends on the simulation alone. *)
LEMMA SameLayout ==
  ASSUME UNCHANGED mem
  PROVE  /\ Placed' = Placed /\ Offsets' = Offsets /\ IsNfa' = IsNfa
         /\ \A S : Closure(S)' = Closure(S)
<1>1. IsNfa' = IsNfa /\ AllStates' = AllStates /\ \A x : Fa(x)' = Fa(x)
  BY DEF IsNfa, AllStates, Fa
<1>2. \A x : /\ HasEpsilon(x)' = HasEpsilon(x)
             /\ num_labeled_tr(x)' = num_labeled_tr(x) /\ Labeled(x)' = Labeled(x)
  BY <1>1 DEF HasEpsilon, num_labeled_tr, Labeled
<1>3. \A x : /\ InFull(x)' = InFull(x) /\ HasFirst(x)' = HasFirst(x)
             /\ BitmapWords(x)' = BitmapWords(x)
  BY <1>1, <1>2 DEF InFull, HasFirst, BitmapWords, bitmap
<1>4. \A x : FullBytes(x)' = FullBytes(x) /\ OwnBytes(x)' = OwnBytes(x)
  BY <1>1, <1>2, <1>3 DEF FullBytes, OwnBytes, Width
<1>5. \A x : Bytes(x)' = Bytes(x) /\ Group(x)' = Group(x)
  BY <1>2, <1>3, <1>4 DEF Bytes, Group
<1>6. \A S : BytesOf(S)' = BytesOf(S)
  BY <1>5 DEF BytesOf
<1>7. \A x, y : Precedes(x, y)' = Precedes(x, y)
  BY <1>5 DEF Precedes
<1>8. Placed' = Placed
  BY <1>1, <1>6, <1>7 DEF Placed
<1>9. Offsets' = Offsets
  BY <1>1, <1>3, <1>6 DEF Offsets
<1>10. \A S : Closure(S)' = Closure(S)
  BY DEF Closure
<1>11. QED
  BY <1>1, <1>8, <1>9, <1>10

(* The states an NFA moves to are states. *)
LEMMA ClosureStates ==
  ASSUME NEW S, NEW k, NEW s
  PROVE  Closure(S) \in SUBSET (0..mem.fas[1].size-1) /\ get_next(k, S, s) \in SUBSET (0..mem.fas[1].size-1)
  BY DEF Closure, get_next

(* A state of a layout is read at addresses. *)
LEMMA ReadsFacts ==
  ASSUME FaMemoryAssumption, mem \in Simulations, address = Placed, NEW x \in AllStates, NEW s \in Char
  PROVE  Accesses(x, s) \in Seq(Int)
<1>1. address[x] \in Int
  BY PlacedFacts
<1>2. QED
  BY <1>1, AccessesFacts

(* The DFA whose turn it is has not processed the character. *)
LEMMA FirstOf ==
  ASSUME FaMemoryAssumption, mem \in Simulations, NEW T \in SUBSET DOMAIN mem.fas, T # {}
  PROVE  (CHOOSE k \in T : \A n \in T : k <= n) \in T
<1>1. T \in SUBSET Nat
  BY SimulationFacts
<1>2. QED
  BY <1>1, LeastElement

(* Where a DFA that is in a state goes on: to the next state, or to a state *)
(* with the same next state.                                                *)
LEMMA NextStateFacts ==
  ASSUME FaMemoryAssumption, mem \in Simulations, ~IsNfa, NEW k \in DOMAIN mem.fas, NEW s \in Char,
         active[k] \in 0..mem.fas[k].size-1
  PROVE  /\ NextState(k, s) \in 0..mem.fas[k].size-1 /\ NextState(k, s) \in Int
         /\ IF Consumed(k, s) THEN NextState(k, s) = mem.fas[k].state_table[active[k]][s]
            ELSE mem.fas[k].state_table[NextState(k, s)][s] = mem.fas[k].state_table[active[k]][s]
<1>1. IsDfa(mem.fas[k]) /\ mem.fas[k].size \in Nat
  BY SimulationFacts
<1>2. mem.fas[k].state_table[active[k]][s] \in 0..mem.fas[k].size-1
  BY <1>1 DEF IsDfa
<1>3. s \notin mem.fas[k].labeled[active[k]] =>
         /\ mem.fas[k].default_tx[active[k]] \in 0..mem.fas[k].size-1
         /\ mem.fas[k].state_table[active[k]][s] = mem.fas[k].state_table[mem.fas[k].default_tx[active[k]]][s]
  BY <1>1 DEF IsDfa
<1>4. ~Consumed(k, s) => s \notin mem.fas[k].labeled[active[k]]
  BY DEF Consumed
<1>5. NextState(k, s) \in 0..mem.fas[k].size-1
  BY <1>2, <1>3, <1>4 DEF NextState
<1>6. NextState(k, s) \in Int
  BY <1>1, <1>5
<1>7. QED
  BY <1>3, <1>4, <1>5, <1>6 DEF NextState

-----------------------------------------------------------------------------
(* The ways of a line: the numbers of lines with its remainder. *)
LEMMA WaysFacts ==
  ASSUME FaMemoryAssumption, mem \in Simulations, NEW a \in Int
  PROVE  LET L == mem.cache.lines_per_set
             N == mem.cache.assoc * mem.cache.lines_per_set
         IN /\ Line(a) \in Int
            /\ Ways(a) \in SUBSET (0..N-1) /\ Ways(a) # {}
            /\ \A v \in 0..N-1 : v \in Ways(a) <=> v % L = Line(a) % L
<1> DEFINE L == mem.cache.lines_per_set
           M == mem.cache.assoc
           N == M * L
           r == Line(a) % L
<1>1. L \in Nat \ {0} /\ M \in Nat \ {0} /\ mem.cache.line_size \in Nat \ {0}
  BY SimulationFacts
<1>2. Line(a) \in Int
  BY <1>1 DEF Line
<1> HIDE DEF L, M
<1>3. r \in 0..L-1
  <2> DEFINE l == Line(a)
  <2>1. l \in Int
    BY <1>2
  <2> HIDE DEF l
  <2>2. l % L \in 0..L-1
    BY <2>1, <1>1
  <2>3. QED
    BY <2>2 DEF l
<1>4. N = L * M /\ N \in Nat
  BY <1>1, ProductGrows
<1> HIDE DEF r, N
<1>5. Ways(a) = {r + j * L : j \in 0..M-1}
  BY DEF Ways, r, L, M
<1>6. ASSUME NEW j \in 0..M-1
      PROVE  r + j * L \in 0..N-1 /\ (r + j * L) % L = r
  <2>1. j \in Nat /\ j * L = L * j
    BY <1>1
  <2>2. r + L * j \in 0..(L * M - 1)
    BY <1>1, <1>3, DigitBounds
  <2> DEFINE v == r + L * j
  <2>3. v \in Nat /\ v % L \in 0..L-1 /\ v \div L \in Nat /\ v = L * (v \div L) + (v % L)
    <3>1. v \in Nat
      BY <2>2, <1>4
    <3> HIDE DEF v
    <3>2. QED
      BY <3>1, <1>1, DivMod
  <2>4. v % L = r
    <3>1. (v % L) + L * (v \div L) = r + L * j
      <4> DEFINE m == v % L
                 d == L * (v \div L)
      <4>1. m \in Nat /\ d \in Nat /\ v = d + m
        <5>1. L * (v \div L) \in Nat
          BY <2>3, <1>1, ProductGrows
        <5>2. QED
          BY <5>1, <2>3, <1>1
      <4> HIDE DEF m, d
      <4>2. m + d = v
        BY <4>1
      <4>3. QED
        BY <4>2 DEF m, d
    <3> DEFINE m == v % L
               d == v \div L
    <3>2. m \in 0..L-1 /\ d \in Nat /\ L \in Nat /\ j \in Nat /\ m + L * d = r + L * j
      BY <3>1, <2>1, <2>3, <1>1
    <3> HIDE DEF v, m, d
    <3>3. m = r
      BY <3>2, <1>3, DigitsUnique
    <3>4. QED
      BY <3>3 DEF m
  <2>5. QED
    BY <2>1, <2>2, <2>4, <1>4
<1>7. Ways(a) \in SUBSET (0..N-1) /\ \A v \in Ways(a) : v % L = r
  BY <1>5, <1>6
<1>8. Ways(a) # {}
  BY <1>1, <1>5
<1>9. ASSUME NEW v \in 0..N-1, v % L = r
      PROVE  v \in Ways(a)
  <2>1. v \in Nat
    BY <1>4
  <2>2. v \div L \in Nat /\ v = L * (v \div L) + (v % L)
    BY <2>1, <1>1, DivMod
  <2> DEFINE j == v \div L
  <2> HIDE DEF j
  <2>3. j \in Nat /\ v = L * j + r
    BY <2>2, <1>9 DEF j
  <2>4. j < M
    <3>1. CASE M <= j
      <4>1. L * M <= L * j
        BY <3>1, <2>3, <1>1, ProductGrows
      <4>2. L * M \in Nat /\ L * j \in Nat
        BY <2>3, <1>1, ProductGrows
      <4>3. QED
        BY <4>1, <4>2, <2>3, <1>3, <1>4
    <3>2. QED
      BY <3>1, <2>3, <1>1
  <2>5. v = r + j * L
    BY <2>3, <1>1, <1>3
  <2>6. j \in 0..M-1
    BY <2>3, <2>4, <1>1
  <2>7. QED
    BY <2>5, <2>6, <1>5
<1>10. QED
  BY <1>2, <1>7, <1>8, <1>9 DEF L, M, N, r

(* A line is put in a way of its set. *)
LEMMA VictimsFacts ==
  ASSUME FaMemoryAssumption, mem \in Simulations, NEW a \in Int
  PROVE  Victims(a) \in SUBSET Ways(a)
<1> DEFINE free == {w \in Ways(a) : content[w] = NO_LINE}
<1>1. Ways(a) \in SUBSET Nat
  BY WaysFacts
<1>2. free # {} => (CHOOSE w \in free : \A v \in free : w <= v) \in free
  <2>1. free \in SUBSET Nat
    BY <1>1
  <2> HIDE DEF free
  <2>2. QED
    BY <2>1, LeastElement
<1>3. QED
  BY <1>2 DEF Victims

(* A read keeps the cache a set of lines. *)
LEMMA ReadKeepsCache ==
  ASSUME FaMemoryAssumption, mem \in Simulations, CacheInv, ReadWord
  PROVE  CacheInv'
<1> DEFINE a == Head(reads)
           L == mem.cache.lines_per_set
           N == mem.cache.assoc * mem.cache.lines_per_set
<1>1. a \in Int /\ reads' \in Seq(Int) /\ UNCHANGED mem
  BY HeadTailProperties DEF CacheInv, ReadWord, memoryVars
<1>2. content \in [0..N-1 -> Int]
  BY DEF CacheInv
<1>3. CASE Hit(a)
  <2>1. UNCHANGED content
    BY <1>3 DEF ReadWord
  <2>2. QED
    BY <2>1, <1>1 DEF CacheInv, CacheIsASet
<1>4. CASE ~Hit(a)
  <2>1. PICK w \in Victims(a) : content' = [content EXCEPT ![w] = Line(a)]
    BY <1>4 DEF ReadWord
  <2>2. w \in Ways(a)
    BY <2>1, <1>1, VictimsFacts
  <2>3. /\ Line(a) \in Int /\ w \in 0..N-1 /\ w % L = Line(a) % L
        /\ \A v \in 0..N-1 : v % L = Line(a) % L => v \in Ways(a)
    BY <2>2, <1>1, WaysFacts
  <2>4. /\ content' \in [0..N-1 -> Int] /\ content'[w] = Line(a)
        /\ \A v \in 0..N-1 : v # w => content'[v] = content[v]
    BY <2>1, <2>3, <1>2
  <2>5. \A v \in 0..N-1 : content[v] # NO_LINE =>
          /\ content[v] % L = v % L
          /\ \A u \in 0..N-1 : content[v] = content[u] => v = u
    BY <1>2 DEF CacheInv, CacheIsASet
  <2>6. \A v \in 0..N-1 : content[v] = Line(a) => Line(a) = NO_LINE
    <3>1. ASSUME NEW v \in 0..N-1, content[v] = Line(a), Line(a) # NO_LINE
          PROVE  FALSE
      <4>1. v % L = Line(a) % L
        BY <3>1, <2>5
      <4>2. v \in Ways(a)
        BY <4>1, <2>3
      <4>3. QED
        BY <4>2, <3>1, <1>4 DEF Hit
    <3>2. QED
      BY <3>1
  <2>7. ASSUME NEW v \in 0..N-1, NEW u \in 0..N-1, content'[v] # NO_LINE
        PROVE  content'[v] % L = v % L /\ (content'[v] = content'[u] => v = u)
    <3> HIDE DEF a, L, N
    <3>1. CASE v = w
      BY <3>1, <2>3, <2>4, <2>6, <2>7
    <3>2. CASE v # w
      BY <3>2, <2>3, <2>4, <2>5, <2>6, <2>7
    <3>3. QED
      BY <3>1, <3>2
  <2>8. CacheIsASet'
    <3>1. DOMAIN content' = 0..N-1
      BY <2>4
    <3>2. QED
      BY <3>1, <2>7, <1>1 DEF CacheIsASet, NO_LINE
  <2>9. QED
    BY <2>4, <2>8, <1>1 DEF CacheInv
<1>5. QED
  BY <1>3, <1>4

(* Rules of the states of an NFA. *)
RulesAt(S) == UNION {RulesOf(1, q) : q \in S}

(* While a character is processed, every automaton that still has to is in *)
(* a state with the next state it is to reach, the others have reached it, *)
(* and only the rules of those that have not are missing.                  *)
RunInv ==
  /\ SimulationIsRun
  /\ c # NO_CHAR /\ ~IsNfa =>
       /\ todo # {} /\ todo \subseteq DOMAIN mem.fas
       /\ \A k \in DOMAIN mem.fas :
            exact[k] = IF k \in todo THEN mem.fas[k].state_table[active[k]][c] ELSE active[k]
  /\ c # NO_CHAR /\ mem.kind = "dfas" =>
       accepted_rules \cup UNION {RulesOf(k, exact[k]) : k \in todo} = exact_rules
  /\ c # NO_CHAR /\ mem.kind = "dfa" => exact_rules \subseteq accepted_rules \cup RulesOf(1, exact[1])
  /\ c # NO_CHAR /\ IsNfa =>
       /\ exact = get_next(1, active, c)
       /\ accepted_rules \cup RulesAt(todo) \cup RulesAt(exact) = exact_rules \cup RulesAt(Closure({0}))

MemoryInv == LayoutInv /\ ActiveInv /\ CacheInv /\ RunInv

LEMMA MemoryInitOK ==
  ASSUME FaMemoryAssumption, FaMemoryInit
  PROVE  MemoryInv
<1>1. mem \in Simulations /\ address = NoAddress /\ c = NO_CHAR
  BY DEF FaMemoryInit, NoAddress
<1>2. LayoutInv
  BY <1>1 DEF LayoutInv
<1>3. ActiveInv
  <2>1. CASE IsNfa
    <3>1. active = Closure({0})
      BY <2>1 DEF FaMemoryInit, IsNfa
    <3>2. QED
      BY <3>1, <2>1, <1>1, ClosureStates DEF ActiveInv
  <2>2. CASE ~IsNfa
    <3>1. active = [k \in DOMAIN mem.fas |-> 0] /\ exact = active
      BY <2>2 DEF FaMemoryInit, IsNfa
    <3>2. \A k \in DOMAIN mem.fas : 0 \in 0..mem.fas[k].size-1
      BY <1>1, SimulationFacts
    <3>3. QED
      BY <3>1, <3>2, <2>2, <1>1 DEF ActiveInv
  <2>3. QED
    BY <2>1, <2>2
<1>4. CacheInv
  <2>1. content = [w \in 0..mem.cache.assoc * mem.cache.lines_per_set - 1 |-> NO_LINE] /\ reads = <<>>
    BY DEF FaMemoryInit
  <2>2. CacheIsASet
    BY <2>1 DEF CacheIsASet
  <2>3. NO_LINE \in Int /\ <<>> \in Seq(Int)
    BY DEF NO_LINE
  <2>4. QED
    BY <2>1, <2>2, <2>3 DEF CacheInv
<1>5. RunInv
  <2>1. accepted_rules = {} /\ exact = active /\ exact_rules = {}
    BY DEF FaMemoryInit
  <2>2. IsNfa => active = Closure({0})
    BY DEF FaMemoryInit, IsNfa
  <2>3. SimulationIsRun
    BY <2>1, <2>2 DEF SimulationIsRun
  <2>4. QED
    BY <2>3, <1>1 DEF RunInv
<1>6. QED
  BY <1>2, <1>3, <1>4, <1>5 DEF MemoryInv

(* A layout, once made, stays. *)
LEMMA LayoutKept ==
  ASSUME FaMemoryAssumption, LayoutInv, FaMemoryNext
  PROVE  LayoutInv' /\ UNCHANGED mem
<1>1. UNCHANGED mem
  BY DEF FaMemoryNext, memoryVars, LayOut, NextChar, ReadWord, DfasStep, DfaStep, NfaStep, NfaAdvance
<1>2. Placed' = Placed /\ Offsets' = Offsets
  BY <1>1, SameLayout
<1>3. (address' = NoAddress \/ (address' = Placed /\ offset' = Offsets)) /\ (address = Placed => address' = Placed)
  BY DEF LayoutInv, FaMemoryNext, memoryVars, LayOut, NextChar, ReadWord, DfasStep, DfaStep, NfaStep, NfaAdvance, NoAddress
<1>4. c' \in Char \cup {NO_CHAR} /\ (c' # NO_CHAR => c # NO_CHAR \/ address = Placed)
  BY DEF LayoutInv, FaMemoryNext, LayOut, NextChar, ReadWord, DfasStep, DfaStep, NfaStep, NfaAdvance, NoAddress
<1>5. Char' = Char /\ NO_CHAR' = NO_CHAR /\ NoAddress' = NoAddress
  BY DEF Char, NO_CHAR, NoAddress
<1>6. QED
  BY <1>1, <1>2, <1>3, <1>4, <1>5 DEF LayoutInv

(* Invariants of variables that a step leaves alone. *)
LEMMA CacheStays ==
  ASSUME CacheInv, UNCHANGED <<mem, content>>, reads' \in Seq(Int)
  PROVE  CacheInv'
  BY DEF CacheInv, CacheIsASet

LEMMA LayOutKeeps ==
  ASSUME FaMemoryAssumption, MemoryInv, LayOut
  PROVE  ActiveInv' /\ CacheInv' /\ RunInv'
<1>1. UNCHANGED <<mem, content, c, todo, reads, active, accepted_rules, exact, exact_rules>>
  BY DEF LayOut, exactVars
<1>2. IsNfa' = IsNfa /\ \A S : Closure(S)' = Closure(S)
  BY <1>1, SameLayout
<1>3. ActiveInv'
  BY <1>1, <1>2 DEF MemoryInv, ActiveInv, NO_CHAR
<1>4. CacheInv'
  BY <1>1, CacheStays DEF MemoryInv, CacheInv
<1>5. RunInv'
  BY <1>1, <1>2 DEF MemoryInv, RunInv, SimulationIsRun, RulesAt, RulesOf, get_next, NO_CHAR
<1>6. QED
  BY <1>3, <1>4, <1>5

LEMMA ReadWordKeeps ==
  ASSUME FaMemoryAssumption, MemoryInv, ReadWord
  PROVE  ActiveInv' /\ CacheInv' /\ RunInv'
<1>1. UNCHANGED <<mem, c, todo, active, accepted_rules, exact, exact_rules>>
  BY DEF ReadWord, memoryVars, exactVars
<1>2. IsNfa' = IsNfa /\ \A S : Closure(S)' = Closure(S)
  BY <1>1, SameLayout
<1>3. ActiveInv'
  BY <1>1, <1>2 DEF MemoryInv, ActiveInv, NO_CHAR
<1>4. CacheInv'
  BY ReadKeepsCache DEF MemoryInv, LayoutInv
<1>5. RunInv'
  BY <1>1, <1>2 DEF MemoryInv, RunInv, SimulationIsRun, RulesAt, RulesOf, get_next, NO_CHAR
<1>6. QED
  BY <1>3, <1>4, <1>5

LEMMA NextCharKeeps ==
  ASSUME FaMemoryAssumption, MemoryInv, NextChar
  PROVE  ActiveInv' /\ CacheInv' /\ RunInv'
<1>1. /\ mem \in Simulations /\ address = Placed /\ c = NO_CHAR /\ c' \in Char /\ c' # NO_CHAR
      /\ UNCHANGED <<mem, content, active, accepted_rules>>
  BY SimulationFacts DEF MemoryInv, LayoutInv, NextChar, NoAddress, memoryVars, Char, NO_CHAR
<1>2. IsNfa' = IsNfa /\ \A S : Closure(S)' = Closure(S)
  BY <1>1, SameLayout
<1>3. /\ active = exact
      /\ mem.kind = "dfas" => accepted_rules = exact_rules
      /\ mem.kind = "dfa" => exact_rules \subseteq accepted_rules
      /\ IsNfa => accepted_rules \cup RulesAt(active) = exact_rules \cup RulesAt(Closure({0}))
  BY <1>1 DEF MemoryInv, RunInv, SimulationIsRun, RulesAt
<1>4. CASE IsNfa
  <2>1. /\ todo' = active /\ reads' = <<>> /\ exact' = get_next(1, exact, c')
        /\ exact_rules' = exact_rules \cup RulesAt(exact')
    BY <1>4 DEF NextChar, RulesAt
  <2>2. ActiveInv'
    BY <2>1, <1>1, <1>2, <1>4 DEF MemoryInv, ActiveInv
  <2>3. CacheInv'
    BY <2>1, <1>1, CacheStays DEF MemoryInv
  <2>4. mem.kind # "dfas" /\ mem.kind # "dfa"
    BY <1>4 DEF IsNfa
  <2>5. /\ exact' = get_next(1, active, c')
        /\ accepted_rules \cup RulesAt(todo') \cup RulesAt(exact') = exact_rules' \cup RulesAt(Closure({0}))
    BY <2>1, <1>3, <1>4
  <2>6. (\A k, q : RulesOf(k, q)' = RulesOf(k, q)) /\ \A S : RulesAt(S)' = RulesAt(S)
    BY <1>1 DEF RulesOf, RulesAt
  <2>7. RulesAt(todo)' = RulesAt(todo') /\ RulesAt(exact)' = RulesAt(exact')
        /\ RulesAt(Closure({0}))' = RulesAt(Closure({0})) /\ get_next(1, active, c)' = get_next(1, active, c')
    BY <2>6, <1>1, <1>2 DEF RulesAt, RulesOf, get_next, Closure
  <2>8. RunInv'
    BY <2>4, <2>5, <2>7, <1>1, <1>2, <1>4 DEF RunInv, SimulationIsRun, NO_CHAR
  <2>9. QED
    BY <2>2, <2>3, <2>8
<1>5. CASE ~IsNfa
  <2>1. /\ todo' = DOMAIN mem.fas /\ reads' = Accesses(<<1, active[1]>>, c')
        /\ exact' = [k \in DOMAIN mem.fas |-> mem.fas[k].state_table[exact[k]][c']]
        /\ exact_rules' = exact_rules \cup UNION {RulesOf(k, exact'[k]) : k \in DOMAIN mem.fas}
    BY <1>5 DEF NextChar
  <2>2. /\ active \in [DOMAIN mem.fas -> Int] /\ exact \in [DOMAIN mem.fas -> Int]
        /\ \A k \in DOMAIN mem.fas : active[k] \in 0..mem.fas[k].size-1 /\ exact[k] \in 0..mem.fas[k].size-1
    BY <1>5 DEF MemoryInv, ActiveInv
  <2>3. \A k \in DOMAIN mem.fas : exact'[k] \in 0..mem.fas[k].size-1 /\ exact'[k] \in Int
    <3>1. ASSUME NEW k \in DOMAIN mem.fas
          PROVE  exact'[k] \in 0..mem.fas[k].size-1 /\ exact'[k] \in Int
      <4>1. mem.fas[k].state_table \in [0..mem.fas[k].size-1 -> [Char -> 0..mem.fas[k].size-1]]
        BY <1>1, <1>5, SimulationFacts DEF IsDfa
      <4>2. mem.fas[k].size \in Nat
        BY <1>1, SimulationFacts
      <4>3. exact'[k] = mem.fas[k].state_table[exact[k]][c']
        BY <2>1
      <4>4. mem.fas[k].state_table[exact[k]] \in [Char -> 0..mem.fas[k].size-1]
        BY <4>1, <2>2
      <4>5. exact'[k] \in 0..mem.fas[k].size-1
        BY <4>3, <4>4, <1>1
      <4>6. QED
        BY <4>2, <4>5
    <3>2. QED
      BY <3>1
  <2>4. ActiveInv'
    <3>1. exact' \in [DOMAIN mem.fas -> Int]
      BY <2>1, <2>3
    <3>2. QED
      BY <3>1, <2>1, <2>2, <2>3, <1>1, <1>2, <1>5 DEF ActiveInv
  <2>5. CacheInv'
    <3>1. 1 \in DOMAIN mem.fas
      BY <1>1, SimulationFacts
    <3>2. <<1, active[1]>> \in AllStates
      BY <3>1, <2>2, IsAState
    <3>3. reads' \in Seq(Int)
      BY <3>2, <2>1, <1>1, ReadsFacts
    <3>4. QED
      BY <3>3, <1>1, CacheStays DEF MemoryInv
  <2>6. /\ UNION {RulesOf(k, exact[k]) : k \in todo}' = UNION {RulesOf(k, exact'[k]) : k \in todo'}
        /\ RulesOf(1, exact[1])' = RulesOf(1, exact'[1])
    BY <1>1 DEF RulesOf
  <2>7. todo' # {} /\ \A k \in DOMAIN mem.fas : exact'[k] = mem.fas[k].state_table[active[k]][c']
    BY <2>1, <1>1, <1>3, SimulationFacts
  <2>8. mem.kind = "dfas" => accepted_rules \cup UNION {RulesOf(k, exact'[k]) : k \in todo'} = exact_rules'
    BY <2>1, <1>3
  <2>9. mem.kind = "dfa" => exact_rules' \subseteq accepted_rules \cup RulesOf(1, exact'[1])
    <3>1. mem.kind = "dfa" => DOMAIN mem.fas = {1}
      BY <1>1, SimulationFacts
    <3>2. QED
      BY <3>1, <2>1, <1>3
  <2>10. RunInv'
    <3>1. SimulationIsRun'
      BY <1>1 DEF SimulationIsRun, NO_CHAR
    <3>2. /\ todo' # {} /\ todo' \subseteq DOMAIN mem.fas'
          /\ \A k \in DOMAIN mem.fas' :
               exact'[k] = IF k \in todo' THEN mem.fas'[k].state_table[active'[k]][c'] ELSE active'[k]
      BY <2>1, <2>7, <1>1
    <3>3. mem.kind' = "dfas" => accepted_rules' \cup UNION {RulesOf(k, exact[k]) : k \in todo}' = exact_rules'
      BY <2>6, <2>8, <1>1
    <3>4. mem.kind' = "dfa" => exact_rules' \subseteq accepted_rules' \cup RulesOf(1, exact[1])'
      BY <2>6, <2>9, <1>1
    <3>5. ~IsNfa'
      BY <1>2, <1>5
    <3>6. QED
      BY <3>1, <3>2, <3>3, <3>4, <3>5 DEF RunInv
  <2>11. QED
    BY <2>4, <2>5, <2>10
<1>6. QED
  BY <1>4, <1>5

(* What a step of DFA k does to the states of all of them. *)
LEMMA DfaMoves ==
  ASSUME FaMemoryAssumption, MemoryInv, ~IsNfa, c # NO_CHAR, UNCHANGED mem, NEW k \in todo,
         active' = [active EXCEPT ![k] = NextState(k, c)], UNCHANGED exact,
         todo' = IF Consumed(k, c) THEN todo \ {k} ELSE todo
  PROVE  /\ k \in DOMAIN mem.fas /\ todo' \subseteq DOMAIN mem.fas
         /\ active' \in [DOMAIN mem.fas -> Int]
         /\ \A j \in DOMAIN mem.fas : active'[j] \in 0..mem.fas[j].size-1
         /\ \A j \in DOMAIN mem.fas : exact[j] = IF j \in todo' THEN mem.fas[j].state_table[active'[j]][c] ELSE active'[j]
         /\ Consumed(k, c) => NextState(k, c) = exact[k]
         /\ c' = NO_CHAR => ActiveInv'
         /\ c' = c => ActiveInv'
<1>1. /\ mem \in Simulations /\ c \in Char
      /\ active \in [DOMAIN mem.fas -> Int] /\ exact \in [DOMAIN mem.fas -> Int]
      /\ \A j \in DOMAIN mem.fas : active[j] \in 0..mem.fas[j].size-1 /\ exact[j] \in 0..mem.fas[j].size-1
  BY DEF MemoryInv, LayoutInv, ActiveInv
<1>2. /\ todo \subseteq DOMAIN mem.fas
      /\ \A j \in DOMAIN mem.fas : exact[j] = IF j \in todo THEN mem.fas[j].state_table[active[j]][c] ELSE active[j]
  BY DEF MemoryInv, RunInv
<1>3. k \in DOMAIN mem.fas /\ todo' \subseteq DOMAIN mem.fas
  BY <1>2
<1>4. /\ NextState(k, c) \in 0..mem.fas[k].size-1 /\ NextState(k, c) \in Int
      /\ IF Consumed(k, c) THEN NextState(k, c) = mem.fas[k].state_table[active[k]][c]
         ELSE mem.fas[k].state_table[NextState(k, c)][c] = mem.fas[k].state_table[active[k]][c]
  BY <1>1, <1>3, NextStateFacts
<1>5. active' \in [DOMAIN mem.fas -> Int] /\ active'[k] = NextState(k, c)
      /\ \A j \in DOMAIN mem.fas : j # k => active'[j] = active[j]
  BY <1>1, <1>3, <1>4
<1>6. \A j \in DOMAIN mem.fas : active'[j] \in 0..mem.fas[j].size-1
  BY <1>1, <1>4, <1>5
<1>7. ASSUME NEW j \in DOMAIN mem.fas
      PROVE  exact[j] = IF j \in todo' THEN mem.fas[j].state_table[active'[j]][c] ELSE active'[j]
  <2>1. CASE j # k
    BY <2>1, <1>2, <1>5
  <2>2. CASE j = k
    BY <2>2, <1>2, <1>4, <1>5
  <2>3. QED
    BY <2>1, <2>2
<1>8. Consumed(k, c) => NextState(k, c) = exact[k]
  BY <1>2, <1>3, <1>4
<1>9. IsNfa' = IsNfa
  BY SameLayout
<1>10. ActiveInv'
  BY <1>1, <1>3, <1>5, <1>6, <1>9 DEF ActiveInv
<1>11. QED
  BY <1>3, <1>5, <1>6, <1>7, <1>8, <1>10

LEMMA DfasStepKeeps ==
  ASSUME FaMemoryAssumption, MemoryInv, DfasStep
  PROVE  ActiveInv' /\ CacheInv' /\ RunInv'
<1> DEFINE k == Turn
           left == IF Consumed(k, c) THEN todo \ {k} ELSE todo
<1>1. /\ mem.kind = "dfas" /\ c # NO_CHAR
      /\ active' = [active EXCEPT ![k] = NextState(k, c)] /\ todo' = left
      /\ accepted_rules' = accepted_rules \cup (IF Consumed(k, c) THEN RulesOf(k, NextState(k, c)) ELSE {})
      /\ reads' = IF left = {} THEN <<>>
                  ELSE LET n == CHOOSE n \in left : \A j \in left : n <= j
                       IN Accesses(<<n, active'[n]>>, c)
      /\ c' = IF left = {} THEN NO_CHAR ELSE c
      /\ UNCHANGED <<mem, content, exact, exact_rules>>
  BY DEF DfasStep, memoryVars, exactVars
<1>2. /\ mem \in Simulations /\ c \in Char /\ address = Placed /\ ~IsNfa
      /\ todo # {} /\ todo \in SUBSET DOMAIN mem.fas
      /\ accepted_rules \cup UNION {RulesOf(j, exact[j]) : j \in todo} = exact_rules
  BY <1>1 DEF MemoryInv, LayoutInv, RunInv, IsNfa
<1>3. k \in todo
  BY <1>2, FirstOf DEF Turn
<1> HIDE DEF k
<1>4. /\ k \in DOMAIN mem.fas /\ todo' \subseteq DOMAIN mem.fas
      /\ active' \in [DOMAIN mem.fas -> Int]
      /\ \A j \in DOMAIN mem.fas : active'[j] \in 0..mem.fas[j].size-1
      /\ \A j \in DOMAIN mem.fas : exact[j] = IF j \in todo' THEN mem.fas[j].state_table[active'[j]][c] ELSE active'[j]
      /\ Consumed(k, c) => NextState(k, c) = exact[k]
      /\ ActiveInv'
  BY <1>1, <1>2, <1>3, DfaMoves
<1>5. CacheInv'
  <2>1. CASE left = {}
    <3>1. reads' \in Seq(Int)
      BY <1>1, <2>1
    <3>2. QED
      BY <3>1, <1>1, CacheStays DEF MemoryInv
  <2>2. CASE left # {}
    <3> DEFINE n == CHOOSE n \in left : \A j \in left : n <= j
    <3>1. n \in left
      <4>1. left \in SUBSET DOMAIN mem.fas
        BY <1>1, <1>4
      <4> HIDE DEF left
      <4>2. QED
        BY <4>1, <2>2, <1>2, FirstOf
    <3>2. n \in DOMAIN mem.fas /\ active'[n] \in 0..mem.fas[n].size-1
      BY <3>1, <1>1, <1>4
    <3>3. reads' = Accesses(<<n, active'[n]>>, c)
      BY <2>2, <1>1
    <3> HIDE DEF n
    <3>4. <<n, active'[n]>> \in AllStates
      BY <3>2, IsAState
    <3>5. reads' \in Seq(Int)
      BY <3>3, <3>4, <1>2, ReadsFacts
    <3>6. QED
      BY <3>5, <1>1, CacheStays DEF MemoryInv
  <2>3. QED
    BY <2>1, <2>2
<1>6. accepted_rules' \cup UNION {RulesOf(j, exact[j]) : j \in todo'} = exact_rules
  <2>1. CASE Consumed(k, c)
    <3>1. accepted_rules' = accepted_rules \cup RulesOf(k, exact[k]) /\ todo' = todo \ {k}
      BY <2>1, <1>1, <1>4
    <3>2. QED
      BY <3>1, <1>2, <1>3
  <2>2. CASE ~Consumed(k, c)
    BY <2>2, <1>1, <1>2
  <2>3. QED
    BY <2>1, <2>2
<1>7. IsNfa' = IsNfa /\ mem.kind' = "dfas" /\ mem.kind' # "dfa" /\ ~IsNfa'
  BY <1>1, <1>2, SameLayout
<1>8. UNION {RulesOf(j, exact[j]) : j \in todo}' = UNION {RulesOf(j, exact[j]) : j \in todo'}
  BY <1>1 DEF RulesOf
<1>9. CASE left = {}
  <2>1. c' = NO_CHAR /\ todo' = {} /\ accepted_rules' = exact_rules
    BY <1>1, <1>6, <1>9
  <2>2. active' = exact
    <3>1. exact \in [DOMAIN mem.fas -> Int]
      BY <1>2 DEF MemoryInv, ActiveInv
    <3>2. \A j \in DOMAIN mem.fas : active'[j] = exact[j]
      BY <2>1, <1>4
    <3>3. QED
      BY <3>1, <3>2, <1>4
  <2>3. SimulationIsRun'
    BY <2>1, <2>2, <1>1, <1>7 DEF SimulationIsRun
  <2>4. RunInv'
    BY <2>1, <2>3, <1>7 DEF RunInv, NO_CHAR
  <2>5. QED
    BY <2>4, <1>4, <1>5
<1>10. CASE left # {}
  <2>1. c' = c /\ todo' # {}
    BY <1>1, <1>10
  <2>2. SimulationIsRun'
    BY <2>1, <1>1 DEF SimulationIsRun, NO_CHAR
  <2>3. \A j \in DOMAIN mem.fas' : exact'[j] = IF j \in todo' THEN mem.fas'[j].state_table[active'[j]][c'] ELSE active'[j]
    BY <2>1, <1>1, <1>4
  <2>4. accepted_rules' \cup UNION {RulesOf(j, exact[j]) : j \in todo}' = exact_rules'
    BY <1>1, <1>6, <1>8
  <2>5. todo' \subseteq DOMAIN mem.fas'
    BY <1>1, <1>4
  <2>6. RunInv'
    BY <2>1, <2>2, <2>3, <2>4, <2>5, <1>7 DEF RunInv
  <2>7. QED
    BY <2>6, <1>4, <1>5
<1>11. QED
  BY <1>9, <1>10

LEMMA DfaStepKeeps ==
  ASSUME FaMemoryAssumption, MemoryInv, DfaStep
  PROVE  ActiveInv' /\ CacheInv' /\ RunInv'
<1>1. /\ mem.kind = "dfa" /\ c # NO_CHAR
      /\ active' = [active EXCEPT ![1] = NextState(1, c)]
      /\ accepted_rules' = accepted_rules \cup RulesOf(1, NextState(1, c))
      /\ IF Consumed(1, c) THEN todo' = {} /\ c' = NO_CHAR /\ reads' = <<>>
         ELSE todo' = todo /\ c' = c /\ reads' = Accesses(<<1, active'[1]>>, c)
      /\ UNCHANGED <<mem, content, exact, exact_rules>>
  BY DEF DfaStep, memoryVars, exactVars
<1>2. /\ mem \in Simulations /\ c \in Char /\ address = Placed /\ ~IsNfa
      /\ todo # {} /\ todo \in SUBSET DOMAIN mem.fas
      /\ exact_rules \subseteq accepted_rules \cup RulesOf(1, exact[1])
  BY <1>1 DEF MemoryInv, LayoutInv, RunInv, IsNfa
<1>3. DOMAIN mem.fas = {1} /\ todo = {1}
  <2>1. DOMAIN mem.fas = 1..1
    BY <1>1, <1>2, SimulationFacts
  <2>2. 1..1 = {1}
    OBVIOUS
  <2>3. QED
    BY <2>1, <2>2, <1>2
<1>4. /\ todo' \subseteq DOMAIN mem.fas
      /\ active' \in [DOMAIN mem.fas -> Int]
      /\ \A j \in DOMAIN mem.fas : active'[j] \in 0..mem.fas[j].size-1
      /\ \A j \in DOMAIN mem.fas : exact[j] = IF j \in todo' THEN mem.fas[j].state_table[active'[j]][c] ELSE active'[j]
      /\ Consumed(1, c) => NextState(1, c) = exact[1]
      /\ ActiveInv'
  <2>1. todo' = IF Consumed(1, c) THEN todo \ {1} ELSE todo
    BY <1>1, <1>3
  <2>2. 1 \in todo
    BY <1>3
  <2>3. c' = NO_CHAR \/ c' = c
    BY <1>1
  <2>4. QED
    BY <2>1, <2>2, <2>3, <1>1, <1>2, DfaMoves
<1>5. IsNfa' = IsNfa /\ mem.kind' = "dfa" /\ mem.kind' # "dfas" /\ ~IsNfa'
  BY <1>1, <1>2, SameLayout
<1>6. CASE Consumed(1, c)
  <2>1. CacheInv'
    <3>1. reads' \in Seq(Int)
      BY <1>1, <1>6
    <3>2. QED
      BY <3>1, <1>1, CacheStays DEF MemoryInv
  <2>2. c' = NO_CHAR /\ todo' = {} /\ exact_rules \subseteq accepted_rules'
    BY <1>1, <1>2, <1>4, <1>6
  <2>3. active' = exact
    <3>1. exact \in [DOMAIN mem.fas -> Int]
      BY <1>2 DEF MemoryInv, ActiveInv
    <3>2. \A j \in DOMAIN mem.fas : active'[j] = exact[j]
      BY <2>2, <1>4
    <3>3. QED
      BY <3>1, <3>2, <1>4
  <2>4. SimulationIsRun'
    BY <2>2, <2>3, <1>1, <1>5 DEF SimulationIsRun
  <2>5. RunInv'
    BY <2>2, <2>4, <1>5 DEF RunInv, NO_CHAR
  <2>6. QED
    BY <2>1, <2>5, <1>4
<1>7. CASE ~Consumed(1, c)
  <2>1. c' = c /\ todo' = todo /\ reads' = Accesses(<<1, active'[1]>>, c)
    BY <1>1, <1>7
  <2>2. CacheInv'
    <3>1. <<1, active'[1]>> \in AllStates
      BY <1>3, <1>4, IsAState
    <3>2. reads' \in Seq(Int)
      BY <3>1, <2>1, <1>2, ReadsFacts
    <3>3. QED
      BY <3>2, <1>1, CacheStays DEF MemoryInv
  <2>3. SimulationIsRun'
    BY <2>1, <1>1 DEF SimulationIsRun, NO_CHAR
  <2>4. \A j \in DOMAIN mem.fas' : exact'[j] = IF j \in todo' THEN mem.fas'[j].state_table[active'[j]][c'] ELSE active'[j]
    BY <2>1, <1>1, <1>4
  <2>5. exact_rules' \subseteq accepted_rules' \cup RulesOf(1, exact[1])'
    <3>1. RulesOf(1, exact[1])' = RulesOf(1, exact[1])
      BY <1>1 DEF RulesOf
    <3>2. QED
      BY <3>1, <1>1, <1>2
  <2>6. todo' # {} /\ todo' \subseteq DOMAIN mem.fas'
    BY <2>1, <1>1, <1>2
  <2>7. RunInv'
    BY <2>1, <2>3, <2>4, <2>5, <2>6, <1>5 DEF RunInv
  <2>8. QED
    BY <2>2, <2>7, <1>4
<1>8. QED
  BY <1>6, <1>7

LEMMA NfaStepKeeps ==
  ASSUME FaMemoryAssumption, MemoryInv, NfaStep
  PROVE  ActiveInv' /\ CacheInv' /\ RunInv'
<1>1. /\ IsNfa /\ c # NO_CHAR
      /\ UNCHANGED <<mem, content, c, active, exact, exact_rules>>
  BY DEF NfaStep, memoryVars, exactVars
<1>2. PICK q \in todo : /\ todo' = todo \ {q}
                        /\ reads' = Accesses(<<1, q>>, c)
                        /\ accepted_rules' = accepted_rules \cup RulesOf(1, q)
  BY DEF NfaStep
<1>3. /\ mem \in Simulations /\ c \in Char /\ address = Placed
      /\ active \in SUBSET (0..mem.fas[1].size-1) /\ todo \subseteq active
      /\ exact = get_next(1, active, c)
      /\ accepted_rules \cup RulesAt(todo) \cup RulesAt(exact) = exact_rules \cup RulesAt(Closure({0}))
  BY <1>1 DEF MemoryInv, LayoutInv, ActiveInv, RunInv
<1>4. IsNfa' = IsNfa /\ \A S : Closure(S)' = Closure(S)
  BY <1>1, SameLayout
<1>5. ActiveInv'
  BY <1>1, <1>2, <1>3, <1>4 DEF ActiveInv
<1>6. CacheInv'
  <2>1. 1 \in DOMAIN mem.fas /\ q \in 0..mem.fas[1].size-1
    <3>1. 1 \in DOMAIN mem.fas
      BY <1>3, SimulationFacts
    <3>2. q \in active
      BY <1>2, <1>3
    <3>3. QED
      BY <3>1, <3>2, <1>3
  <2>2. <<1, q>> \in AllStates
    BY <2>1, IsAState
  <2>3. reads' \in Seq(Int)
    BY <2>2, <1>2, <1>3, ReadsFacts
  <2>4. QED
    BY <2>3, <1>1, CacheStays DEF MemoryInv
<1>7. RunInv'
  <2>1. SimulationIsRun'
    BY <1>1 DEF SimulationIsRun, NO_CHAR
  <2>2. RulesAt(todo) = RulesAt(todo \ {q}) \cup RulesOf(1, q)
    BY <1>2 DEF RulesAt
  <2>3. accepted_rules' \cup RulesAt(todo \ {q}) \cup RulesAt(exact) = exact_rules \cup RulesAt(Closure({0}))
    BY <2>2, <1>2, <1>3
  <2>4. /\ RulesAt(todo)' = RulesAt(todo \ {q}) /\ RulesAt(exact)' = RulesAt(exact)
        /\ RulesAt(Closure({0}))' = RulesAt(Closure({0})) /\ get_next(1, active, c)' = get_next(1, active, c)
    BY <1>1, <1>2, <1>4 DEF RulesAt, RulesOf, get_next
  <2>5. mem.kind' # "dfas" /\ mem.kind' # "dfa" /\ IsNfa'
    BY <1>1, <1>4 DEF IsNfa
  <2>6. QED
    BY <2>1, <2>3, <2>4, <2>5, <1>1, <1>3 DEF RunInv
<1>8. QED
  BY <1>5, <1>6, <1>7

LEMMA NfaAdvanceKeeps ==
  ASSUME FaMemoryAssumption, MemoryInv, NfaAdvance
  PROVE  ActiveInv' /\ CacheInv' /\ RunInv'
<1>1. /\ IsNfa /\ c # NO_CHAR /\ todo = {} /\ c' = NO_CHAR /\ active' = get_next(1, active, c)
      /\ UNCHANGED <<mem, content, todo, reads, accepted_rules, exact, exact_rules>>
  BY DEF NfaAdvance, memoryVars, exactVars
<1>2. /\ exact = get_next(1, active, c)
      /\ accepted_rules \cup RulesAt(todo) \cup RulesAt(exact) = exact_rules \cup RulesAt(Closure({0}))
  BY <1>1 DEF MemoryInv, RunInv
<1>3. IsNfa' = IsNfa /\ \A S : Closure(S)' = Closure(S)
  BY <1>1, SameLayout
<1>4. ActiveInv'
  <2>1. active' \in SUBSET (0..mem.fas[1].size-1)
    BY <1>1, ClosureStates
  <2>2. QED
    BY <2>1, <1>1, <1>3 DEF ActiveInv, NO_CHAR
<1>5. CacheInv'
  BY <1>1, CacheStays DEF MemoryInv, CacheInv
<1>6. RunInv'
  <2>1. active' = exact /\ accepted_rules \cup RulesAt(exact) = exact_rules \cup RulesAt(Closure({0}))
    BY <1>1, <1>2 DEF RulesAt
  <2>2. mem.kind' # "dfas" /\ mem.kind' # "dfa" /\ IsNfa'
    BY <1>1, <1>3 DEF IsNfa
  <2>3. /\ UNION {RulesOf(1, q) : q \in active}' = RulesAt(active')
        /\ UNION {RulesOf(1, q) : q \in Closure({0})}' = RulesAt(Closure({0}))
    BY <1>1, <1>3 DEF RulesAt, RulesOf
  <2>4. SimulationIsRun'
    BY <2>1, <2>2, <2>3, <1>1 DEF SimulationIsRun
  <2>5. QED
    BY <2>4, <1>1 DEF RunInv, NO_CHAR
<1>7. QED
  BY <1>4, <1>5, <1>6

LEMMA MemoryStepOK ==
  ASSUME FaMemoryAssumption, MemoryInv, [FaMemoryNext]_faMemoryVars
  PROVE  MemoryInv'
<1>1. CASE FaMemoryNext
  <2>1. LayoutInv'
    BY <1>1, LayoutKept DEF MemoryInv
  <2>2. ActiveInv' /\ CacheInv' /\ RunInv'
    BY <1>1, LayOutKeeps, NextCharKeeps, ReadWordKeeps, DfasStepKeeps, DfaStepKeeps, NfaStepKeeps, NfaAdvanceKeeps
       DEF FaMemoryNext
  <2>3. QED
    BY <2>1, <2>2 DEF MemoryInv
<1>2. CASE UNCHANGED faMemoryVars
  <2>1. UNCHANGED <<mem, address, offset, content, c, todo, reads, active, accepted_rules, exact, exact_rules>>
    BY <1>2 DEF faMemoryVars, memoryVars, exactVars
  <2>2. Placed' = Placed /\ Offsets' = Offsets /\ IsNfa' = IsNfa /\ \A S : Closure(S)' = Closure(S)
    BY <2>1, SameLayout
  <2>3. LayoutInv'
    BY <2>1, <2>2 DEF MemoryInv, LayoutInv, NoAddress, Char, NO_CHAR
  <2>4. ActiveInv'
    BY <2>1, <2>2 DEF MemoryInv, ActiveInv, NO_CHAR
  <2>5. CacheInv'
    BY <2>1, CacheStays DEF MemoryInv, CacheInv
  <2>6. RunInv'
    BY <2>1, <2>2 DEF MemoryInv, RunInv, SimulationIsRun, RulesAt, RulesOf, get_next, NO_CHAR
  <2>7. QED
    BY <2>3, <2>4, <2>5, <2>6 DEF MemoryInv
<1>3. QED
  BY <1>1, <1>2

-----------------------------------------------------------------------------
(* cache.c: no line is twice in the cache and every line is in a way of its *)
(* set, for every layout and size of the cache and every trace.             *)
THEOREM CacheStaysASet == FaMemorySpec => []CacheIsASet
<1>1. FaMemoryInit => MemoryInv
  BY MemoryInitOK, SimulationsAssumption
<1>2. MemoryInv /\ [FaMemoryNext]_faMemoryVars => MemoryInv'
  BY MemoryStepOK, SimulationsAssumption
<1>3. MemoryInv => CacheIsASet
  BY DEF MemoryInv, CacheInv
<1>4. QED
  BY <1>1, <1>2, <1>3, PTL DEF FaMemorySpec

(* trace.c: when a character has been processed, the simulation of every    *)
(* layout is where the automata are, with their rules: following default    *)
(* transitions, or taking the table of a state in full, leads to the same   *)
(* state.                                                                   *)
THEOREM SimulationRuns == FaMemorySpec => []SimulationIsRun
<1>1. FaMemoryInit => MemoryInv
  BY MemoryInitOK, SimulationsAssumption
<1>2. MemoryInv /\ [FaMemoryNext]_faMemoryVars => MemoryInv'
  BY MemoryStepOK, SimulationsAssumption
<1>3. MemoryInv => SimulationIsRun
  BY DEF MemoryInv, RunInv
<1>4. QED
  BY <1>1, <1>2, <1>3, PTL DEF FaMemorySpec

(* fa_memory.c and dfas_memory.c: in every layout of every set of automata, *)
(* states do not overlap, every transition has a word of its own that the   *)
(* readers find, and the states of a DFA in front of its offset are the     *)
(* ones in full.                                                            *)
THEOREM LayoutIsApart == FaMemorySpec => []TransitionsApart
<1>1. FaMemoryInit => MemoryInv
  BY MemoryInitOK, SimulationsAssumption
<1>2. MemoryInv /\ [FaMemoryNext]_faMemoryVars => MemoryInv'
  BY MemoryStepOK, SimulationsAssumption
<1>3. MemoryInv => TransitionsApart
  <2>1. ASSUME MemoryInv, address # NoAddress
        PROVE  TransitionsApart
    BY <2>1, LaidOutApart, SimulationsAssumption DEF MemoryInv, LayoutInv
  <2>2. ASSUME address = NoAddress
        PROVE  TransitionsApart
    BY <2>2 DEF TransitionsApart, NoAddress
  <2>3. QED
    BY <2>1, <2>2
<1>4. QED
  BY <1>1, <1>2, <1>3, PTL DEF FaMemorySpec

-----------------------------------------------------------------------------
(* The trace servers *)
Conns == UNION {Connections(p) : p \in Program}

ServerTypeOK ==
  /\ kind \in {"threads", "forked"} /\ load \in Seq(Nat \ {0})
  /\ backlog \in Seq(Conns)
  /\ DOMAIN accepted \subseteq Conns /\ accepted \in [DOMAIN accepted -> Server]
  /\ inbox \in [Conns -> Seq(Nat)] /\ eof \subseteq Conns
  /\ client \in [Program -> [pc : {"connect", "send", "closed", "killed"},
                             index : Nat, k : Nat, sent : Nat]]
  /\ main \in {"accept", "create", "wait"} /\ param \in 0..num_servers
  /\ doing \in [Server -> {"idle", "recv", "traverse", "stopped"}]
  /\ socket_id \in [Server -> Conns \cup {BAD_SOCKET}]
  /\ trace \in [Server -> Seq(Nat)] /\ index \in [Server -> Int]
  /\ done \in [Server -> BOOLEAN]

(* A thread that works has not set its flag, a flag the main thread has    *)
(* passed is set, and the flags of threads that are to be created are not. *)
Flags ==
  /\ kind = "threads" =>
       /\ \A n \in Server : Running(n) => ~done[n]
       /\ main = "accept" => \A n \in Server : ~Running(n) /\ ~done[n]
       /\ main = "create" => \A n \in Server : n = 0 \/ n >= param => ~Running(n) /\ ~done[n]
       /\ main = "wait" => \A n \in Server : n < param => done[n]
  /\ main = "create" => param >= 1

(* Every connection waits at most once and is accepted at most once: those *)
(* a client has not asked for are neither waiting nor accepted.            *)
Sockets ==
  /\ \A n \in Server : socket_id[n] # BAD_SOCKET =>
       socket_id[n] \in DOMAIN accepted /\ accepted[socket_id[n]] = n
  /\ \A j \in 1..Len(backlog) :
       /\ backlog[j] \notin DOMAIN accepted
       /\ \A l \in 1..Len(backlog) : backlog[j] = backlog[l] => j = l
  /\ \A p \in Program : client[p].pc = "connect" =>
       \A k \in Nat : k >= client[p].k =>
         /\ <<p, k>> \notin DOMAIN accepted
         /\ \A j \in 1..Len(backlog) : backlog[j] # <<p, k>>

(* Where a client is in the trace. *)
ClientOK(p) ==
  LET cl == client[p] IN
  /\ cl.pc \in {"connect", "send"} => cl.k < load[p]
  /\ cl.pc = "connect" => cl.index = 0 /\ cl.sent = 0
  /\ cl.pc = "send" => cl.index < tracesize /\ cl.sent < Piece(p)

ClientInv ==
  /\ \A p \in Program : ClientOK(p)
  /\ \A cn \in eof : client[cn[1]].pc \in {"closed", "killed"}

(* The units a client has sent on a connection. *)
Units(cn) ==
  LET cl == client[cn[1]] IN
  IF cl.pc = "connect" THEN 0
  ELSE IF cl.pc = "closed" THEN tracesize
  ELSE IF cn[2] < cl.k THEN cl.index + Piece(cn[1])
  ELSE IF cn[2] = cl.k THEN cl.index + cl.sent
  ELSE cl.index

(* When b units have been received, those that have arrived continue them, *)
(* and together they are all that has been sent.                           *)
Intact(cn, b) ==
  /\ \A j \in 1..Len(inbox[cn]) : inbox[cn][j] = b + j
  /\ client[cn[1]].pc # "killed" => b + Len(inbox[cn]) = Units(cn)

(* A thread whose connection has been accepted but that is not created. *)
Waiting(n) ==
  /\ kind = "threads"
  /\ (main = "accept" /\ n < param) \/ (main = "create" /\ (n = 0 \/ n >= param))

(* Nothing has been received on a connection. *)
Fresh(cn) ==
  \/ cn \notin DOMAIN accepted
  \/ \E n \in Server : socket_id[n] = cn /\ Waiting(n)

Received(n) ==
  /\ index[n] = Len(trace[n])
  /\ \A k \in 1..Len(trace[n]) : trace[n][k] = k
  /\ Intact(socket_id[n], index[n])
  /\ doing[n] = "traverse" /\ client[socket_id[n][1]].pc # "killed" => index[n] = tracesize

DataInv ==
  /\ \A cn \in Conns : Fresh(cn) => Intact(cn, 0)
  /\ \A n \in Server : Running(n) /\ socket_id[n] # BAD_SOCKET => Received(n)

ServerInv == ServerTypeOK /\ Flags /\ Sockets /\ ClientInv /\ DataInv

-----------------------------------------------------------------------------
(* A connection belongs to a client, and none is the bad socket. *)
LEMMA ConnFacts ==
  ASSUME load \in Seq(Nat \ {0}), NEW cn \in Conns
  PROVE  /\ cn[1] \in Program /\ cn[2] \in Nat /\ cn[2] < load[cn[1]] /\ cn = <<cn[1], cn[2]>>
         /\ cn # BAD_SOCKET
<1>1. PICK p \in Program : \E k \in 0..load[p]-1 : cn = <<p, k>>
  BY DEF Conns, Connections
<1>3. PICK k \in 0..load[p]-1 : cn = <<p, k>>
  BY <1>1
<1>2. Program = 1..Len(load) /\ Len(load) \in Nat /\ load[p] \in Nat
  BY <1>1, LenProperties, ElementOfSeq DEF Program
<1> QED BY <1>1, <1>2, <1>3 DEF BAD_SOCKET

(* And every number below num_clients is a connection. *)
LEMMA ConnIn ==
  ASSUME load \in Seq(Nat \ {0}), NEW p \in Program, NEW k \in Nat, k < load[p]
  PROVE  <<p, k>> \in Conns
<1>1. load[p] \in Nat BY LenProperties, ElementOfSeq DEF Program
<1>2. k \in 0..load[p]-1 BY <1>1
<1>3. <<p, k>> \in Connections(p) BY <1>2 DEF Connections
<1> QED BY <1>3 DEF Conns

(* Two servers never have the same connection. *)
LEMMA SocketsDiffer ==
  ASSUME Sockets, NEW m \in Server, NEW n \in Server,
         socket_id[m] = socket_id[n], socket_id[m] # BAD_SOCKET
  PROVE  m = n
BY DEF Sockets

(* Nothing is connected, accepted or sent at first. *)
LEMMA ServerInvInit == ServerInit => ServerInv
<1> SUFFICES ASSUME ServerInit PROVE ServerInv OBVIOUS
<1> USE ServerAssumption DEF ServerInit
<1>1. kind \in {"threads", "forked"} /\ load \in Seq(Nat \ {0}) OBVIOUS
<1>2. /\ inbox = [cn \in Conns |-> <<>>] /\ backlog = <<>> /\ DOMAIN accepted = {} /\ eof = {}
      /\ accepted \in [DOMAIN accepted -> Server] /\ Len(backlog) = 0
  BY DEF Conns
<1>3. \A p \in Program : client[p] = [pc |-> "connect", index |-> 0, k |-> 0, sent |-> 0]
  OBVIOUS
<1>4. ServerTypeOK
  <2>1. inbox \in [Conns -> Seq(Nat)] /\ backlog \in Seq(Conns) BY <1>2, EmptySeq
  <2>2. trace \in [Server -> Seq(Nat)] BY EmptySeq
  <2> QED BY <1>1, <1>2, <2>1, <2>2 DEF ServerTypeOK
<1>5. Flags BY DEF Flags, Running
<1>6. Sockets
  <2>1. \A n \in Server : socket_id[n] = BAD_SOCKET OBVIOUS
  <2>2. 1..Len(backlog) = {} BY <1>2
  <2> QED BY <1>2, <2>1, <2>2 DEF Sockets
<1>7. ClientInv
  <2>1. \A p \in Program : load[p] \in Nat \ {0}
    BY <1>1, LenProperties, ElementOfSeq DEF Program
  <2> QED BY <1>2, <1>3, <2>1 DEF ClientInv, ClientOK
<1>8. DataInv
  <2>1. ASSUME NEW cn \in Conns PROVE Intact(cn, 0)
    <3>1. inbox[cn] = <<>> /\ client[cn[1]].pc = "connect" BY <1>1, <1>2, <1>3, ConnFacts
    <3>2. Len(inbox[cn]) = 0 BY <3>1
    <3>3. Units(cn) = 0 BY <3>1 DEF Units
    <3> HIDE DEF ServerInit
    <3> QED BY <3>2, <3>3 DEF Intact
  <2> QED BY <2>1 DEF DataInv, Running
<1> QED BY <1>4, <1>5, <1>6, <1>7, <1>8 DEF ServerInv

-----------------------------------------------------------------------------
(* What depends on the load and the clients only. *)
LEMMA SameConns ==
  ASSUME load' = load
  PROVE  Conns' = Conns /\ Program' = Program /\ \A p : Connections(p)' = Connections(p)
BY DEF Conns, Connections, Program

(* A connection that is accepted is new, and nobody else's. *)
LEMMA AcceptFacts ==
  ASSUME ServerInv, NEW n \in Server, accept(n), UNCHANGED <<load, client>>
  PROVE  /\ backlog' \in Seq(Conns)
         /\ DOMAIN accepted' \subseteq Conns /\ accepted' \in [DOMAIN accepted' -> Server]
         /\ socket_id' \in [Server -> Conns \cup {BAD_SOCKET}]
         /\ Sockets'
         /\ \A m \in Server : m # n => socket_id'[m] = socket_id[m]
         /\ DOMAIN accepted \subseteq DOMAIN accepted'
         /\ socket_id'[n] # BAD_SOCKET => socket_id'[n] \in Conns /\ socket_id'[n] \notin DOMAIN accepted
<1>1. ServerTypeOK /\ Sockets BY DEF ServerInv
<1>2. Program' = Program /\ Conns' = Conns BY SameConns
<1>3. CASE NoFile(n)
  <2>1. socket_id' = [socket_id EXCEPT ![n] = BAD_SOCKET] /\ backlog' = backlog /\ accepted' = accepted
    BY <1>3 DEF accept
  <2>2. Sockets' BY <1>1, <1>2, <2>1 DEF Sockets, ServerTypeOK
  <2> QED BY <1>1, <2>1, <2>2 DEF ServerTypeOK
<1>4. CASE ~NoFile(n)
  <2> DEFINE h == Head(backlog)
  <2>1. /\ backlog # <<>> /\ socket_id' = [socket_id EXCEPT ![n] = h]
        /\ accepted' = [cn \in DOMAIN accepted \cup {h} |-> IF cn = h THEN n ELSE accepted[cn]]
        /\ backlog' = Tail(backlog)
    BY <1>4 DEF accept
  <2>2. backlog \in Seq(Conns) BY <1>1 DEF ServerTypeOK
  <2>3. /\ Len(backlog) \in Nat \ {0} /\ h = backlog[1] /\ h \in Conns
        /\ backlog' \in Seq(Conns) /\ Len(backlog') = Len(backlog) - 1
        /\ \A j \in 1..Len(backlog') : backlog'[j] = backlog[j + 1]
    BY <2>1, <2>2, LenProperties, EmptySeq, HeadTailProperties
  <2>4. h \notin DOMAIN accepted BY <1>1, <2>3 DEF Sockets
  <2> HIDE DEF h
  <2>5. DOMAIN accepted' = DOMAIN accepted \cup {h} /\ accepted'[h] = n
        /\ \A cn \in DOMAIN accepted : accepted'[cn] = accepted[cn]
    BY <2>1, <2>4
  <2>6. DOMAIN accepted' \subseteq Conns /\ accepted' \in [DOMAIN accepted' -> Server]
    BY <1>1, <2>1, <2>3, <2>5 DEF ServerTypeOK
  <2>7. socket_id' \in [Server -> Conns \cup {BAD_SOCKET}] /\ socket_id'[n] = h
        /\ \A m \in Server : m # n => socket_id'[m] = socket_id[m]
    BY <1>1, <2>1, <2>3 DEF ServerTypeOK
  <2>8. ASSUME NEW m \in Server, socket_id'[m] # BAD_SOCKET
        PROVE  socket_id'[m] \in DOMAIN accepted' /\ accepted'[socket_id'[m]] = m
    <3>1. CASE m = n BY <2>5, <2>7, <3>1
    <3>2. CASE m # n BY <1>1, <2>5, <2>7, <2>8, <3>2 DEF Sockets
    <3> QED BY <3>1, <3>2
  <2>9. ASSUME NEW j \in 1..Len(backlog')
        PROVE  /\ backlog'[j] \notin DOMAIN accepted'
               /\ \A l \in 1..Len(backlog') : backlog'[j] = backlog'[l] => j = l
    <3>1. j + 1 \in 1..Len(backlog) /\ 1 \in 1..Len(backlog) /\ j + 1 # 1 BY <2>3
    <3>2. backlog'[j] = backlog[j + 1] BY <2>3
    <3>3. backlog[j + 1] \notin DOMAIN accepted /\ backlog[j + 1] # h
      BY <1>1, <2>3, <3>1 DEF Sockets
    <3>4. ASSUME NEW l \in 1..Len(backlog'), backlog'[j] = backlog'[l] PROVE j = l
      <4>1. l + 1 \in 1..Len(backlog) /\ backlog'[l] = backlog[l + 1] BY <2>3
      <4>2. j + 1 = l + 1 BY <1>1, <3>1, <3>2, <3>4, <4>1 DEF Sockets
      <4> QED BY <2>3, <4>2
    <3> QED BY <2>5, <3>2, <3>3, <3>4
  <2>10. ASSUME NEW p \in Program, client[p].pc = "connect", NEW k \in Nat, k >= client[p].k
         PROVE  /\ <<p, k>> \notin DOMAIN accepted'
                /\ \A j \in 1..Len(backlog') : backlog'[j] # <<p, k>>
    <3>1. <<p, k>> \notin DOMAIN accepted /\ \A j \in 1..Len(backlog) : backlog[j] # <<p, k>>
      BY <1>1, <2>10 DEF Sockets
    <3>2. <<p, k>> # h BY <2>3, <3>1
    <3>3. \A j \in 1..Len(backlog') : j + 1 \in 1..Len(backlog) BY <2>3
    <3> QED BY <2>3, <2>5, <3>1, <3>2, <3>3
  <2>11. Sockets' BY <1>2, <2>8, <2>9, <2>10 DEF Sockets
  <2> QED BY <2>3, <2>4, <2>5, <2>6, <2>7, <2>11
<1> QED BY <1>3, <1>4

(* The clients' part of the invariant is theirs alone. *)
LEMMA ClientsKept ==
  ASSUME ServerInv, UNCHANGED <<load, client, eof, inbox>>
  PROVE  /\ ClientInv' /\ \A cn, b : Intact(cn, b)' <=> Intact(cn, b)
         /\ (client \in [Program -> [pc : {"connect", "send", "closed", "killed"},
                                     index : Nat, k : Nat, sent : Nat]])'
         /\ (inbox \in [Conns -> Seq(Nat)])' /\ (eof \subseteq Conns)'
<1>1. Program' = Program /\ Conns' = Conns BY SameConns
<1>2. \A p : Piece(p)' = Piece(p) BY DEF Piece
<1>3. ClientInv' BY <1>1, <1>2 DEF ServerInv, ClientInv, ClientOK
<1>4. \A cn, b : Intact(cn, b)' <=> Intact(cn, b) BY <1>2 DEF Intact, Units
<1> QED BY <1>1, <1>3, <1>4 DEF ServerInv, ServerTypeOK

(* The main thread accepts a connection for the next thread. *)
LEMMA AcceptAllKeeps ==
  ASSUME ServerInv, kind = "threads", AcceptAll, UNCHANGED <<kind, load, client>>
  PROVE  ServerInv'
<1>1. /\ ServerTypeOK /\ Flags /\ DataInv BY DEF ServerInv
<1>2. /\ main = "accept" /\ param < num_servers /\ accept(param) /\ param' = param + 1
      /\ UNCHANGED <<main, inbox, eof, doing, trace, index, done>>
  BY DEF AcceptAll
<1>3. param \in Server /\ param \in Nat BY <1>1, <1>2, ServerAssumption DEF ServerTypeOK, Server
<1>4. /\ backlog' \in Seq(Conns)
      /\ DOMAIN accepted' \subseteq Conns /\ accepted' \in [DOMAIN accepted' -> Server]
      /\ socket_id' \in [Server -> Conns \cup {BAD_SOCKET}]
      /\ Sockets'
      /\ \A m \in Server : m # param => socket_id'[m] = socket_id[m]
      /\ DOMAIN accepted \subseteq DOMAIN accepted'
      /\ socket_id'[param] # BAD_SOCKET => socket_id'[param] \in Conns /\ socket_id'[param] \notin DOMAIN accepted
  BY <1>2, <1>3, AcceptFacts
<1>5. /\ ClientInv' /\ \A cn, b : Intact(cn, b)' <=> Intact(cn, b)
      /\ (client \in [Program -> [pc : {"connect", "send", "closed", "killed"},
                                     index : Nat, k : Nat, sent : Nat]])'
      /\ (inbox \in [Conns -> Seq(Nat)])' /\ (eof \subseteq Conns)'
  BY <1>2, ClientsKept
<1>6. ServerTypeOK'
  <2>1. Conns' = Conns BY SameConns
  <2>2. param' \in 0..num_servers BY <1>2, <1>3, ServerAssumption
  <2> QED BY <1>1, <1>2, <1>4, <1>5, <2>1, <2>2 DEF ServerTypeOK
<1>7. \A n \in Server : ~Running(n)' /\ ~done'[n] BY <1>1, <1>2 DEF Flags, Running
<1>8. Flags' BY <1>2, <1>7 DEF Flags
<1>9. ASSUME NEW cn \in Conns, Fresh(cn)' PROVE Intact(cn, 0)'
  <2>1. Fresh(cn)
    <3>1. CASE cn \notin DOMAIN accepted' BY <1>4, <3>1 DEF Fresh
    <3>2. ASSUME NEW n \in Server, socket_id'[n] = cn, Waiting(n)' PROVE Fresh(cn)
      <4>1. n < param + 1 BY <1>2, <3>2 DEF Waiting
      <4>2. CASE n = param BY <1>1, <1>4, <3>2, <4>2, ConnFacts DEF ServerTypeOK, Fresh
      <4>3. CASE n # param
        <5>1. n < param BY <1>3, <4>1, <4>3 DEF Server
        <5> QED BY <1>2, <1>4, <3>2, <4>3, <5>1 DEF Fresh, Waiting
      <4> QED BY <4>2, <4>3
    <3> QED BY <1>9, <3>1, <3>2 DEF Fresh
  <2> QED BY <1>1, <1>5, <2>1 DEF DataInv
<1>10. DataInv'
  <2>1. Conns' = Conns BY SameConns
  <2> QED BY <1>7, <1>9, <2>1 DEF DataInv
<1> QED BY <1>4, <1>5, <1>6, <1>8, <1>10 DEF ServerInv

(* Who has which connection changes by accept and connect only. *)
LEMMA SocketsKept ==
  ASSUME Sockets, UNCHANGED <<load, client, backlog, accepted, socket_id>>
  PROVE  Sockets'
<1>1. Program' = Program BY SameConns
<1> QED BY <1>1 DEF Sockets

(* A server that has not moved has received what it had received. *)
LEMMA ReceivedKept ==
  ASSUME ServerInv, UNCHANGED <<load, client, eof, inbox>>, NEW m \in Server,
         doing'[m] = doing[m], socket_id'[m] = socket_id[m], index'[m] = index[m], trace'[m] = trace[m]
  PROVE  (Received(m)' <=> Received(m)) /\ (Running(m)' <=> Running(m))
<1>1. \A cn, b : Intact(cn, b)' <=> Intact(cn, b) BY ClientsKept
<1> QED BY <1>1 DEF Received, Running

(* A server starts to receive with nothing. *)
LEMMA ReceiveFacts ==
  ASSUME ServerInv, NEW n \in Server, Receive(n), UNCHANGED <<load, client, eof, inbox>>
  PROVE  /\ doing' \in [Server -> {"idle", "recv", "traverse", "stopped"}]
         /\ trace' \in [Server -> Seq(Nat)] /\ index' \in [Server -> Int]
         /\ doing'[n] = "recv"
         /\ \A m \in Server : m # n => doing'[m] = doing[m] /\ trace'[m] = trace[m] /\ index'[m] = index[m]
         /\ Intact(socket_id'[n], 0) => Received(n)'
<1>1. /\ doing' = [doing EXCEPT ![n] = "recv"] /\ trace' = [trace EXCEPT ![n] = <<>>]
      /\ index' = [index EXCEPT ![n] = 0]
      /\ doing \in [Server -> {"idle", "recv", "traverse", "stopped"}]
      /\ trace \in [Server -> Seq(Nat)] /\ index \in [Server -> Int]
  BY DEF Receive, ServerInv, ServerTypeOK
<1>2. <<>> \in Seq(Nat) /\ Len(<<>>) = 0 BY EmptySeq
<1>3. /\ doing' \in [Server -> {"idle", "recv", "traverse", "stopped"}]
      /\ trace' \in [Server -> Seq(Nat)] /\ index' \in [Server -> Int]
  BY <1>1, <1>2
<1>4. doing'[n] = "recv" /\ trace'[n] = <<>> /\ index'[n] = 0 BY <1>1
<1>5. Intact(socket_id'[n], 0) => Intact(socket_id[n], 0)' BY <1>4, ClientsKept DEF Intact, Units, Piece
<1>6. Intact(socket_id'[n], 0) => Received(n)'
  <2>1. Len(trace'[n]) = 0 BY <1>2, <1>4
  <2>2. Intact(socket_id[n], index[n])' <=> Intact(socket_id[n], 0)' BY <1>4 DEF Intact
  <2> QED BY <1>4, <1>5, <2>1, <2>2 DEF Received
<1> QED BY <1>1, <1>3, <1>4, <1>6

(* The steps of the main thread between the rounds. *)
LEMMA MainKeeps ==
  ASSUME ServerInv, kind = "threads", AllAccepted \/ ReadFlag \/ NextRound, UNCHANGED <<kind, load, client>>
  PROVE  ServerInv'
<1>1. ServerTypeOK /\ Flags /\ Sockets /\ DataInv BY DEF ServerInv
<1>2. UNCHANGED <<netVars, doing, socket_id, trace, index, kind, load, client>>
  BY DEF AllAccepted, ReadFlag, NextRound, threadVars
<1>3. /\ ClientInv' /\ \A cn, b : Intact(cn, b)' <=> Intact(cn, b)
      /\ (client \in [Program -> [pc : {"connect", "send", "closed", "killed"},
                                     index : Nat, k : Nat, sent : Nat]])'
      /\ (inbox \in [Conns -> Seq(Nat)])' /\ (eof \subseteq Conns)'
  BY <1>2, ClientsKept DEF netVars
<1>4. Conns' = Conns /\ Program' = Program BY <1>2, SameConns
<1>5. num_servers \in Nat \ {0} /\ param \in Int /\ 0 <= param /\ param <= num_servers
  BY <1>1, ServerAssumption DEF ServerTypeOK
<1>6. ServerTypeOK'
  <2>1. main' \in {"accept", "create", "wait"} /\ param' \in 0..num_servers /\ done' \in [Server -> BOOLEAN]
    <3>1. CASE AllAccepted BY <1>1, <1>5, <3>1 DEF AllAccepted, ServerTypeOK, threadVars
    <3>2. CASE ReadFlag
      <4>1. main' = main /\ done' = done /\ param < num_servers /\ (param' = param + 1 \/ param' = 0)
        BY <3>2 DEF ReadFlag, threadVars
      <4> QED BY <1>1, <1>5, <4>1 DEF ServerTypeOK
    <3>3. CASE NextRound BY <1>5, <3>3 DEF NextRound
    <3> QED BY <3>1, <3>2, <3>3
  <2> QED BY <1>1, <1>2, <1>3, <1>4, <2>1 DEF ServerTypeOK, netVars
<1>7. Sockets' BY <1>1, <1>2, SocketsKept DEF netVars
<1>8. Flags'
  <2>1. CASE AllAccepted
    <3>1. main = "accept" /\ main' = "create" /\ param' = 1 /\ done' = done /\ doing' = doing
      BY <2>1 DEF AllAccepted, threadVars
    <3> QED BY <1>1, <3>1 DEF Flags, Running
  <2>2. CASE ReadFlag
    <3>1. main = "wait" /\ main' = "wait" /\ param < num_servers /\ done' = done /\ doing' = doing
          /\ param' = IF done[param] THEN param + 1 ELSE 0
      BY <2>2 DEF ReadFlag, threadVars
    <3>2. ASSUME NEW n \in Server, n < param' PROVE done[n]
      <4>1. done[param] /\ n < param + 1 BY <1>5, <3>1, <3>2 DEF Server
      <4>2. n = param \/ n < param BY <1>5, <4>1 DEF Server
      <4> QED BY <1>1, <3>1, <4>1, <4>2 DEF Flags
    <3> QED BY <1>1, <1>2, <3>1, <3>2 DEF Flags, Running
  <2>3. CASE NextRound
    <3>1. main = "wait" /\ main' = "accept" /\ param = num_servers /\ done' = [n \in Server |-> FALSE] /\ doing' = doing
      BY <2>3 DEF NextRound
    <3>2. \A n \in Server : done[n] BY <1>1, <1>5, <3>1 DEF Flags, Server
    <3>3. \A n \in Server : ~Running(n) BY <1>1, <3>2 DEF Flags
    <3> QED BY <3>1, <3>3 DEF Flags, Running
  <2> QED BY <2>1, <2>2, <2>3
<1>9. ASSUME NEW n \in Server, Waiting(n)' PROVE Waiting(n)
  <2>1. CASE AllAccepted
    <3>1. main = "accept" /\ param = num_servers BY <2>1 DEF AllAccepted
    <3> QED BY <1>5, <3>1 DEF Waiting, Server
  <2>2. CASE ReadFlag BY <1>9, <2>2 DEF ReadFlag, Waiting
  <2>3. CASE NextRound
    <3>1. main' = "accept" /\ param' = 0 BY <2>3 DEF NextRound
    <3>2. ~(n < 0) BY DEF Server
    <3> QED BY <1>9, <3>1, <3>2 DEF Waiting
  <2> QED BY <2>1, <2>2, <2>3
<1>10. \A cn : Fresh(cn)' => Fresh(cn) BY <1>2, <1>9 DEF Fresh, netVars
<1>11. \A n \in Server : (Received(n)' <=> Received(n)) /\ (Running(n)' <=> Running(n))
  BY <1>2, ReceivedKept DEF netVars
<1>12. DataInv' BY <1>1, <1>2, <1>3, <1>4, <1>10, <1>11 DEF DataInv
<1> QED BY <1>3, <1>6, <1>7, <1>8, <1>12 DEF ServerInv

(* A thread is created, or the main thread takes the first trace itself.   *)
LEMMA StartKeeps ==
  ASSUME ServerInv, kind = "threads", Create \/ ProcessOwn, UNCHANGED <<kind, load, client>>
  PROVE  ServerInv'
<1>1. ServerTypeOK /\ Flags /\ Sockets /\ DataInv BY DEF ServerInv
<1>2. num_servers \in Nat \ {0} /\ param \in Int /\ 0 <= param /\ param <= num_servers
  BY <1>1, ServerAssumption DEF ServerTypeOK
<1>3. PICK n \in Server :
        /\ main = "create" /\ Receive(n) /\ UNCHANGED <<netVars, socket_id, done>>
        /\ Waiting(n) /\ (\A m \in Server : Waiting(m)' => Waiting(m) /\ m # n)
        /\ \/ main' = "create" /\ param' = param + 1 /\ param < num_servers /\ n = param
           \/ main' = "wait" /\ param' = 0 /\ n = 0
  <2>1. CASE Create
    <3>1. param \in Server BY <1>2, <2>1 DEF Create, Server
    <3>2. main = "create" /\ main' = "create" /\ param' = param + 1 /\ param < num_servers /\ Receive(param)
          /\ UNCHANGED <<netVars, socket_id, done>>
      BY <2>1 DEF Create
    <3>3. param >= 1 BY <1>1, <3>2 DEF Flags
    <3>4. Waiting(param) BY <1>2, <3>2 DEF Waiting
    <3>5. \A m \in Server : Waiting(m)' => Waiting(m) /\ m # param
      BY <1>2, <3>2, <3>3 DEF Waiting, Server
    <3> QED BY <3>1, <3>2, <3>4, <3>5
  <2>2. CASE ProcessOwn
    <3>1. 0 \in Server BY <1>2 DEF Server
    <3>2. main = "create" /\ main' = "wait" /\ param' = 0 /\ Receive(0) /\ UNCHANGED <<netVars, socket_id, done>>
      BY <2>2 DEF ProcessOwn
    <3>3. Waiting(0) /\ \A m \in Server : ~Waiting(m)' BY <3>2 DEF Waiting
    <3> QED BY <3>1, <3>2, <3>3
  <2> QED BY <2>1, <2>2
<1>4. /\ ClientInv' /\ \A cn, b : Intact(cn, b)' <=> Intact(cn, b)
      /\ (client \in [Program -> [pc : {"connect", "send", "closed", "killed"},
                                     index : Nat, k : Nat, sent : Nat]])'
      /\ (inbox \in [Conns -> Seq(Nat)])' /\ (eof \subseteq Conns)'
  BY <1>3, ClientsKept DEF netVars
<1>5. Conns' = Conns /\ Program' = Program BY SameConns
<1>6. /\ doing' \in [Server -> {"idle", "recv", "traverse", "stopped"}]
      /\ trace' \in [Server -> Seq(Nat)] /\ index' \in [Server -> Int]
      /\ doing'[n] = "recv"
      /\ \A m \in Server : m # n => doing'[m] = doing[m] /\ trace'[m] = trace[m] /\ index'[m] = index[m]
      /\ Intact(socket_id'[n], 0) => Received(n)'
  BY <1>3, ReceiveFacts DEF netVars
<1>7. ServerTypeOK'
  <2>1. param' \in 0..num_servers /\ main' \in {"accept", "create", "wait"} BY <1>2, <1>3
  <2> QED BY <1>1, <1>3, <1>4, <1>5, <1>6, <2>1 DEF ServerTypeOK, netVars
<1>8. Sockets'
  <2>1. UNCHANGED <<backlog, accepted, socket_id>> BY <1>3 DEF netVars
  <2> QED BY <1>1, <2>1, SocketsKept
<1>9. Flags'
  <2>1. n = 0 \/ n >= param BY <1>2, <1>3
  <2>2. ~done[n] /\ done' = done BY <1>1, <1>3, <2>1 DEF Flags
  <2>3. ASSUME NEW m \in Server, Running(m)' PROVE ~done'[m]
    <3>1. CASE m = n BY <2>2, <3>1
    <3>2. CASE m # n
      <4>1. Running(m) BY <1>6, <2>3, <3>2 DEF Running
      <4> QED BY <1>1, <2>2, <4>1 DEF Flags
    <3> QED BY <3>1, <3>2
  <2>4. CASE main' = "create"
    <3>1. param' = param + 1 /\ n = param /\ param >= 1 /\ param' >= 1 BY <1>1, <1>2, <1>3, <2>4 DEF Flags
    <3>2. ASSUME NEW m \in Server, m = 0 \/ m >= param' PROVE ~Running(m)' /\ ~done'[m]
      <4>1. m # n /\ (m = 0 \/ m >= param) BY <1>2, <3>1, <3>2 DEF Server
      <4>2. ~Running(m) /\ ~done[m] BY <1>1, <1>3, <4>1 DEF Flags
      <4> QED BY <1>6, <2>2, <4>1, <4>2 DEF Running
    <3> QED BY <2>3, <2>4, <3>1, <3>2 DEF Flags
  <2>5. CASE main' = "wait"
    <3>1. param' = 0 BY <1>3, <2>5
    <3>2. \A m \in Server : ~(m < param') BY <3>1 DEF Server
    <3> QED BY <2>3, <2>5, <3>2 DEF Flags
  <2> QED BY <1>3, <2>4, <2>5
<1>10. \A cn : Fresh(cn)' => Fresh(cn) BY <1>3 DEF Fresh, netVars
<1>11. ASSUME NEW m \in Server, Running(m)', socket_id'[m] # BAD_SOCKET PROVE Received(m)'
  <2>1. CASE m = n
    <3>1. socket_id[n] \in Conns /\ socket_id'[n] = socket_id[n]
      BY <1>1, <1>3, <1>11, <2>1 DEF ServerTypeOK
    <3>2. Fresh(socket_id[n]) BY <1>3 DEF Fresh
    <3>3. Intact(socket_id'[n], 0) BY <1>1, <3>1, <3>2 DEF DataInv
    <3> QED BY <1>6, <2>1, <3>3
  <2>2. CASE m # n
    <3>1. (Received(m)' <=> Received(m)) /\ (Running(m)' <=> Running(m))
      BY <1>3, <1>6, <2>2, ReceivedKept DEF netVars
    <3> QED BY <1>1, <1>3, <1>11, <3>1 DEF DataInv
  <2> QED BY <2>1, <2>2
<1>12. DataInv' BY <1>1, <1>4, <1>5, <1>10, <1>11 DEF DataInv
<1> QED BY <1>4, <1>7, <1>8, <1>9, <1>12 DEF ServerInv

-----------------------------------------------------------------------------
(* A server that receives is not one that waits to be created. *)
LEMMA WaitingRests ==
  ASSUME ServerTypeOK, Flags, NEW n \in Server, Waiting(n)
  PROVE  ~Running(n)
BY DEF Flags, Waiting

(* A process takes the next connection and starts to receive. *)
LEMMA AcceptNextKeeps ==
  ASSUME ServerInv, NEW n \in Server, AcceptNext(n)
  PROVE  ServerInv'
<1>1. ServerTypeOK /\ Flags /\ Sockets /\ DataInv BY DEF ServerInv
<1>2. /\ kind = "forked" /\ accept(n) /\ Receive(n)
      /\ UNCHANGED <<kind, load, inbox, eof, client, main, param, done>>
  BY DEF AcceptNext
<1>3. /\ backlog' \in Seq(Conns)
      /\ DOMAIN accepted' \subseteq Conns /\ accepted' \in [DOMAIN accepted' -> Server]
      /\ socket_id' \in [Server -> Conns \cup {BAD_SOCKET}]
      /\ Sockets'
      /\ \A m \in Server : m # n => socket_id'[m] = socket_id[m]
      /\ DOMAIN accepted \subseteq DOMAIN accepted'
      /\ socket_id'[n] # BAD_SOCKET => socket_id'[n] \in Conns /\ socket_id'[n] \notin DOMAIN accepted
  BY <1>2, AcceptFacts
<1>4. /\ ClientInv' /\ \A cn, b : Intact(cn, b)' <=> Intact(cn, b)
      /\ (client \in [Program -> [pc : {"connect", "send", "closed", "killed"},
                                     index : Nat, k : Nat, sent : Nat]])'
      /\ (inbox \in [Conns -> Seq(Nat)])' /\ (eof \subseteq Conns)'
  BY <1>2, ClientsKept
<1>5. /\ doing' \in [Server -> {"idle", "recv", "traverse", "stopped"}]
      /\ trace' \in [Server -> Seq(Nat)] /\ index' \in [Server -> Int]
      /\ doing'[n] = "recv"
      /\ \A m \in Server : m # n => doing'[m] = doing[m] /\ trace'[m] = trace[m] /\ index'[m] = index[m]
      /\ Intact(socket_id'[n], 0) => Received(n)'
  BY <1>2, ReceiveFacts
<1>6. Conns' = Conns BY <1>2, SameConns
<1>7. ServerTypeOK' BY <1>1, <1>2, <1>3, <1>4, <1>5, <1>6 DEF ServerTypeOK
<1>8. Flags' BY <1>1, <1>2 DEF Flags
<1>9. ASSUME NEW cn \in Conns, Fresh(cn)' PROVE Intact(cn, 0)'
  <2>1. cn \notin DOMAIN accepted BY <1>2, <1>3, <1>9 DEF Fresh, Waiting
  <2> QED BY <1>1, <1>4, <2>1 DEF DataInv, Fresh
<1>10. ASSUME NEW m \in Server, Running(m)', socket_id'[m] # BAD_SOCKET PROVE Received(m)'
  <2>1. CASE m = n
    <3>1. socket_id'[n] \in Conns /\ Fresh(socket_id'[n]) BY <1>3, <1>10, <2>1 DEF Fresh
    <3> QED BY <1>1, <1>5, <2>1, <3>1 DEF DataInv
  <2>2. CASE m # n
    <3>1. (Received(m)' <=> Received(m)) /\ (Running(m)' <=> Running(m)) /\ socket_id'[m] = socket_id[m]
      BY <1>2, <1>3, <1>5, <2>2, ReceivedKept
    <3> QED BY <1>1, <1>10, <3>1 DEF DataInv
  <2> QED BY <2>1, <2>2
<1>11. DataInv' BY <1>6, <1>9, <1>10 DEF DataInv
<1> QED BY <1>3, <1>4, <1>7, <1>8, <1>11 DEF ServerInv

(* The end of a trace: what was received is all that was sent, as the      *)
(* connection has been closed; then a flag, or the end of the process.     *)
LEMMA EndKeeps ==
  ASSUME ServerInv, NEW n \in Server, RecvFails(n) \/ EndOfTrace(n) \/ Traverse(n) \/ Exit(n),
         UNCHANGED <<kind, load, eof, client, main, param>>
  PROVE  ServerInv'
<1>1. ServerTypeOK /\ Flags /\ Sockets /\ DataInv /\ ClientInv BY DEF ServerInv
<1>2. UNCHANGED <<netVars, socket_id, trace>>
  BY DEF RecvFails, EndOfTrace, Traverse, Exit
<1>3. /\ ClientInv' /\ \A cn, b : Intact(cn, b)' <=> Intact(cn, b)
      /\ (client \in [Program -> [pc : {"connect", "send", "closed", "killed"},
                                     index : Nat, k : Nat, sent : Nat]])'
      /\ (inbox \in [Conns -> Seq(Nat)])' /\ (eof \subseteq Conns)'
  BY <1>2, ClientsKept DEF netVars
<1>4. Conns' = Conns BY SameConns
<1>5. /\ doing' \in [Server -> {"idle", "recv", "traverse", "stopped"}]
      /\ index' \in [Server -> Int] /\ done' \in [Server -> BOOLEAN]
  <2>1. CASE RecvFails(n) BY <1>1, <2>1 DEF RecvFails, ServerTypeOK
  <2>2. CASE EndOfTrace(n) BY <1>1, <2>2 DEF EndOfTrace, ServerTypeOK
  <2>3. CASE Traverse(n) BY <1>1, <2>3 DEF Traverse, Traversed, ServerTypeOK
  <2>4. CASE Exit(n) BY <1>1, <2>4 DEF Exit, ServerTypeOK
  <2> QED BY <2>1, <2>2, <2>3, <2>4
<1>6. ServerTypeOK' BY <1>1, <1>2, <1>3, <1>4, <1>5 DEF ServerTypeOK, netVars
<1>7. Sockets'
  <2>1. UNCHANGED <<backlog, accepted, socket_id>> BY <1>2 DEF netVars
  <2> QED BY <1>1, <2>1, SocketsKept
<1>8. Running(n) BY DEF RecvFails, EndOfTrace, Traverse, Exit, Running
<1>9. \A m \in Server : /\ Running(m)' => Running(m)
                        /\ Running(m)' /\ kind = "threads" => done'[m] = done[m]
  <2>1. CASE RecvFails(n) BY <2>1 DEF RecvFails, Running
  <2>2. CASE EndOfTrace(n) BY <1>1, <1>8, <2>2 DEF EndOfTrace, ServerTypeOK, Running
  <2>3. CASE Traverse(n)
    <3>1. doing' = [doing EXCEPT ![n] = "idle"] /\ (done' = [done EXCEPT ![n] = TRUE] \/ done' = done)
      BY <2>3 DEF Traverse, Traversed
    <3> QED BY <1>1, <3>1 DEF ServerTypeOK, Running
  <2>4. CASE Exit(n)
    <3>1. done' = done /\ \A m \in Server : doing'[m] = "stopped" \/ doing'[m] = doing[m] BY <2>4 DEF Exit
    <3> QED BY <3>1 DEF Running
  <2> QED BY <2>1, <2>2, <2>3, <2>4
<1>10. \A m \in Server : done[m] => done'[m]
  BY <1>1 DEF RecvFails, EndOfTrace, Traverse, Traversed, Exit, ServerTypeOK
<1>11. \A m \in Server : m # n => done'[m] = done[m]
  BY <1>1 DEF RecvFails, EndOfTrace, Traverse, Traversed, Exit, ServerTypeOK
<1>12. Flags'
  <2>1. CASE kind # "threads" BY <1>1, <2>1 DEF Flags
  <2>2. CASE kind = "threads"
    <3>1. \A m \in Server : Running(m)' => ~done'[m] BY <1>1, <1>9, <2>2 DEF Flags
    <3>2. main # "accept" BY <1>1, <1>8, <2>2 DEF Flags
    <3>3. main = "create" => \A m \in Server : m = 0 \/ m >= param => ~Running(m)' /\ ~done'[m]
      BY <1>1, <1>8, <1>9, <1>11, <2>2 DEF Flags
    <3>4. main = "wait" => \A m \in Server : m < param => done'[m] BY <1>1, <1>10, <2>2 DEF Flags
    <3> QED BY <1>1, <3>1, <3>2, <3>3, <3>4 DEF Flags
  <2> QED BY <2>1, <2>2
<1>13. \A cn : Fresh(cn)' => Fresh(cn) BY <1>2 DEF Fresh, Waiting, netVars
<1>14. ASSUME NEW m \in Server, Running(m)', socket_id'[m] # BAD_SOCKET PROVE Received(m)'
  <2>1. Received(m) /\ socket_id'[m] = socket_id[m] /\ trace'[m] = trace[m] BY <1>1, <1>2, <1>9, <1>14 DEF DataInv
  <2>2. index'[m] = index[m]
    <3>1. CASE RecvFails(n)
      <4>1. m # n BY <1>2, <1>14, <3>1 DEF RecvFails
      <4> QED BY <1>1, <3>1, <4>1 DEF RecvFails, ServerTypeOK
    <3> QED BY <3>1 DEF EndOfTrace, Traverse, Exit
  <2>3. doing'[m] = "traverse" /\ client[socket_id[m][1]].pc # "killed" => index[m] = tracesize
    <3>1. CASE doing'[m] = doing[m] BY <2>1, <3>1 DEF Received
    <3>2. CASE doing'[m] # doing[m] /\ doing'[m] = "traverse" /\ client[socket_id[m][1]].pc # "killed"
      <4>1. EndOfTrace(n) /\ m = n
        <5>1. EndOfTrace(n)
          <6>1. ~RecvFails(n) BY <3>2 DEF RecvFails
          <6>2. ~Traverse(n) BY <1>1, <3>2 DEF Traverse, Traversed, ServerTypeOK
          <6>3. ~Exit(n) BY <3>2 DEF Exit
          <6> QED BY <6>1, <6>2, <6>3
        <5> QED BY <1>1, <3>2, <5>1 DEF EndOfTrace, ServerTypeOK
      <4>2. inbox[socket_id[m]] = <<>> /\ socket_id[m] \in eof BY <4>1 DEF EndOfTrace
      <4>3. client[socket_id[m][1]].pc = "closed" BY <1>1, <3>2, <4>2 DEF ClientInv
      <4>4. index[m] + Len(inbox[socket_id[m]]) = tracesize BY <2>1, <4>3 DEF Received, Intact, Units
      <4>5. Len(inbox[socket_id[m]]) = 0 /\ index[m] \in Int BY <1>1, <4>2 DEF ServerTypeOK
      <4> QED BY <4>4, <4>5
    <3> QED BY <3>1, <3>2
  <2>4. Intact(socket_id[m], index[m])' BY <1>2, <2>1, <2>2 DEF Received, Intact, Units, Piece, netVars
  <2> QED BY <2>1, <2>2, <2>3, <2>4 DEF Received
<1>15. DataInv' BY <1>1, <1>3, <1>4, <1>13, <1>14 DEF DataInv
<1> QED BY <1>3, <1>6, <1>7, <1>12, <1>15 DEF ServerInv

(* However the units that have arrived are cut: what is received continues *)
(* the trace, and what stays in the buffer continues what is received.     *)
CountsFrom(s, u) == \A k \in 1..Len(s) : s[k] = u + k

IsCut(a, q, b, s, t) ==
  s = SubSeq(a, 1, Len(a)) \o SubSeq(q, 1, b) /\ t = SubSeq(q, b + 1, Len(q))

(* Hence both parts of a cut are sequences that count on. *)
LEMMA Cut ==
  ASSUME NEW a \in Seq(Nat), NEW q \in Seq(Nat), NEW b \in 1..Len(q),
         CountsFrom(a, 0), CountsFrom(q, Len(a)),
         NEW s, NEW t, IsCut(a, q, b, s, t)
  PROVE  /\ s \in Seq(Nat) /\ Len(s) = Len(a) + b /\ CountsFrom(s, 0)
         /\ t \in Seq(Nat) /\ Len(t) = Len(q) - b /\ CountsFrom(t, Len(a) + b)
<1> DEFINE L == Len(q)
           u == Len(a)
           z == SubSeq(a, 1, u)
           x == SubSeq(q, 1, b)
           y == SubSeq(q, b + 1, L)
<1>1. L \in Nat /\ u \in Nat /\ b \in Nat /\ 1 <= b /\ b <= L BY LenProperties
<1>2. (\A k \in 1..L : q[k] \in Nat) /\ (\A k \in 1..u : a[k] \in Nat) BY ElementOfSeq
<1>0. (\A k \in 1..u : a[k] = k) /\ (\A k \in 1..L : q[k] = u + k)
  <2>1. \A k \in 1..u : a[k] = 0 + k BY DEF CountsFrom
  <2> QED BY <2>1 DEF CountsFrom
<1>3. z \in Seq(Nat) /\ Len(z) = u /\ \A k \in 1..u : z[k] = k
  <2>1. /\ z \in Seq(Nat) /\ Len(z) = (IF 1 <= u THEN u - 1 + 1 ELSE 0)
        /\ \A k \in 1..u - 1 + 1 : z[k] = a[1 + k - 1]
    BY <1>1, <1>2, SubSeqProperties
  <2> HIDE DEF z
  <2>2. \A k \in 1..u : k \in 1..u - 1 + 1 /\ 1 + k - 1 = k BY <1>1
  <2> HIDE DEF u
  <2>4. ASSUME NEW k \in 1..u PROVE z[k] = k
    <3>1. z[k] = a[1 + k - 1] /\ 1 + k - 1 = k BY <2>1, <2>2
    <3> QED BY <1>0, <3>1
  <2>5. Len(z) = u BY <1>1, <2>1
  <2> QED BY <2>1, <2>4, <2>5
<1>4. x \in Seq(Nat) /\ Len(x) = b /\ \A k \in 1..b : x[k] = u + k
  <2>1. /\ x \in Seq(Nat) /\ Len(x) = (IF 1 <= b THEN b - 1 + 1 ELSE 0)
        /\ \A k \in 1..b - 1 + 1 : x[k] = q[1 + k - 1]
    BY <1>1, <1>2, SubSeqProperties
  <2> HIDE DEF x
  <2>2. \A k \in 1..b : k \in 1..b - 1 + 1 /\ 1 + k - 1 = k /\ k \in 1..L BY <1>1
  <2>3. \A k \in 1..L : q[k] = u + k BY <1>0
  <2> HIDE DEF u, L
  <2>4. ASSUME NEW k \in 1..b PROVE x[k] = u + k
    <3>1. x[k] = q[1 + k - 1] /\ 1 + k - 1 = k /\ k \in 1..L BY <2>1, <2>2
    <3> QED BY <2>3, <3>1
  <2>5. Len(x) = b BY <1>1, <2>1
  <2> QED BY <2>1, <2>4, <2>5
<1>5. y \in Seq(Nat) /\ Len(y) = L - b /\ \A k \in 1..L - b : y[k] = u + b + k
  <2>1. /\ y \in Seq(Nat) /\ Len(y) = (IF b + 1 <= L THEN L - (b + 1) + 1 ELSE 0)
        /\ \A k \in 1..L - (b + 1) + 1 : y[k] = q[b + 1 + k - 1]
    <3> DEFINE m == b + 1
    <3>1. m \in Int /\ L \in Int /\ \A k \in m..L : q[k] \in Nat BY <1>1, <1>2
    <3> HIDE DEF m, L
    <3>2. /\ SubSeq(q, m, L) \in Seq(Nat) /\ Len(SubSeq(q, m, L)) = (IF m <= L THEN L - m + 1 ELSE 0)
          /\ \A k \in 1..L - m + 1 : SubSeq(q, m, L)[k] = q[m + k - 1]
      BY <3>1, SubSeqProperties
    <3> QED BY <3>2 DEF m
  <2> HIDE DEF y
  <2>3. \A k \in 1..L : q[k] = u + k BY <1>0
  <2> HIDE DEF u, L
  <2>2. \A k \in 1..L - b : k \in 1..L - (b + 1) + 1 /\ b + 1 + k - 1 = b + k /\ b + k \in 1..L BY <1>1
  <2>4. \A k \in 1..L - b : y[k] = u + (b + k) BY <2>1, <2>2, <2>3
  <2> QED BY <1>1, <2>1, <2>4
<1> HIDE DEF x, y, z, u, L
<1>6. /\ z \o x \in Seq(Nat) /\ Len(z \o x) = u + b
      /\ \A k \in 1..u + b : (z \o x)[k] = IF k <= u THEN z[k] ELSE x[k - u]
  BY <1>3, <1>4, ConcatProperties
<1>7. ASSUME NEW k \in 1..u + b PROVE (z \o x)[k] = k
  <2>1. CASE k <= u
    <3>1. k \in 1..u BY <1>1, <2>1
    <3> QED BY <1>3, <1>6, <2>1, <3>1
  <2>2. CASE ~(k <= u)
    <3>1. k - u \in 1..b BY <1>1, <2>2
    <3>2. x[k - u] = u + (k - u) BY <1>4, <3>1
    <3>3. u + (k - u) = k BY <1>1
    <3>4. (z \o x)[k] = x[k - u] BY <1>6, <2>2
    <3> QED BY <3>2, <3>3, <3>4
  <2> QED BY <2>1, <2>2
<1>8. ASSUME NEW k \in 1..u + b PROVE (z \o x)[k] = 0 + k
  <2>1. 0 + k = k BY <1>1
  <2>2. (z \o x)[k] = k BY <1>7
  <2> QED BY <2>1, <2>2
<1> QED BY <1>5, <1>6, <1>8 DEF IsCut, x, y, z, u, L, CountsFrom

(* A call of recv: what it returns continues the trace. *)
LEMMA RecvKeeps ==
  ASSUME ServerInv, NEW n \in Server, Recv(n), UNCHANGED <<kind, load, eof, client, main, param>>
  PROVE  ServerInv'
<1>1. ServerTypeOK /\ Flags /\ Sockets /\ DataInv /\ ClientInv BY DEF ServerInv
<1>2. PICK cn, a, q : cn = socket_id[n] /\ a = trace[n] /\ q = inbox[cn] OBVIOUS
<1>3. /\ doing[n] = "recv" /\ cn # BAD_SOCKET /\ UNCHANGED <<backlog, accepted, doing, socket_id, done>>
  BY <1>2 DEF Recv
<1>4. Running(n) /\ Received(n) /\ cn \in Conns
  BY <1>1, <1>2, <1>3 DEF Running, DataInv, ServerTypeOK
<1>5. /\ a \in Seq(Nat) /\ q \in Seq(Nat) /\ Len(q) \in Nat /\ Len(a) \in Nat /\ index[n] = Len(a)
      /\ \A k \in 1..Len(a) : a[k] = k
      /\ \A j \in 1..Len(q) : q[j] = Len(a) + j
      /\ client[cn[1]].pc # "killed" => Len(a) + Len(q) = Units(cn)
  <2>1. a \in Seq(Nat) /\ q \in Seq(Nat) BY <1>1, <1>2, <1>4 DEF ServerTypeOK
  <2> QED BY <1>2, <1>4, <2>1, LenProperties DEF Received, Intact
<1>6. PICK b \in 1..Len(q) :
        /\ trace' = [trace EXCEPT ![n] = SubSeq(a, 1, Len(a)) \o SubSeq(q, 1, b)]
        /\ index' = [index EXCEPT ![n] = Len(a) + b]
        /\ inbox' = [inbox EXCEPT ![cn] = SubSeq(q, b + 1, Len(q))]
  <2>1. PICK b \in 1..Len(inbox[socket_id[n]]) :
          /\ trace' = [trace EXCEPT ![n] = SubSeq(trace[n], 1, index[n]) \o SubSeq(inbox[socket_id[n]], 1, b)]
          /\ index' = [index EXCEPT ![n] = index[n] + b]
          /\ inbox' = [inbox EXCEPT ![socket_id[n]] =
                         SubSeq(inbox[socket_id[n]], b + 1, Len(inbox[socket_id[n]]))]
    BY <1>1, <1>2, <1>4 DEF Recv, ServerTypeOK
  <2> QED BY <1>2, <1>5, <2>1
<1>7. PICK s, y : s = SubSeq(a, 1, Len(a)) \o SubSeq(q, 1, b) /\ y = SubSeq(q, b + 1, Len(q)) OBVIOUS
<1>8. /\ s \in Seq(Nat) /\ Len(s) = Len(a) + b /\ \A k \in 1..Len(s) : s[k] = k
      /\ y \in Seq(Nat) /\ Len(y) = Len(q) - b /\ \A k \in 1..Len(y) : y[k] = Len(a) + b + k
  <2>1. CountsFrom(a, 0)
    <3>1. \A k \in 1..Len(a) : 0 + k = k OBVIOUS
    <3> QED BY <1>5, <3>1 DEF CountsFrom
  <2>2. CountsFrom(q, Len(a)) BY <1>5 DEF CountsFrom
  <2>3. /\ s \in Seq(Nat) /\ Len(s) = Len(a) + b /\ \A k \in 1..Len(s) : s[k] = k
        /\ y \in Seq(Nat) /\ Len(y) = Len(q) - b /\ CountsFrom(y, Len(a) + b)
    <3>1. a \in Seq(Nat) BY <1>5
    <3>2. q \in Seq(Nat) BY <1>5
    <3>3. b \in 1..Len(q) BY <1>6
    <3>4. IsCut(a, q, b, s, y) BY <1>7 DEF IsCut
    <3>6. /\ s \in Seq(Nat) /\ Len(s) = Len(a) + b /\ CountsFrom(s, 0)
          /\ y \in Seq(Nat) /\ Len(y) = Len(q) - b /\ CountsFrom(y, Len(a) + b)
      BY <2>1, <2>2, <3>1, <3>2, <3>3, <3>4, Cut
    <3>7. \A k \in 1..Len(s) : s[k] = 0 + k BY <3>6 DEF CountsFrom
    <3> QED BY <3>6, <3>7
  <2> QED BY <2>3 DEF CountsFrom
<1>9. Len(a) + b \in Nat /\ Len(a) + b + Len(y) = Len(a) + Len(q) BY <1>5, <1>8
<1>10. /\ inbox' \in [Conns -> Seq(Nat)] /\ inbox'[cn] = y /\ \A d \in Conns : d # cn => inbox'[d] = inbox[d]
       /\ trace' \in [Server -> Seq(Nat)] /\ trace'[n] = s /\ \A m \in Server : m # n => trace'[m] = trace[m]
       /\ index' \in [Server -> Int] /\ index'[n] = Len(a) + b
       /\ \A m \in Server : m # n => index'[m] = index[m]
  <2>1. trace' = [trace EXCEPT ![n] = s] /\ inbox' = [inbox EXCEPT ![cn] = y] BY <1>6, <1>7
  <2>2. PICK w : w = Len(a) + b OBVIOUS
  <2>3. w \in Int /\ index' = [index EXCEPT ![n] = w] BY <1>6, <1>9, <2>2
  <2>4. s \in Seq(Nat) /\ y \in Seq(Nat) BY <1>8
  <2>5. /\ inbox \in [Conns -> Seq(Nat)] /\ trace \in [Server -> Seq(Nat)] /\ index \in [Server -> Int]
    BY <1>1 DEF ServerTypeOK
  <2>6. inbox' \in [Conns -> Seq(Nat)] /\ inbox'[cn] = y /\ \A d \in Conns : d # cn => inbox'[d] = inbox[d]
    BY <1>4, <2>1, <2>4, <2>5
  <2>7. trace' \in [Server -> Seq(Nat)] /\ trace'[n] = s /\ \A m \in Server : m # n => trace'[m] = trace[m]
    BY <2>1, <2>4, <2>5
  <2>8. /\ index' \in [Server -> Int] /\ index'[n] = w
        /\ \A m \in Server : m # n => index'[m] = index[m]
    BY <2>3, <2>5
  <2> QED BY <2>2, <2>6, <2>7, <2>8
<1>11. Conns' = Conns /\ Program' = Program /\ \A p : Piece(p)' = Piece(p) BY SameConns DEF Piece
<1>12. ServerTypeOK' BY <1>1, <1>3, <1>10, <1>11 DEF ServerTypeOK
<1>13. Flags' BY <1>1, <1>3 DEF Flags, Running
<1>14. Sockets' BY <1>1, <1>3, SocketsKept
<1>15. ClientInv' BY <1>1, <1>11 DEF ClientInv, ClientOK
<1>16. \A d : Units(d)' = Units(d) BY <1>11 DEF Units
<1>17. ASSUME NEW d \in Conns, d # cn, NEW k PROVE Intact(d, k)' <=> Intact(d, k)
  BY <1>10, <1>16, <1>17 DEF Intact
<1>18. ASSUME NEW d \in Conns, Fresh(d)' PROVE Intact(d, 0)'
  <2>1. Fresh(d) BY <1>3, <1>18 DEF Fresh, Waiting
  <2>2. d # cn
    <3>1. ASSUME d = cn PROVE FALSE
      <4>1. cn \in DOMAIN accepted BY <1>1, <1>2, <1>3 DEF Sockets
      <4>2. PICK m \in Server : socket_id[m] = cn /\ Waiting(m) BY <2>1, <3>1, <4>1 DEF Fresh
      <4>3. m = n BY <1>1, <1>2, <1>3, <4>2, SocketsDiffer
      <4> QED BY <1>1, <1>4, <4>2, <4>3, WaitingRests
    <3> QED BY <3>1
  <2> QED BY <1>1, <1>17, <2>1, <2>2 DEF DataInv
<1>19. Received(n)'
  <2>1. /\ \A j \in 1..Len(inbox'[cn]) : inbox'[cn][j] = Len(a) + b + j
        /\ client'[cn[1]].pc # "killed" => Len(a) + b + Len(inbox'[cn]) = Units(cn)'
    BY <1>5, <1>8, <1>9, <1>10, <1>16
  <2>2. socket_id'[n] = cn /\ doing'[n] # "traverse" BY <1>2, <1>3
  <2>3. Intact(socket_id[n], index[n])' BY <1>10, <2>1, <2>2 DEF Intact
  <2> QED BY <1>8, <1>10, <2>2, <2>3 DEF Received
<1>20. ASSUME NEW m \in Server, Running(m)', socket_id'[m] # BAD_SOCKET PROVE Received(m)'
  <2>1. CASE m = n BY <1>19, <2>1
  <2>2. CASE m # n
    <3>1. Received(m) BY <1>1, <1>3, <1>20 DEF DataInv, Running
    <3>2. socket_id[m] # cn /\ socket_id[m] \in Conns
      BY <1>1, <1>2, <1>3, <1>20, <2>2, SocketsDiffer DEF ServerTypeOK
    <3>3. inbox'[socket_id[m]] = inbox[socket_id[m]] /\ trace'[m] = trace[m] /\ index'[m] = index[m]
          /\ socket_id' = socket_id /\ doing' = doing
      BY <1>3, <1>10, <2>2, <3>2
    <3>4. Intact(socket_id[m], index[m])' BY <1>16, <3>1, <3>3 DEF Received, Intact
    <3> QED BY <3>1, <3>3, <3>4 DEF Received
  <2> QED BY <2>1, <2>2
<1>21. DataInv' BY <1>11, <1>18, <1>20 DEF DataInv
<1> QED BY <1>12, <1>13, <1>14, <1>15, <1>21 DEF ServerInv

-----------------------------------------------------------------------------
(* A client's step leaves the servers alone: what is left to show is that   *)
(* what has arrived on each connection is still what has been sent.         *)
LEMMA ClientMoves ==
  ASSUME ServerInv, UNCHANGED <<kind, load, main, param, threadVars, accepted>>,
         backlog' \in Seq(Conns), inbox' \in [Conns -> Seq(Nat)], eof' \subseteq Conns,
         client' \in [Program -> [pc : {"connect", "send", "closed", "killed"},
                                  index : Nat, k : Nat, sent : Nat]],
         Sockets', ClientInv',
         \A p \in Program : client[p].pc = "killed" => client'[p].pc = "killed",
         \A cn \in Conns, b \in Int : Intact(cn, b) => Intact(cn, b)'
  PROVE  ServerInv'
<1>1. ServerTypeOK /\ Flags /\ DataInv BY DEF ServerInv
<1>2. UNCHANGED <<doing, socket_id, trace, index, done>> BY DEF threadVars
<1>3. Conns' = Conns /\ Program' = Program BY SameConns
<1>4. ServerTypeOK' BY <1>1, <1>2, <1>3 DEF ServerTypeOK
<1>5. Flags' BY <1>1, <1>2 DEF Flags, Running
<1>6. \A cn : Fresh(cn)' => Fresh(cn) BY <1>2 DEF Fresh, Waiting
<1>7. ASSUME NEW m \in Server, Running(m)', socket_id'[m] # BAD_SOCKET PROVE Received(m)'
  <2>1. Received(m) /\ socket_id[m] \in Conns /\ index[m] \in Int
    BY <1>1, <1>2, <1>7 DEF DataInv, Running, ServerTypeOK
  <2>2. socket_id[m][1] \in Program BY <1>1, <2>1, ConnFacts DEF ServerTypeOK
  <2>3. Intact(socket_id[m], index[m])' BY <1>2, <2>1 DEF Received, Intact, Units, Piece
  <2> QED BY <1>2, <2>1, <2>2, <2>3 DEF Received
<1>8. DataInv'
  <2>1. \A cn \in Conns : Fresh(cn)' => Intact(cn, 0)' BY <1>1, <1>6 DEF DataInv
  <2> QED BY <1>3, <1>7, <2>1 DEF DataInv
<1> QED BY <1>4, <1>5, <1>8 DEF ServerInv

(* A client that is killed: its connections end with what has arrived. *)
LEMMA KilledKeeps ==
  ASSUME ServerInv, NEW p \in Program, Killed(p), UNCHANGED <<kind, load, main, param, threadVars>>
  PROVE  ServerInv'
<1>1. ServerTypeOK /\ Sockets /\ ClientInv BY DEF ServerInv
<1>2. /\ client' = [client EXCEPT ![p].pc = "killed"] /\ eof' = eof \cup Connections(p)
      /\ UNCHANGED <<backlog, accepted, inbox>>
  BY DEF Killed
<1>3. Conns' = Conns /\ Program' = Program BY SameConns
<1>4. /\ client' \in [Program -> [pc : {"connect", "send", "closed", "killed"},
                                  index : Nat, k : Nat, sent : Nat]]
      /\ client'[p].pc = "killed" /\ \A q \in Program : q # p => client'[q] = client[q]
  BY <1>1, <1>2 DEF ServerTypeOK
<1>5. eof' \subseteq Conns BY <1>1, <1>2 DEF ServerTypeOK, Conns
<1>6. Sockets'
  <2>1. \A q \in Program : client'[q].pc = "connect" => client[q].pc = "connect" /\ client'[q] = client[q]
    BY <1>4
  <2>2. UNCHANGED <<socket_id, backlog, accepted>> BY <1>2 DEF threadVars
  <2> QED BY <1>1, <1>3, <2>1, <2>2 DEF Sockets
<1>7. ClientInv'
  <2>1. ASSUME NEW q \in Program PROVE ClientOK(q)'
    <3>1. CASE q = p BY <1>4, <3>1 DEF ClientOK
    <3>2. CASE q # p BY <1>1, <1>4, <3>2 DEF ClientInv, ClientOK, Piece
    <3> QED BY <3>1, <3>2
  <2>2. ASSUME NEW cn \in eof' PROVE client'[cn[1]].pc \in {"closed", "killed"}
    <3>1. CASE cn \in Connections(p) BY <1>4, <3>1 DEF Connections
    <3>2. CASE cn \in eof
      <4>1. cn[1] \in Program BY <1>1, <3>2, ConnFacts DEF ServerTypeOK
      <4> QED BY <1>1, <1>4, <3>2, <4>1 DEF ClientInv
    <3> QED BY <1>2, <2>2, <3>1, <3>2
  <2> QED BY <1>3, <2>1, <2>2 DEF ClientInv
<1>8. ASSUME NEW cn \in Conns, NEW b \in Int, Intact(cn, b) PROVE Intact(cn, b)'
  <2>1. cn[1] \in Program BY <1>1, ConnFacts DEF ServerTypeOK
  <2>2. CASE cn[1] = p BY <1>2, <1>4, <1>8, <2>2 DEF Intact
  <2>3. CASE cn[1] # p
    <3>1. client'[cn[1]] = client[cn[1]] BY <1>4, <2>1, <2>3
    <3>2. Units(cn)' = Units(cn) BY <3>1 DEF Units, Piece
    <3> QED BY <1>2, <1>8, <3>1, <3>2 DEF Intact
  <2> QED BY <2>2, <2>3
<1>9. backlog' \in Seq(Conns) /\ inbox' \in [Conns -> Seq(Nat)] BY <1>1, <1>2 DEF ServerTypeOK
<1>10. \A q \in Program : client[q].pc = "killed" => client'[q].pc = "killed" BY <1>4
<1>11. UNCHANGED <<kind, load, main, param, threadVars, accepted>> BY <1>2
<1> QED BY <1>4, <1>5, <1>6, <1>7, <1>8, <1>9, <1>10, <1>11, ClientMoves

(* A client that connects: the connection waits, and nothing is sent before *)
(* the last one has been made.                                              *)
LEMMA ConnectKeeps ==
  ASSUME ServerInv, NEW p \in Program, Connect(p), UNCHANGED <<kind, load, main, param, threadVars>>
  PROVE  ServerInv'
<1>1. ServerTypeOK /\ Sockets /\ ClientInv BY DEF ServerInv
<1>2. PICK K : K = client[p].k OBVIOUS
<1>3. /\ client[p].pc = "connect" /\ backlog' = Append(backlog, <<p, K>>)
      /\ client' = [client EXCEPT ![p] =
           IF K + 1 = load[p] THEN [client[p] EXCEPT !.pc = "send", !.k = 0]
           ELSE [client[p] EXCEPT !.k = K + 1]]
      /\ UNCHANGED <<accepted, inbox, eof>>
  BY <1>1, <1>2 DEF Connect, ServerTypeOK
<1>4. /\ client[p] \in [pc : {"connect", "send", "closed", "killed"}, index : Nat, k : Nat, sent : Nat]
      /\ K \in Nat /\ K < load[p] /\ client[p].index = 0 /\ client[p].sent = 0 /\ load[p] \in Nat
  <2>1. load[p] \in Nat BY <1>1, LenProperties, ElementOfSeq DEF ServerTypeOK, Program
  <2>2. client[p] \in [pc : {"connect", "send", "closed", "killed"}, index : Nat, k : Nat, sent : Nat]
    BY <1>1 DEF ServerTypeOK
  <2>3. ClientOK(p) BY <1>1 DEF ClientInv
  <2>4. K < load[p] /\ client[p].index = 0 /\ client[p].sent = 0 BY <1>2, <1>3, <2>3 DEF ClientOK
  <2> QED BY <1>2, <2>1, <2>2, <2>4
<1>5. PICK r : r = (IF K + 1 = load[p] THEN [client[p] EXCEPT !.pc = "send", !.k = 0]
                    ELSE [client[p] EXCEPT !.k = K + 1])
  OBVIOUS
<1>6. /\ r \in [pc : {"connect", "send", "closed", "killed"}, index : Nat, k : Nat, sent : Nat]
      /\ r.index = 0 /\ r.sent = 0
      /\ \/ K + 1 = load[p] /\ r.pc = "send" /\ r.k = 0
         \/ K + 1 # load[p] /\ r.pc = "connect" /\ r.k = K + 1
  <2>1. client[p].pc = "connect" BY <1>3
  <2>2. CASE K + 1 = load[p]
    <3>1. r = [client[p] EXCEPT !.pc = "send", !.k = 0] BY <1>5, <2>2
    <3> QED BY <1>4, <2>2, <3>1
  <2>3. CASE K + 1 # load[p]
    <3>1. r = [client[p] EXCEPT !.k = K + 1] /\ K + 1 \in Nat BY <1>4, <1>5, <2>3
    <3> QED BY <1>4, <2>1, <2>3, <3>1
  <2> QED BY <2>2, <2>3
<1>7. /\ client' \in [Program -> [pc : {"connect", "send", "closed", "killed"},
                                  index : Nat, k : Nat, sent : Nat]]
      /\ client'[p] = r /\ \A q \in Program : q # p => client'[q] = client[q]
  <2>1. client' = [client EXCEPT ![p] = r] BY <1>1, <1>3, <1>5 DEF ServerTypeOK
  <2> QED BY <1>1, <1>6, <2>1 DEF ServerTypeOK
<1>8. Conns' = Conns /\ Program' = Program BY SameConns
<1>9. <<p, K>> \in Conns BY <1>1, <1>4, ConnIn DEF ServerTypeOK
<1>10. PICK h : h = <<p, K>> OBVIOUS
<1>11. /\ backlog' \in Seq(Conns) /\ Len(backlog) \in Nat /\ Len(backlog') = Len(backlog) + 1
       /\ backlog'[Len(backlog) + 1] = h
       /\ \A j \in 1..Len(backlog) : backlog'[j] = backlog[j]
  BY <1>1, <1>3, <1>9, <1>10, AppendProperties, LenProperties DEF ServerTypeOK
<1>12. \A j \in 1..Len(backlog') : j \in 1..Len(backlog) \/ j = Len(backlog) + 1 BY <1>11
<1>13. h \notin DOMAIN accepted /\ \A j \in 1..Len(backlog) : backlog[j] # h
  BY <1>1, <1>2, <1>3, <1>4, <1>10 DEF Sockets
<1>14. Sockets'
  <2>1. UNCHANGED <<socket_id, accepted>> BY <1>3 DEF threadVars
  <2>2. ASSUME NEW j \in 1..Len(backlog')
        PROVE  /\ backlog'[j] \notin DOMAIN accepted
               /\ \A l \in 1..Len(backlog') : backlog'[j] = backlog'[l] => j = l
    <3>1. CASE j \in 1..Len(backlog) BY <1>1, <1>11, <1>12, <1>13, <3>1 DEF Sockets
    <3>2. CASE j = Len(backlog) + 1 BY <1>11, <1>12, <1>13, <3>2
    <3> QED BY <1>12, <3>1, <3>2
  <2>3. ASSUME NEW q \in Program, client'[q].pc = "connect", NEW k \in Nat, k >= client'[q].k
        PROVE  /\ <<q, k>> \notin DOMAIN accepted
               /\ \A j \in 1..Len(backlog') : backlog'[j] # <<q, k>>
    <3>1. client[q].pc = "connect" /\ k >= client[q].k /\ <<q, k>> # h
      <4>1. CASE q = p
        <5>1. k >= K + 1 BY <1>6, <1>7, <2>3, <4>1
        <5>2. k >= K /\ k # K BY <1>4, <5>1
        <5> QED BY <1>2, <1>3, <1>10, <4>1, <5>2
      <4>2. CASE q # p BY <1>7, <1>10, <2>3, <4>2
      <4> QED BY <4>1, <4>2
    <3>2. <<q, k>> \notin DOMAIN accepted /\ \A j \in 1..Len(backlog) : backlog[j] # <<q, k>>
      BY <1>1, <3>1 DEF Sockets
    <3> QED BY <1>11, <1>12, <3>1, <3>2
  <2>4. \A n \in Server : socket_id[n] # BAD_SOCKET =>
          socket_id[n] \in DOMAIN accepted /\ accepted[socket_id[n]] = n
    BY <1>1 DEF Sockets
  <2> QED BY <1>8, <2>1, <2>2, <2>3, <2>4 DEF Sockets
<1>15. ClientInv'
  <2>1. ASSUME NEW q \in Program PROVE ClientOK(q)'
    <3>1. CASE q = p
      <4>1. r.k < load[p] BY <1>4, <1>6
      <4>2. 0 < tracesize /\ 0 < PACKET_SIZE /\ tracesize \in Nat /\ PACKET_SIZE \in Nat BY ServerAssumption
      <4>3. Piece(p)' = IF tracesize - 0 >= PACKET_SIZE THEN PACKET_SIZE ELSE tracesize - 0
        BY <1>6, <1>7 DEF Piece
      <4>4. 0 < Piece(p)' BY <4>2, <4>3
      <4> QED BY <1>6, <1>7, <3>1, <4>1, <4>2, <4>4 DEF ClientOK
    <3>2. CASE q # p BY <1>1, <1>7, <3>2 DEF ClientInv, ClientOK, Piece
    <3> QED BY <3>1, <3>2
  <2>2. ASSUME NEW cn \in eof PROVE client'[cn[1]].pc \in {"closed", "killed"}
    <3>1. cn[1] \in Program BY <1>1, <2>2, ConnFacts DEF ServerTypeOK
    <3>2. client[cn[1]].pc \in {"closed", "killed"} BY <1>1, <2>2 DEF ClientInv
    <3>3. cn[1] # p BY <1>3, <3>2
    <3> QED BY <1>7, <3>1, <3>2, <3>3
  <2> QED BY <1>3, <1>8, <2>1, <2>2 DEF ClientInv
<1>16. ASSUME NEW cn \in Conns, NEW b \in Int, Intact(cn, b) PROVE Intact(cn, b)'
  <2>1. cn[1] \in Program /\ cn[2] \in Nat BY <1>1, ConnFacts DEF ServerTypeOK
  <2>2. Units(cn)' = Units(cn) /\ (client'[cn[1]].pc # "killed" => client[cn[1]].pc # "killed")
    <3>1. CASE cn[1] = p
      <4>1. Units(cn) = 0 BY <1>3, <3>1 DEF Units
      <4>2. Units(cn)' = 0 BY <1>6, <1>7, <2>1, <3>1 DEF Units
      <4> QED BY <1>3, <3>1, <4>1, <4>2
    <3>2. CASE cn[1] # p
      <4>1. client'[cn[1]] = client[cn[1]] BY <1>7, <2>1, <3>2
      <4> QED BY <4>1 DEF Units, Piece
    <3> QED BY <3>1, <3>2
  <2> QED BY <1>3, <1>16, <2>2 DEF Intact
<1>17. inbox' \in [Conns -> Seq(Nat)] /\ eof' \subseteq Conns BY <1>1, <1>3 DEF ServerTypeOK
<1>18. \A q \in Program : client[q].pc = "killed" => client'[q].pc = "killed" BY <1>3, <1>7
<1>19. UNCHANGED <<kind, load, main, param, threadVars, accepted>> BY <1>3
<1> QED BY <1>7, <1>11, <1>14, <1>15, <1>16, <1>17, <1>18, <1>19, ClientMoves

(* One more unit is sent: it continues what has arrived, and the client     *)
(* goes on where it has to, in the piece, to the next connection or to the  *)
(* next piece, or it has sent everything on all of its connections.         *)
LEMMA SendKeeps ==
  ASSUME ServerInv, NEW p \in Program, Send(p), UNCHANGED <<kind, load, main, param, threadVars>>
  PROVE  ServerInv'
<1>1. ServerTypeOK /\ Sockets /\ ClientInv BY DEF ServerInv
<1>2. PICK I, K, S, P, L, cn :
        /\ I = client[p].index /\ K = client[p].k /\ S = client[p].sent /\ P = Piece(p) /\ L = load[p]
        /\ cn = <<p, K>>
  OBVIOUS
<1>3. client[p] \in [pc : {"connect", "send", "closed", "killed"}, index : Nat, k : Nat, sent : Nat]
  BY <1>1 DEF ServerTypeOK
<1>4. tracesize \in Nat \ {0} /\ PACKET_SIZE \in Nat \ {0} BY ServerAssumption
<1>5. /\ I \in Nat /\ K \in Nat /\ S \in Nat /\ L \in Nat /\ P \in Nat
      /\ K < L /\ I < tracesize /\ S < P /\ I + P <= tracesize
      /\ client[p].pc = "send"
  <2>1. L \in Nat BY <1>1, <1>2, LenProperties, ElementOfSeq DEF ServerTypeOK, Program
  <2>2. client[p].pc = "send" BY DEF Send
  <2>3. ClientOK(p) BY <1>1 DEF ClientInv
  <2>4. K < L /\ I < tracesize /\ S < P BY <1>2, <2>2, <2>3 DEF ClientOK
  <2>5. P = IF tracesize - I >= PACKET_SIZE THEN PACKET_SIZE ELSE tracesize - I BY <1>2 DEF Piece
  <2>6. I \in Nat /\ K \in Nat /\ S \in Nat BY <1>2, <1>3
  <2>7. P \in Nat /\ I + P <= tracesize BY <1>4, <2>4, <2>5, <2>6
  <2> QED BY <2>1, <2>2, <2>4, <2>6, <2>7
<1>6. PICK r :
        /\ client' = [client EXCEPT ![p] = r]
        /\ r = IF S + 1 = P /\ K + 1 = L /\ I + P = tracesize
               THEN [client[p] EXCEPT !.pc = "closed", !.index = tracesize]
               ELSE IF ~(S + 1 = P) THEN [client[p] EXCEPT !.sent = S + 1]
               ELSE IF K + 1 < L THEN [client[p] EXCEPT !.sent = 0, !.k = K + 1]
               ELSE [client[p] EXCEPT !.sent = 0, !.k = 0, !.index = I + P]
  BY <1>2 DEF Send
<1>7. /\ inbox' = [inbox EXCEPT ![cn] = Append(inbox[cn], I + S + 1)]
      /\ eof' = IF S + 1 = P /\ K + 1 = L /\ I + P = tracesize THEN eof \cup Connections(p) ELSE eof
      /\ UNCHANGED <<backlog, accepted>>
  <2>1. cn \in Conns BY <1>1, <1>2, <1>5, ConnIn DEF ServerTypeOK
  <2> QED BY <1>1, <1>2, <2>1 DEF Send, ServerTypeOK
<1>8. /\ r \in [pc : {"connect", "send", "closed", "killed"}, index : Nat, k : Nat, sent : Nat]
      /\ \/ /\ S + 1 = P /\ K + 1 = L /\ I + P = tracesize
            /\ r.pc = "closed"
         \/ /\ S + 1 # P
            /\ r.pc = "send" /\ r.index = I /\ r.k = K /\ r.sent = S + 1
         \/ /\ S + 1 = P /\ K + 1 < L
            /\ r.pc = "send" /\ r.index = I /\ r.k = K + 1 /\ r.sent = 0
         \/ /\ S + 1 = P /\ K + 1 = L /\ I + P < tracesize
            /\ r.pc = "send" /\ r.index = I + P /\ r.k = 0 /\ r.sent = 0
  <2>1. CASE S + 1 = P /\ K + 1 = L /\ I + P = tracesize
    <3>1. r = [client[p] EXCEPT !.pc = "closed", !.index = tracesize] BY <1>6, <2>1
    <3> QED BY <1>3, <1>4, <2>1, <3>1
  <2>2. CASE S + 1 # P
    <3>1. r = [client[p] EXCEPT !.sent = S + 1] /\ S + 1 \in Nat BY <1>5, <1>6, <2>2
    <3> QED BY <1>2, <1>3, <1>5, <2>2, <3>1
  <2>3. CASE S + 1 = P /\ K + 1 < L
    <3>1. r = [client[p] EXCEPT !.sent = 0, !.k = K + 1] /\ K + 1 \in Nat BY <1>5, <1>6, <2>3
    <3> QED BY <1>2, <1>3, <1>5, <2>3, <3>1
  <2>4. CASE S + 1 = P /\ K + 1 = L /\ I + P # tracesize
    <3>1. r = [client[p] EXCEPT !.sent = 0, !.k = 0, !.index = I + P] /\ I + P \in Nat /\ I + P < tracesize
      BY <1>4, <1>5, <1>6, <2>4
    <3> QED BY <1>3, <1>5, <2>4, <3>1
  <2> QED BY <1>5, <2>1, <2>2, <2>3, <2>4
<1>9. /\ client' \in [Program -> [pc : {"connect", "send", "closed", "killed"},
                                  index : Nat, k : Nat, sent : Nat]]
      /\ client'[p] = r /\ \A q \in Program : q # p => client'[q] = client[q]
  BY <1>1, <1>6, <1>8 DEF ServerTypeOK
<1>10. Conns' = Conns /\ Program' = Program BY SameConns
<1>11. cn \in Conns /\ cn[1] = p /\ cn[2] = K BY <1>1, <1>2, <1>5, ConnIn DEF ServerTypeOK
<1>12. PICK x, u : x = inbox[cn] /\ u = I + S + 1 OBVIOUS
<1>13. x \in Seq(Nat) /\ u \in Nat /\ Len(x) \in Nat BY <1>1, <1>5, <1>11, <1>12, LenProperties DEF ServerTypeOK
<1>14. /\ Append(x, u) \in Seq(Nat) /\ Len(Append(x, u)) = Len(x) + 1
       /\ Append(x, u)[Len(x) + 1] = u /\ \A j \in 1..Len(x) : Append(x, u)[j] = x[j]
  BY <1>13, AppendProperties
<1>15. /\ inbox' \in [Conns -> Seq(Nat)] /\ inbox'[cn] = Append(x, u)
       /\ \A d \in Conns : d # cn => inbox'[d] = inbox[d]
  BY <1>1, <1>7, <1>11, <1>12, <1>14 DEF ServerTypeOK
<1>16. eof' \subseteq Conns BY <1>1, <1>7 DEF ServerTypeOK, Conns
<1>17. Sockets'
  <2>1. r.pc # "connect" BY <1>8
  <2>2. \A q \in Program : client'[q].pc = "connect" => client[q].pc = "connect" /\ client'[q] = client[q]
    BY <1>9, <2>1
  <2>3. UNCHANGED <<socket_id, backlog, accepted>> BY <1>7 DEF threadVars
  <2> QED BY <1>1, <1>10, <2>2, <2>3 DEF Sockets
<1>18. Piece(p)' = IF tracesize - r.index >= PACKET_SIZE THEN PACKET_SIZE ELSE tracesize - r.index
  BY <1>9 DEF Piece
<1>19. r.index = I => Piece(p)' = P BY <1>2, <1>18 DEF Piece
<1>20. ClientInv'
  <2>1. ClientOK(p)'
    <3>1. r.pc = "send" => r.k < L /\ r.index < tracesize /\ r.sent < Piece(p)'
      <4>1. CASE r.pc = "closed" BY <4>1
      <4>2. CASE S + 1 # P /\ r.index = I /\ r.k = K /\ r.sent = S + 1 BY <1>5, <1>19, <4>2
      <4>3. CASE K + 1 < L /\ r.index = I /\ r.k = K + 1 /\ r.sent = 0 BY <1>5, <1>19, <4>3
      <4>4. CASE r.index = I + P /\ r.index < tracesize /\ r.k = 0 /\ r.sent = 0
        BY <1>4, <1>5, <1>18, <4>4
      <4> QED BY <1>8, <4>1, <4>2, <4>3, <4>4
    <3>2. r.pc # "connect" BY <1>8
    <3> QED BY <1>2, <1>9, <3>1, <3>2 DEF ClientOK
  <2>2. ASSUME NEW q \in Program PROVE ClientOK(q)'
    <3>1. CASE q = p BY <2>1, <3>1
    <3>2. CASE q # p BY <1>1, <1>9, <3>2 DEF ClientInv, ClientOK, Piece
    <3> QED BY <3>1, <3>2
  <2>3. ASSUME NEW d \in eof' PROVE client'[d[1]].pc \in {"closed", "killed"}
    <3>1. CASE d \in eof
      <4>1. d[1] \in Program BY <1>1, <3>1, ConnFacts DEF ServerTypeOK
      <4>2. client[d[1]].pc \in {"closed", "killed"} BY <1>1, <3>1 DEF ClientInv
      <4>3. d[1] # p BY <1>5, <4>2
      <4> QED BY <1>9, <4>1, <4>2, <4>3
    <3>2. CASE d \notin eof
      <4>1. d \in Connections(p) /\ S + 1 = P /\ K + 1 = L /\ I + P = tracesize BY <1>7, <2>3, <3>2
      <4>2. d[1] = p BY <4>1 DEF Connections
      <4>3. ~(K + 1 < L) /\ ~(I + P < tracesize) BY <1>4, <1>5, <4>1
      <4>4. r.pc = "closed" BY <1>8, <4>1, <4>3
      <4> QED BY <1>9, <4>2, <4>4
    <3> QED BY <3>1, <3>2
  <2> QED BY <1>10, <2>2, <2>3 DEF ClientInv
<1>21. ASSUME NEW d \in Conns, d[1] = p
       PROVE  Units(d)' = IF d = cn THEN Units(d) + 1 ELSE Units(d)
  <2>1. d[2] \in Nat /\ d[2] < L /\ d = <<p, d[2]>> BY <1>1, <1>2, <1>21, ConnFacts DEF ServerTypeOK
  <2>2. d = cn <=> d[2] = K BY <1>2, <1>11, <2>1
  <2>3. Units(d) = IF d[2] < K THEN I + P ELSE IF d[2] = K THEN I + S ELSE I
    BY <1>2, <1>5, <1>21 DEF Units
  <2>4. Units(d)' = IF r.pc = "closed" THEN tracesize
                    ELSE IF d[2] < r.k THEN r.index + Piece(p)'
                    ELSE IF d[2] = r.k THEN r.index + r.sent ELSE r.index
    BY <1>8, <1>9, <1>21 DEF Units
  <2>5. CASE S + 1 = P /\ K + 1 = L /\ I + P = tracesize /\ r.pc = "closed"
    BY <1>4, <1>5, <2>1, <2>2, <2>3, <2>4, <2>5
  <2>6. CASE r.pc = "send" /\ r.index = I /\ r.k = K /\ r.sent = S + 1
    BY <1>4, <1>5, <1>19, <2>1, <2>2, <2>3, <2>4, <2>6
  <2>7. CASE S + 1 = P /\ r.pc = "send" /\ r.index = I /\ r.k = K + 1 /\ r.sent = 0
    BY <1>4, <1>5, <1>19, <2>1, <2>2, <2>3, <2>4, <2>7
  <2>8. CASE S + 1 = P /\ K + 1 = L /\ r.pc = "send" /\ r.index = I + P /\ r.k = 0 /\ r.sent = 0
    BY <1>4, <1>5, <2>1, <2>2, <2>3, <2>4, <2>8
  <2> QED BY <1>8, <2>5, <2>6, <2>7, <2>8
<1>22. ASSUME NEW d \in Conns, NEW b \in Int, Intact(d, b) PROVE Intact(d, b)'
  <2>1. d[1] \in Program BY <1>1, ConnFacts DEF ServerTypeOK
  <2>2. CASE d = cn
    <3>1. b + Len(x) = Units(cn) /\ \A j \in 1..Len(x) : x[j] = b + j
      BY <1>5, <1>11, <1>12, <1>22, <2>2 DEF Intact
    <3>2. Units(cn) = I + S BY <1>2, <1>5, <1>11 DEF Units
    <3>3. Units(cn)' = Units(cn) + 1 BY <1>11, <1>21
    <3>4. u = b + (Len(x) + 1) /\ b + (Len(x) + 1) = Units(cn) + 1
      <4>1. PICK l : l = Len(x) OBVIOUS
      <4>2. l \in Nat /\ b + l = I + S BY <1>13, <3>1, <3>2, <4>1
      <4>3. I + S + 1 = b + (l + 1) BY <1>5, <4>2
      <4> QED BY <1>12, <3>2, <4>1, <4>3
    <3>5. ASSUME NEW j \in 1..Len(inbox'[cn]) PROVE inbox'[cn][j] = b + j
      <4>1. j \in 1..Len(x) \/ j = Len(x) + 1 BY <1>13, <1>14, <1>15
      <4> QED BY <1>14, <1>15, <3>1, <3>4, <4>1
    <3>6. b + Len(inbox'[cn]) = Units(cn)' BY <1>14, <1>15, <3>3, <3>4
    <3> QED BY <2>2, <3>5, <3>6 DEF Intact
  <2>3. CASE d # cn /\ d[1] = p BY <1>5, <1>15, <1>21, <1>22, <2>3 DEF Intact
  <2>4. CASE d[1] # p
    <3>1. client'[d[1]] = client[d[1]] BY <1>9, <2>1, <2>4
    <3>2. Units(d)' = Units(d) BY <3>1 DEF Units, Piece
    <3>3. inbox'[d] = inbox[d] BY <1>11, <1>15, <2>4
    <3> QED BY <1>22, <3>1, <3>2, <3>3 DEF Intact
  <2> QED BY <2>2, <2>3, <2>4
<1>23. backlog' \in Seq(Conns) BY <1>1, <1>7 DEF ServerTypeOK
<1>24. \A q \in Program : client[q].pc = "killed" => client'[q].pc = "killed" BY <1>5, <1>9
<1>25. UNCHANGED <<kind, load, main, param, threadVars, accepted>> BY <1>7
<1> QED BY <1>9, <1>15, <1>16, <1>17, <1>20, <1>22, <1>23, <1>24, <1>25, ClientMoves

-----------------------------------------------------------------------------
(* Hence the invariant is inductive. *)
LEMMA ServerInvNext ==
  ASSUME ServerInv, [ServerNext]_serverVars
  PROVE  ServerInv'
<1>1. CASE Main
  <2>1. /\ kind = "threads" /\ UNCHANGED <<kind, load, client>>
        /\ AcceptAll \/ AllAccepted \/ Create \/ ProcessOwn \/ ReadFlag \/ NextRound
    BY <1>1 DEF Main
  <2> QED BY <2>1, AcceptAllKeeps, MainKeeps, StartKeeps
<1>2. ASSUME NEW n \in Server, ServerStep(n) PROVE ServerInv'
  <2>1. /\ Recv(n) \/ RecvFails(n) \/ EndOfTrace(n) \/ Traverse(n) \/ Exit(n)
        /\ UNCHANGED <<kind, load, eof, client, main, param>>
    BY <1>2 DEF ServerStep
  <2> QED BY <2>1, RecvKeeps, EndKeeps
<1>3. ASSUME NEW n \in Server, AcceptNext(n) PROVE ServerInv'
  BY <1>3, AcceptNextKeeps
<1>4. ASSUME NEW p \in Program, ClientStep(p) \/ Crash(p) PROVE ServerInv'
  <2>1. (Connect(p) \/ Send(p) \/ Killed(p)) /\ UNCHANGED <<kind, load, main, param, threadVars>>
    BY <1>4 DEF ClientStep, Crash
  <2> QED BY <2>1, ConnectKeeps, SendKeeps, KilledKeeps
<1>5. CASE UNCHANGED serverVars
  <2>1. /\ UNCHANGED <<kind, load, backlog, accepted, inbox, eof, client, main, param>>
        /\ UNCHANGED threadVars
    BY <1>5 DEF serverVars, netVars, threadVars
  <2>2. ServerTypeOK /\ Sockets BY DEF ServerInv
  <2>3. /\ ClientInv' /\ \A cn, b : Intact(cn, b)' <=> Intact(cn, b)
        /\ (client \in [Program -> [pc : {"connect", "send", "closed", "killed"},
                                     index : Nat, k : Nat, sent : Nat]])'
        /\ (inbox \in [Conns -> Seq(Nat)])' /\ (eof \subseteq Conns)'
    BY <2>1, ClientsKept
  <2>4. Sockets' BY <2>1, <2>2, SocketsKept DEF threadVars
  <2>5. Conns' = Conns /\ Program' = Program BY <2>1, SameConns
  <2>6. \A p \in Program : client[p].pc = "killed" => client'[p].pc = "killed" BY <2>1
  <2>7. backlog' \in Seq(Conns) BY <2>1, <2>2 DEF ServerTypeOK
  <2>8. \A cn \in Conns, b \in Int : Intact(cn, b) => Intact(cn, b)' BY <2>3
  <2> QED BY <2>1, <2>3, <2>4, <2>5, <2>6, <2>7, <2>8, ClientMoves
<1> QED BY <1>1, <1>2, <1>3, <1>4, <1>5 DEF ServerNext

(* The invariant holds for every number of servers, clients, connections   *)
(* and units, whichever server it is.                                      *)
THEOREM ServerInvariant == ServerSpec => []ServerInv
<1>1. ServerInit => ServerInv BY ServerInvInit
<1>2. ServerInv /\ [ServerNext]_serverVars => ServerInv' BY ServerInvNext
<1> QED BY <1>1, <1>2, PTL DEF ServerSpec

(* Rounds stay apart: while main_pthread accepts the connections of a round *)
(* no thread of the round before is at work, and a connection is received   *)
(* by one thread only, although the flags are read without a lock.          *)
THEOREM RoundsStayApart == ServerSpec => []RoundsDoNotMix
<1>1. ServerInv => RoundsDoNotMix
  <2> SUFFICES ASSUME ServerInv PROVE RoundsDoNotMix OBVIOUS
  <2>1. Flags /\ Sockets BY DEF ServerInv
  <2>2. kind = "threads" /\ main = "accept" => \A n \in Server : ~Running(n) BY <2>1 DEF Flags
  <2> QED BY <2>1, <2>2, SocketsDiffer DEF RoundsDoNotMix
<1> QED BY <1>1, ServerInvariant, PTL

(* What a thread or process traverses is the trace its client has sent: the *)
(* pieces that recv returns and the turns the client takes between its      *)
(* connections lose, repeat and reorder nothing.                            *)
THEOREM TracesAreHandedOver == ServerSpec => []HandsOverWhatWasSent
<1>1. ServerInv => HandsOverWhatWasSent
  <2> SUFFICES ASSUME ServerInv, NEW n \in Server, Running(n), socket_id[n] # BAD_SOCKET
               PROVE  /\ SubSeq(trace[n], 1, index[n]) = [k \in 1..index[n] |-> k]
                      /\ doing[n] = "traverse" /\ client[socket_id[n][1]].pc # "killed" => index[n] = tracesize
    BY DEF HandsOverWhatWasSent
  <2>1. Received(n) /\ trace[n] \in Seq(Nat) BY DEF ServerInv, DataInv, ServerTypeOK
  <2>2. PICK s, b : s = trace[n] /\ b = index[n] OBVIOUS
  <2>3. s \in Seq(Nat) /\ b = Len(s) /\ b \in Nat /\ \A k \in 1..b : s[k] = k
    BY <2>1, <2>2, LenProperties DEF Received
  <2>4. PICK z : z = SubSeq(s, 1, b) OBVIOUS
  <2>5. z = s
    <3>1. \A k \in 1..b : s[k] \in Nat BY <2>3
    <3> QED BY <2>3, <2>4, <3>1, SubSeqFull
  <2>6. s = [k \in 1..b |-> k]
    <3>1. s = [k \in 1..b |-> s[k]] BY <2>3
    <3> QED BY <2>3, <3>1
  <2> QED BY <2>1, <2>2, <2>4, <2>5, <2>6 DEF Received
<1> QED BY <1>1, ServerInvariant, PTL

-----------------------------------------------------------------------------
(* The reduction, as the runs have it *)

(* remove_epsilon, remove_duplicates and reduce build an equivalent NFA     *)
(* (nfa.h:331) of the rules, as long as every merge is of states with the   *)
(* same transitions.                                                       *)
THEOREM ReducedNfaRuns ==
  Reduction!ReductionSpec /\ []Reduction!MergesKeepTransitions => []SameRules
BY Reduction!ReductionKeepsRules, ReducibleNfas DEF SameRules
===============================================================================
