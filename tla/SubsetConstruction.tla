------------------------- MODULE SubsetConstruction -------------------------
(***************************************************************************)
(* NFA::nfa2dfa of generator/nfa.c: the subset construction, with the      *)
(* queue of DFA states to process, the map from sets of NFA states to DFA  *)
(* states (subset.c) and the growing DFA (DFA::add_state of dfa.c).        *)
(***************************************************************************)
EXTENDS Integers, Sequences

CONSTANTS
  NState,      \* NFA states are 0..NState-1
  Initial,     \* the state nfa2dfa is called on
  CSize,       \* CSIZE: symbols are 0..CSIZE-1
  Rule,        \* accepted rules
  Nfas,        \* the NFAs it may be called with
  MaxDfaSize   \* MAX_DFA_SIZE

NFA == 0..NState-1
Symbol == 0..CSize-1
NO_STATE == -1

ASSUME NfaAssumption ==
  /\ NState \in Nat \ {0} /\ CSize \in Nat \ {0} /\ Initial \in NFA
  /\ Nfas \subseteq [transitions : [NFA \X Symbol -> SUBSET NFA],
                     epsilon     : [NFA -> SUBSET NFA],
                     accepting   : [NFA -> SUBSET Rule]]
  /\ MaxDfaSize \in Nat \ {0}

VARIABLES
  nfa,         \* the NFA
  pc,          \* "dequeue", "symbols", "done", "failed"
  queue,       \* queue and mapping_queue: pairs of a DFA state and its set
  mapping,     \* set of NFA states -> DFA state
  size,        \* _size of the DFA
  state_table, \* state_table[i][c]
  accepts,     \* accepted_rules[i]
  marking,     \* the DFA states that are marked
  dead_state,
  state,       \* the DFA state being processed
  cl_state,    \* its set of NFA states
  i            \* the symbol to be processed next

dfaVars == <<mapping, size, state_table, accepts, marking, dead_state>>
subsetVars == <<nfa, pc, queue, dfaVars, state, cl_state, i>>

-----------------------------------------------------------------------------
(* epsilon_closure: the least set with s that no epsilon transition leaves *)
epsilon_closure(s) ==
  {q \in NFA : \A C \in SUBSET NFA :
     (s \in C /\ \A r \in C : nfa.epsilon[r] \subseteq C) => q \in C}

(* the closures of the targets on c of a set of states *)
Move(S, c) == UNION {epsilon_closure(q) : q \in UNION {nfa.transitions[<<s, c>>] : s \in S}}

AcceptedBy(S) == UNION {nfa.accepting[s] : s \in S}

Start == epsilon_closure(Initial)

AddTo(f, x, v) == [y \in DOMAIN f \cup {x} |-> IF y = x THEN v ELSE f[y]]

(* Mutants: the number of the state before; every set that accepts nothing *)
(* taken for the dead one.                                                 *)
NewState_Previous(S) ==
  /\ mapping' = AddTo(mapping, S, size - 1)
  /\ size' = size + 1
  /\ accepts' = AddTo(accepts, size, AcceptedBy(S))
  /\ queue' = Append(queue, [dfa |-> size, nfa |-> S])
  /\ dead_state' = IF S = {} THEN size ELSE dead_state
NewState_RejectingIsDead(S) ==
  /\ mapping' = AddTo(mapping, S, size)
  /\ size' = size + 1
  /\ accepts' = AddTo(accepts, size, AcceptedBy(S))
  /\ queue' = Append(queue, [dfa |-> size, nfa |-> S])
  /\ dead_state' = IF AcceptedBy(S) = {} THEN size ELSE dead_state

(* subset::lookup of a set that is not known yet, with DFA::add_state, and *)
(* what nfa2dfa does with the new state.                                   *)
NewState(S) ==
  /\ mapping' = AddTo(mapping, S, size)
  /\ size' = size + 1
  /\ accepts' = AddTo(accepts, size, AcceptedBy(S))
  /\ queue' = Append(queue, [dfa |-> size, nfa |-> S])
  /\ dead_state' = IF S = {} THEN size ELSE dead_state

NoTransitions == [c \in Symbol |-> NO_STATE]

SubsetInit ==
  /\ nfa \in Nfas
  /\ pc = "dequeue"
  /\ queue = <<[dfa |-> 0, nfa |-> Start]>>
  /\ mapping = [S \in {Start} |-> 0]
  /\ size = 1
  /\ state_table = [s \in {0} |-> NoTransitions]
  /\ accepts = [s \in {0} |-> AcceptedBy(Start)]
  /\ marking = {}
  /\ dead_state = NO_STATE
  /\ state = NO_STATE /\ cl_state = {} /\ i = 0

(* each state must be processed only once *)
Dequeue ==
  /\ pc = "dequeue" /\ queue # <<>>
  /\ queue' = Tail(queue)
  /\ state' = Head(queue).dfa /\ cl_state' = Head(queue).nfa
  /\ i' = 0
  /\ IF Head(queue).dfa \in marking
     THEN UNCHANGED <<pc, marking>>
     ELSE pc' = "symbols" /\ marking' = marking \cup {Head(queue).dfa}
  /\ UNCHANGED <<mapping, size, state_table, accepts, dead_state>>

(* add_transition, and the end of the loop over the characters *)
NextSymbol ==
  /\ i' = i + 1
  /\ pc' = IF i + 1 = CSize THEN "dequeue" ELSE "symbols"
  /\ UNCHANGED <<marking, state, cl_state>>

(* Mutant: add_transition only for new targets. *)
KnownTarget_NotStored ==
  /\ pc = "symbols"
  /\ Move(cl_state, i) \in DOMAIN mapping
  /\ NextSymbol
  /\ UNCHANGED <<state_table, queue, mapping, size, accepts, dead_state>>

KnownTarget ==
  /\ pc = "symbols"
  /\ Move(cl_state, i) \in DOMAIN mapping
  /\ state_table' = [state_table EXCEPT ![state][i] = mapping[Move(cl_state, i)]]
  /\ NextSymbol
  /\ UNCHANGED <<queue, mapping, size, accepts, dead_state>>


NewTarget ==
  /\ pc = "symbols"
  /\ Move(cl_state, i) \notin DOMAIN mapping
  /\ size # MaxDfaSize
  /\ NewState(Move(cl_state, i))
  /\ state_table' = AddTo([state_table EXCEPT ![state][i] = size], size, NoTransitions)
  /\ NextSymbol


(* the new state got the number MAX_DFA_SIZE: the DFA is deleted, the      *)
(* result is NULL                                                          *)
TooManyStates ==
  /\ pc = "symbols"
  /\ Move(cl_state, i) \notin DOMAIN mapping
  /\ size = MaxDfaSize
  /\ pc' = "failed"
  /\ UNCHANGED <<queue, dfaVars, state, cl_state, i>>

Finish ==
  /\ pc = "dequeue" /\ queue = <<>>
  /\ pc' = "done"
  /\ UNCHANGED <<queue, dfaVars, state, cl_state, i>>

SubsetNext ==
  /\ Dequeue \/ KnownTarget \/ NewTarget \/ TooManyStates \/ Finish
  /\ UNCHANGED nfa

SubsetSpec == SubsetInit /\ [][SubsetNext]_subsetVars

-----------------------------------------------------------------------------
SubsetTypeOK ==
  /\ nfa \in Nfas
  /\ pc \in {"dequeue", "symbols", "done", "failed"}
  /\ size \in 1..MaxDfaSize
  /\ queue \in Seq([dfa : 0..size-1, nfa : SUBSET NFA])
  /\ DOMAIN mapping \subseteq SUBSET NFA
  /\ mapping \in [DOMAIN mapping -> 0..size-1]
  /\ state_table \in [0..size-1 -> [Symbol -> 0..size-1 \cup {NO_STATE}]]
  /\ accepts \in [0..size-1 -> SUBSET Rule]
  /\ marking \subseteq 0..size-1
  /\ dead_state \in 0..size-1 \cup {NO_STATE}
  /\ state \in 0..size-1 \cup {NO_STATE} /\ cl_state \subseteq NFA
  /\ i \in 0..CSize
  /\ pc = "symbols" => state # NO_STATE /\ i < CSize

(* The finished DFA is the NFA's: there is one state for the start set,    *)
(* and a transition of the state of S on c leads to the state of the set   *)
(* that the NFA moves to, so that every state reached stands for the set   *)
(* of the active NFA states and accepts the rules they accept.             *)
Determinized ==
  pc = "done" =>
    /\ Start \in DOMAIN mapping /\ mapping[Start] = 0
    /\ \A S \in DOMAIN mapping :
         /\ accepts[mapping[S]] = AcceptedBy(S)
         /\ \A c \in Symbol : /\ Move(S, c) \in DOMAIN mapping
                              /\ state_table[mapping[S]][c] = mapping[Move(S, c)]

(* No two sets share a state and no state is without a set: the trie of    *)
(* subset.c gives out every number once.                                   *)
OneStatePerSet ==
  /\ \A S, T \in DOMAIN mapping : mapping[S] = mapping[T] => S = T
  /\ \A s \in 0..size-1 : \E S \in DOMAIN mapping : mapping[S] = s

(* dead_state, which the layouts of tail automata leave out, is the state of *)
(* the empty set: it accepts nothing and is never left.                    *)
DeadStateIsDead ==
  pc = "done" /\ dead_state # NO_STATE =>
    /\ accepts[dead_state] = {}
    /\ \A c \in Symbol : state_table[dead_state][c] = dead_state

=============================================================================
