------------------------------- MODULE Minimize -------------------------------
(***************************************************************************)
(* DFA::minimize of generator/dfa.c: Hopcroft's algorithm and the rewriting *)
(* of the state table in place.  A block is the set of its states; the      *)
(* worklist L of pairs of a block and a symbol is a set, whose elements may *)
(* be picked in any order (the code takes the oldest).  The error state,    *)
(* which the code numbers 0 and shifts the others by one, is NO_STATE.      *)
(***************************************************************************)
EXTENDS Integers, FiniteSets

CONSTANTS
  CSize,  \* CSIZE: symbols are 0..CSize-1
  Rule,   \* accepted rules
  Dfas    \* the DFAs minimize is called on, all of them complete

Symbol == 0..CSize-1
NO_STATE == -1
StatesOf(d) == 0..d.size-1

(* every state has a transition by every symbol *)
Complete(d) ==
  /\ d.size \in Nat \ {0}
  /\ d.state_table \in [StatesOf(d) -> [Symbol -> StatesOf(d)]]
  /\ d.accepted_rules \in [StatesOf(d) -> SUBSET Rule]
  /\ d.dead_state \in StatesOf(d) \cup {NO_STATE}

ASSUME DfaAssumption == CSize \in Nat \ {0} /\ \A d \in Dfas : Complete(d)

VARIABLES
  dfa,            \* the DFA as minimize finds it
  pc,             \* "blocks", "worklist", "refine", "rewrite", "done"
  blocks,         \* the partition of the states and the error state
  L,              \* pairs of a block and a symbol still to be split by
  state_table, accepted_rules, size, dead_state,   \* the DFA as it changes
  i, j            \* the row to be copied next and where it goes

minimizeVars == <<dfa, pc, blocks, L, state_table, accepted_rules, size, dead_state, i, j>>

-----------------------------------------------------------------------------
States == StatesOf(dfa)

(* inv_delta with the error state, which every symbol leads to itself *)
Target(s, c) == IF s = NO_STATE THEN NO_STATE ELSE dfa.state_table[s][c]

MinimizeInit ==
  /\ dfa \in Dfas
  /\ pc = "blocks"
  /\ blocks = {} /\ L = {}
  /\ state_table = dfa.state_table /\ accepted_rules = dfa.accepted_rules
  /\ size = dfa.size /\ dead_state = dfa.dead_state
  /\ i = 0 /\ j = 0

(* "could s be equivalent with t" *)
SameAcceptance(s, t) == dfa.accepted_rules[s] = dfa.accepted_rules[t]

(* b0 has the error state alone, the other blocks the states that accept   *)
(* the same rules.                                                         *)
InitializeBlocks ==
  /\ pc = "blocks"
  /\ blocks' = {{NO_STATE}} \cup {{t \in States : SameAcceptance(s, t)} : s \in States}
  /\ pc' = "worklist"
  /\ UNCHANGED <<L, i, j, state_table, accepted_rules, size>>

(* Mutant: the symbol 0 only. *)
InitializeWorklist_FirstSymbol ==
  /\ pc = "worklist"
  /\ \E B_max \in blocks :
       /\ \A B \in blocks : Cardinality(B) <= Cardinality(B_max)
       /\ L' = (blocks \ {B_max}) \X {0}
  /\ pc' = "refine"
  /\ UNCHANGED <<blocks, i, j, state_table, accepted_rules, size>>

(* all pairs but those of a largest block *)
InitializeWorklist ==
  /\ pc = "worklist"
  /\ \E B_max \in blocks :
       /\ \A B \in blocks : Cardinality(B) <= Cardinality(B_max)
       /\ L' = (blocks \ {B_max}) \X Symbol
  /\ pc' = "refine"
  /\ UNCHANGED <<blocks, i, j, state_table, accepted_rules, size>>

-----------------------------------------------------------------------------
(* Mutant: the end of the list of predecessors of a state is missed, and   *)
(* the list of the next state is read as well.                             *)
Predecessors_NoEnd(B, a) ==
  {s \in UNION blocks : \E t \in B : Target(s, a) \in {t, t + 1}}

(* D: the states that a leads into B *)
Predecessors(B, a) == {s \in UNION blocks : Target(s, a) \in B}

(* SD[B] # block[B]: some states of B are in D, and not all of them *)
IsSplit(B, D) == B \cap D # {} /\ B \ D # {}

(* B_i keeps what is not in D, its twin B_k gets the rest. *)
Pieces(B, D) == IF IsSplit(B, D) THEN {B \ D, B \cap D} ELSE {B}

(* Mutant: the twin of a block that is in L is forgotten. *)
NewPairs_TwinForgotten(B, D, rest) ==
  {<<B \ D, c>> : c \in {c \in Symbol : <<B, c>> \in rest}} \cup
  {<<IF Cardinality(B \ D) <= Cardinality(B \cap D) THEN B \ D ELSE B \cap D, c>> :
      c \in {c \in Symbol : <<B, c>> \notin rest}}

(* Both pieces replace a block that is in L; otherwise the smaller one is  *)
(* put there.                                                              *)
NewPairs(B, D, rest) ==
  {<<B \ D, c>> : c \in {c \in Symbol : <<B, c>> \in rest}} \cup
  {<<B \cap D, c>> : c \in {c \in Symbol : <<B, c>> \in rest}} \cup
  {<<IF Cardinality(B \ D) <= Cardinality(B \cap D) THEN B \ D ELSE B \cap D, c>> :
      c \in {c \in Symbol : <<B, c>> \notin rest}}

(* Mutant: the pair that was picked stays in the list. *)
Refine_KeepsPair ==
  /\ pc = "refine"
  /\ \E x \in L : LET D == Predecessors(x[1], x[2]) IN
       /\ blocks' = UNION {Pieces(B, D) : B \in blocks}
       /\ L' = {y \in L : ~IsSplit(y[1], D)}
               \cup UNION {NewPairs(B, D, L) : B \in {B \in blocks : IsSplit(B, D)}}
  /\ UNCHANGED <<pc, i, j, state_table, accepted_rules, size>>

(* One pair <<B_j, a>> of L: every block is split into the states that a   *)
(* leads into B_j and the others, and L is updated.                        *)
Refine ==
  /\ pc = "refine"
  /\ \E x \in L : LET D == Predecessors(x[1], x[2]) IN
       /\ blocks' = UNION {Pieces(B, D) : B \in blocks}
       /\ L' = {y \in L \ {x} : ~IsSplit(y[1], D)}
               \cup UNION {NewPairs(B, D, L \ {x}) : B \in {B \in blocks : IsSplit(B, D)}}
  /\ UNCHANGED <<pc, i, j, state_table, accepted_rules, size>>

Refined ==
  /\ pc = "refine" /\ L = {}
  /\ pc' = "rewrite"
  /\ UNCHANGED <<blocks, L, i, j, state_table, accepted_rules, size>>

-----------------------------------------------------------------------------
BlockOf(s) == CHOOSE B \in blocks : s \in B

(* the smallest state of the block of s, which replaces it *)
trans(s) == CHOOSE t \in BlockOf(s) : \A u \in BlockOf(s) : t <= u

kill(s) == trans(s) # s

(* by how much a row moves up: the killed rows above it *)
move(s) == Cardinality({k \in 0..s-1 : kill(k)})

NewNumber(s) == trans(s) - move(trans(s))

KillRow ==
  /\ pc = "rewrite" /\ i < size /\ kill(i)
  /\ i' = i + 1
  /\ UNCHANGED <<pc, blocks, L, j, state_table, accepted_rules, size>>

(* in place: rows below i have been overwritten *)
CopyRow ==
  /\ pc = "rewrite" /\ i < size /\ ~kill(i)
  /\ state_table' = [state_table EXCEPT ![j] = [c \in Symbol |-> NewNumber(state_table[i][c])]]
  /\ accepted_rules' = [accepted_rules EXCEPT ![j] = accepted_rules[i]]
  /\ i' = i + 1 /\ j' = j + 1
  /\ UNCHANGED <<pc, blocks, L, size>>

(* the rows that are not used any more are freed *)
Truncate ==
  /\ pc = "rewrite" /\ i = size
  /\ size' = j
  /\ state_table' = [s \in 0..j-1 |-> state_table[s]]
  /\ accepted_rules' = [s \in 0..j-1 |-> accepted_rules[s]]
  /\ pc' = "done"
  /\ UNCHANGED <<blocks, L, i, j>>

MinimizeNext ==
  /\ \/ InitializeBlocks \/ InitializeWorklist \/ Refine \/ Refined
     \/ KillRow \/ CopyRow \/ Truncate
  /\ UNCHANGED <<dfa, dead_state>>

MinimizeSpec == MinimizeInit /\ [][MinimizeNext]_minimizeVars /\ WF_minimizeVars(MinimizeNext)

-----------------------------------------------------------------------------
(* The invariant that makes it enough to put one piece of a split block    *)
(* into L: when a symbol leads two states of a block into different        *)
(* blocks, one of these blocks is still to be split by.                    *)
SplittersPending ==
  pc \in {"refine", "rewrite"} =>
    \A B, C, E \in blocks : \A s, t \in B : \A c \in Symbol :
      Target(s, c) \in C /\ Target(t, c) \in E /\ C # E => <<C, c>> \in L \/ <<E, c>> \in L

(* k gives every state of a DFA a class, such that states of a class       *)
(* accept the same rules and are led to the same class by every symbol.    *)
Congruence(k, n, table, rules) ==
  \A s, t \in 0..n-1 : k[s] = k[t] =>
    rules[s] = rules[t] /\ \A c \in Symbol : k[table[s][c]] = k[table[t][c]]

(* The result does what the DFA did: there is a map of the old states onto *)
(* new ones that keeps the initial state 0, the transitions and the rules. *)
Equivalent ==
  pc = "done" =>
    \E h \in [States -> 0..size-1] :
      /\ h[0] = 0
      /\ \A s \in States :
           /\ accepted_rules[h[s]] = dfa.accepted_rules[s]
           /\ \A c \in Symbol : state_table[h[s]][c] = h[dfa.state_table[s][c]]

(* No two states of the result can be merged. *)
Minimal ==
  pc = "done" =>
    \A k \in [0..size-1 -> 0..size-1] :
      Congruence(k, size, state_table, accepted_rules) =>
        \A s, t \in 0..size-1 : k[s] = k[t] => s = t

===============================================================================
