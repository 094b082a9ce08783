------------------------------ MODULE TraceScan ------------------------------
(***************************************************************************)
(* trace::traverse of generator/trace.c, in its version for an NFA and its *)
(* version for a DFA, run on the same trace: the DFA is the one nfa2dfa    *)
(* built from the NFA.  The trace is any sequence of symbols.              *)
(***************************************************************************)
EXTENDS SubsetConstruction

VARIABLES
  nfa_state,   \* the active states of the NFA traversal
  nfa_rules,   \* its accepted_rules
  dfa_state,   \* the state of the DFA traversal
  dfa_rules    \* its accepted_rules

traceVars == <<nfa_state, nfa_rules, dfa_state, dfa_rules>>
scanVars == <<subsetVars, traceVars>>

TraceInit ==
  /\ SubsetInit
  /\ nfa_state = Start /\ nfa_rules = {}
  /\ dfa_state = 0 /\ dfa_rules = {}

Build == SubsetNext /\ UNCHANGED traceVars

(* Mutant: the rules of the state that is left instead of the one entered. *)
DfaByte_RulesOfSource(c) ==
  /\ dfa_state' = state_table[dfa_state][c]
  /\ dfa_rules' = dfa_rules \cup accepts[dfa_state]

(* one character of the trace, in both traversals *)
NfaByte(c) ==
  /\ nfa_state' = Move(nfa_state, c)
  /\ nfa_rules' = nfa_rules \cup AcceptedBy(nfa_state')

DfaByte(c) ==
  /\ dfa_state' = state_table[dfa_state][c]
  /\ dfa_rules' = dfa_rules \cup accepts[dfa_state']

Scan ==
  /\ pc = "done"
  /\ \E c \in Symbol : NfaByte(c) /\ DfaByte(c)
  /\ UNCHANGED subsetVars

TraceSpec == TraceInit /\ [][Build \/ Scan]_scanVars

-----------------------------------------------------------------------------
TraceTypeOK ==
  /\ SubsetTypeOK
  /\ nfa_state \subseteq NFA /\ nfa_rules \subseteq Rule
  /\ dfa_state \in 0..size-1 /\ dfa_rules \subseteq Rule

(* On every trace the DFA reports the rules that the NFA reports, after    *)
(* every character.                                                        *)
SameMatches ==
  /\ dfa_rules = nfa_rules
  /\ accepts[dfa_state] = AcceptedBy(nfa_state)

=============================================================================
