---------------------------- MODULE AutomatonLoader ----------------------------
(***************************************************************************)
(* How an automaton gets into the engine: FiniteAutomaton's constructor    *)
(* (dfa_engine/finite_automaton.cpp) for both formats, the binary files     *)
(* that the generator dumps (generator/main_memory_regen.c) and an MNRL     *)
(* network of homogeneous states, and the table it builds, read as the      *)
(* kernel reads it.  The MNRL library is external: a network is given as    *)
(* its nodes 1..size in the order of the map of nodes.                      *)
(***************************************************************************)
EXTENDS Integers, FiniteSets, SequencesExt

CONSTANTS
  CSize,    \* CSIZE: symbols are 0..CSize-1
  Dfas,     \* DFAs to be dumped: complete, states 0..size-1
  Networks  \* MNRL networks in which every symbol leads to one node at most

Symbol == 0..CSize-1

(* where a symbol leads from a node, or from the start: to the sinks whose *)
(* symbol set has it                                                       *)
Sinks(net, n) == IF n = 0 THEN net.starts ELSE Range(net.outputs[n])
On(net, n, c) == {m \in Sinks(net, n) : c \in net.symbols[m]}

ASSUME LoaderAssumption ==
  /\ CSize \in Nat \ {0}
  /\ \A d \in Dfas :
       /\ d.format = "binary" /\ d.size \in Nat \ {0}
       /\ d.state_table \in [0..d.size-1 -> [Symbol -> 0..d.size-1]]
       /\ \A q \in 0..d.size-1 : IsFiniteSet(d.accepted_rules[q]) /\ d.accepted_rules[q] \subseteq Nat
  /\ \A m \in Networks :
       /\ m.format = "mnrl" /\ m.size \in Nat \ {0}
       /\ m.starts \subseteq 1..m.size /\ m.report \subseteq 1..m.size
       /\ m.symbols \in [1..m.size -> SUBSET Symbol]
       /\ \A n \in 1..m.size : m.outputs[n] \in Seq(1..m.size)
       /\ \A n \in 0..m.size, c \in Symbol : Cardinality(On(m, n, c)) <= 1

UNINIT == -1   \* an entry that was never assigned

VARIABLES
  automaton,        \* the DFA or the network
  pc,               \* "dump", "pairs", "find", "starts", "queue", "table", "run", "undefined"
  accst,            \* the pairs left to be read of the file of accepting states
  next,             \* the next start state to be built
  id_map, marked, to_process, state_counter, accept_counter,
  state_table_map, accepting_codes_map,
  states2rules_, dfa_state_table_,
  current_state, reported,   \* the kernel: its state, and the rules of a match
  node                       \* the state or the node the automaton is in

mnrlVars == <<next, id_map, marked, to_process, state_counter, accept_counter, state_table_map,
              accepting_codes_map>>
kernelVars == <<current_state, reported, node>>
loaderVars == <<automaton, pc, accst, mnrlVars, states2rules_, dfa_state_table_, kernelVars>>

-----------------------------------------------------------------------------
AddTo(f, x, v) == [y \in DOMAIN f \cup {x} |-> IF y = x THEN v ELSE f[y]]
Empty == [x \in {} |-> {}]

LoaderInit ==
  /\ automaton \in Dfas \cup Networks
  /\ pc = IF automaton.format = "binary" THEN "dump" ELSE "find"
  /\ accst = {}
  /\ next = 1
  /\ id_map = Empty /\ marked = {} /\ to_process = <<>>
  /\ state_counter = 1 /\ accept_counter = 1
  /\ state_table_map = Empty /\ accepting_codes_map = Empty
  /\ states2rules_ = Empty /\ dfa_state_table_ = Empty
  /\ current_state = 0 /\ reported = {} /\ node = 0

-----------------------------------------------------------------------------
(* The generator writes a pair of a state and a rule for every rule of     *)
(* every state, in the order of the states.  The order of a state's rules   *)
(* makes no difference.                                                    *)
Pairs == UNION {{<<q, r>> : r \in automaton.accepted_rules[q]} : q \in 0..automaton.size-1}

Dump ==
  /\ pc = "dump"
  /\ accst' = Pairs
  /\ pc' = "pairs"
  /\ UNCHANGED <<mnrlVars, states2rules_, dfa_state_table_>>

FirstPair == CHOOSE p \in accst : \A r \in accst : p[1] <= r[1]

RulesOf(q) == IF q \in DOMAIN states2rules_ THEN states2rules_[q] ELSE {}

(* Mutant: the rules of a state replace one another. *)
ReadPair_LastRule ==
  /\ pc = "pairs"
  /\ accst # {}
  /\ states2rules_' = AddTo(states2rules_, FirstPair[1], {FirstPair[2]})
  /\ accst' = accst \ {FirstPair}
  /\ UNCHANGED <<pc, mnrlVars, dfa_state_table_>>

ReadPair ==
  /\ pc = "pairs"
  /\ accst # {}
  /\ states2rules_' = AddTo(states2rules_, FirstPair[1], RulesOf(FirstPair[1]) \cup {FirstPair[2]})
  /\ accst' = accst \ {FirstPair}
  /\ UNCHANGED <<pc, mnrlVars, dfa_state_table_>>

ReadTable ==
  /\ pc = "pairs" /\ accst = {}
  /\ dfa_state_table_' = automaton.state_table
  /\ pc' = "table"
  /\ UNCHANGED <<accst, mnrlVars, states2rules_>>

-----------------------------------------------------------------------------
(* the elements of a set of numbers, the smallest first *)
Ascending(S) == CHOOSE o \in SetToSeqs(S) : \A m, n \in DOMAIN o : m < n => o[m] < o[n]

(* the start states in the order of the nodes *)
Starts == Ascending(automaton.starts)

(* the row of a state: the ids of the sinks, and nothing where no sink has  *)
(* the symbol                                                              *)
Row(n, ids) ==
  [c \in Symbol |-> IF On(automaton, n, c) = {} THEN UNINIT ELSE ids[CHOOSE m \in On(automaton, n, c) : TRUE]]

(* where nodes without an id are met for the first time *)
NewAt(ids, list) ==
  {k \in DOMAIN list : list[k] \notin DOMAIN ids /\ \A l \in 1..k-1 : list[l] # list[k]}

(* The nodes of a list that have no id get the next ones, in their order. *)
Numbered(ids, counter, list) ==
  [m \in DOMAIN ids \cup Range(list) |->
     IF m \in DOMAIN ids THEN ids[m]
     ELSE counter + Cardinality({k \in NewAt(ids, list) : \A l \in 1..k : list[l] # m})]

(* All start states get their ids, and state 0 its row. *)
FindStarts ==
  /\ pc = "find"
  /\ id_map' = Numbered(Empty, 1, Starts)
  /\ state_counter' = 1 + Len(Starts)
  /\ state_table_map' = AddTo(Empty, 0, Row(0, id_map'))
  /\ pc' = "starts"
  /\ UNCHANGED <<accst, next, marked, to_process, accept_counter, accepting_codes_map, states2rules_,
                 dfa_state_table_>>

(* the sinks of a node that have not been built, as often as they are listed *)
Unmarked(n) ==
  LET list == automaton.outputs[n]
      at == {k \in DOMAIN list : list[k] \notin marked \cup {n}}
  IN [k \in 1..Cardinality(at) |-> list[Ascending(at)[k]]]

(* Mutant: a sink is marked when it is put into the queue. *)
Build_MarkedWhenQueued(n) ==
  /\ id_map' = Numbered(id_map, state_counter, automaton.outputs[n])
  /\ state_counter' = state_counter + Cardinality(NewAt(id_map, automaton.outputs[n]))
  /\ marked' = marked \cup {n} \cup Range(Unmarked(n))
  /\ IF n \in automaton.report
     THEN /\ accepting_codes_map' = AddTo(accepting_codes_map, id_map[n], accept_counter)
          /\ accept_counter' = accept_counter + 1
     ELSE UNCHANGED <<accepting_codes_map, accept_counter>>
  /\ state_table_map' = AddTo(state_table_map, id_map[n], Row(n, id_map'))
  /\ to_process' = (IF pc = "queue" THEN Tail(to_process) ELSE to_process) \o Unmarked(n)

(* Mutant: all reports get the same rule. *)
Build_OneRule(n) ==
  /\ id_map' = Numbered(id_map, state_counter, automaton.outputs[n])
  /\ state_counter' = state_counter + Cardinality(NewAt(id_map, automaton.outputs[n]))
  /\ marked' = marked \cup {n}
  /\ accepting_codes_map' =
       IF n \in automaton.report THEN AddTo(accepting_codes_map, id_map[n], accept_counter)
       ELSE accepting_codes_map
  /\ UNCHANGED accept_counter
  /\ state_table_map' = AddTo(state_table_map, id_map[n], Row(n, id_map'))
  /\ to_process' = (IF pc = "queue" THEN Tail(to_process) ELSE to_process) \o Unmarked(n)

(* One node becomes a state: its rule, its row, ids for its sinks, and the *)
(* sinks that have not been built into the queue.                          *)
Build(n) ==
  /\ id_map' = Numbered(id_map, state_counter, automaton.outputs[n])
  /\ state_counter' = state_counter + Cardinality(NewAt(id_map, automaton.outputs[n]))
  /\ marked' = marked \cup {n}
  /\ IF n \in automaton.report
     THEN /\ accepting_codes_map' = AddTo(accepting_codes_map, id_map[n], accept_counter)
          /\ accept_counter' = accept_counter + 1
     ELSE UNCHANGED <<accepting_codes_map, accept_counter>>
  /\ state_table_map' = AddTo(state_table_map, id_map[n], Row(n, id_map'))
  /\ to_process' = (IF pc = "queue" THEN Tail(to_process) ELSE to_process) \o Unmarked(n)

BuildStart ==
  /\ pc = "starts" /\ next <= Len(Starts)
  /\ Build(Starts[next])
  /\ next' = next + 1
  /\ UNCHANGED <<pc, accst, states2rules_, dfa_state_table_>>

StartsBuilt ==
  /\ pc = "starts" /\ next > Len(Starts)
  /\ pc' = "queue"
  /\ UNCHANGED <<accst, mnrlVars, states2rules_, dfa_state_table_>>

BuildNext ==
  /\ pc = "queue" /\ to_process # <<>> /\ Head(to_process) \notin marked
  /\ Build(Head(to_process))
  /\ UNCHANGED <<pc, accst, next, states2rules_, dfa_state_table_>>

(* Mutant: a node that has been built stays in front of the queue. *)
SkipMarked_NotPopped ==
  /\ pc = "queue" /\ to_process # <<>> /\ Head(to_process) \in marked
  /\ UNCHANGED <<pc, accst, mnrlVars, states2rules_, dfa_state_table_>>

SkipMarked ==
  /\ pc = "queue" /\ to_process # <<>> /\ Head(to_process) \in marked
  /\ to_process' = Tail(to_process)
  /\ UNCHANGED <<pc, accst, next, id_map, marked, state_counter, accept_counter, state_table_map,
                 accepting_codes_map, states2rules_, dfa_state_table_>>

(* the rows of all states are copied, each of them exists *)
CopyTable ==
  /\ pc = "queue" /\ to_process = <<>>
  /\ IF 0..state_counter-1 \subseteq DOMAIN state_table_map
     THEN /\ dfa_state_table_' = [q \in 0..state_counter-1 |-> state_table_map[q]]
          /\ states2rules_' = [q \in DOMAIN accepting_codes_map |-> {accepting_codes_map[q]}]
          /\ pc' = "table"
     ELSE pc' = "undefined" /\ UNCHANGED <<dfa_state_table_, states2rules_>>
  /\ UNCHANGED <<accst, mnrlVars>>

-----------------------------------------------------------------------------
Initialized == \A q \in DOMAIN dfa_state_table_, c \in Symbol : dfa_state_table_[q][c] # UNINIT

(* an entry that leads to an accepting state is negated *)
Signed(t) == IF t \in DOMAIN states2rules_ THEN -t ELSE t

(* "Represent accepting states in the DFA state table as negative numbers": *)
(* every entry is used as an index, initialized or not.                     *)
Negate ==
  /\ pc = "table"
  /\ IF Initialized
     THEN /\ dfa_state_table_' =
               [q \in DOMAIN dfa_state_table_ |-> [c \in Symbol |-> Signed(dfa_state_table_[q][c])]]
          /\ pc' = "run"
     ELSE pc' = "undefined" /\ UNCHANGED dfa_state_table_
  /\ UNCHANGED <<accst, mnrlVars, states2rules_>>

-----------------------------------------------------------------------------
(* where the automaton goes *)
Successor(q, c) ==
  IF automaton.format = "binary" THEN automaton.state_table[q][c] ELSE CHOOSE m \in On(automaton, q, c) : TRUE

(* one symbol: the kernel looks up its next state, and the report the rules *)
(* of a state that was negative                                             *)
Scan(c) ==
  /\ pc = "run"
  /\ LET entry == dfa_state_table_[current_state][c] IN
       /\ current_state' = IF entry < 0 THEN -entry ELSE entry
       /\ reported' = IF entry < 0 THEN RulesOf(-entry) ELSE {}
  /\ node' = Successor(node, c)
  /\ UNCHANGED <<automaton, pc, accst, mnrlVars, states2rules_, dfa_state_table_>>

Load ==
  /\ \/ Dump \/ ReadPair \/ ReadTable
     \/ FindStarts \/ BuildStart \/ StartsBuilt \/ BuildNext \/ SkipMarked \/ CopyTable
     \/ Negate
  /\ UNCHANGED <<automaton, kernelVars>>

LoaderNext == Load \/ \E c \in Symbol : Scan(c)

LoaderSpec == LoaderInit /\ [][LoaderNext]_loaderVars /\ WF_loaderVars(Load)

-----------------------------------------------------------------------------
(* The worklist forgets no node.  Ids are given without gaps, and a node   *)
(* that has one has its row, or is waiting for it: in the queue, or as a   *)
(* start state that is still to be built.                                  *)
NoNodeForgotten ==
  /\ IsInjective(id_map) /\ Range(id_map) = 1..state_counter-1
  /\ \A n \in DOMAIN id_map :
       \/ id_map[n] \in DOMAIN state_table_map
       \/ n \in Range(to_process)
       \/ \E k \in next..Len(Starts) : Starts[k] = n

(* Every node that reports has a rule of its own. *)
RulesIdentifyNodes ==
  pc = "run" /\ automaton.format = "mnrl" =>
    /\ DOMAIN states2rules_ = {id_map[n] : n \in automaton.report \cap DOMAIN id_map}
    /\ \A p, q \in DOMAIN states2rules_ : states2rules_[p] \cap states2rules_[q] # {} => p = q

(* the networks, and DFAs, with a transition for every symbol *)
Complete ==
  automaton.format = "mnrl" => \A n \in 0..automaton.size, c \in Symbol : On(automaton, n, c) # {}

(* The kernel runs as the automaton, whatever the input: it is in the      *)
(* state the automaton is in, and it reports the rules of a DFA's state,   *)
(* except those of state 0 (there is no negative 0), or a rule when a      *)
(* network's node reports.  Only entries of the table that were assigned   *)
(* are used.                                                               *)
RunsAsAutomaton ==
  /\ pc = "undefined" => ~Complete
  /\ pc = "run" =>
    IF automaton.format = "binary"
    THEN /\ current_state = node
         /\ reported = IF node = 0 THEN {} ELSE automaton.accepted_rules[node]
    ELSE /\ current_state = IF node = 0 THEN 0 ELSE id_map[node]
         /\ reported # {} <=> node \in automaton.report

(* Loading ends, for every graph. *)
LoadEnds == <>(pc \in {"run", "undefined"})
=============================================================================
