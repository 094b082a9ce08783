---------------------------- MODULE MCUdfaEngine ----------------------------
(* Automata that are loaded into the engine, and whole runs of the engine on *)
(* every short input file.                                                 *)
EXTENDS UdfaEngine, AutomatonLoader, TLC

(* DFA 0 accepts after a byte other than 0, DFA 1 after every second 0.    *)
MCDelta ==
  [d \in 0..NSubsets-1 |->
    [x \in (0..NState-1) \X Byte |->
      IF d = 1 THEN IF x[2] # 0 THEN x[1] ELSE IF x[1] = 1 THEN 2 ELSE 1
               ELSE IF x[2] = 0 THEN 0 ELSE 1]]

MCAccept == [d \in 0..NSubsets-1 |-> IF d = 1 THEN {2} ELSE {1}]

(* the accepting state of a DFA stands for as many rules as its number *)
MCStates2Rules ==
  [d \in 0..NSubsets-1 |-> [s \in 0..NState-1 |-> IF s \in MCAccept[d] THEN {1, d + 1} ELSE {}]]

-----------------------------------------------------------------------------
(* For the loader: complete DFAs of up to three states with up to two rules  *)
(* in a state, and networks of up to three nodes in which some symbols may   *)
(* lead nowhere, and of four nodes in which none does.                      *)
Binary(n, tables, rules) ==
  {[format |-> "binary", size |-> n, state_table |-> table, accepted_rules |-> r] : table \in tables, r \in rules}

MCDfas ==
  {d \in Binary(1, [{0} -> [0..1 -> {0}]], [{0} -> {{}, {1}}])
         \cup Binary(2, [0..1 -> [0..1 -> 0..1]], [0..1 -> {{}, {1}, {1, 2}}])
         \cup Binary(3, [0..2 -> [0..1 -> 0..2]], {(0 :> {} @@ 1 :> {2} @@ 2 :> {1, 2})}) : TRUE}

(* lists of sinks that share no symbol; a single sink has all symbols *)
Lists(n, symbols) ==
  {<<>>} \cup {<<m>> : m \in {x \in 1..n : symbols[x] = 0..1}}
         \cup {l \in (1..n) \X (1..n) : symbols[l[1]] \cap symbols[l[2]] = {}}

NetworksOf(n, symbols) ==
  {[format |-> "mnrl", size |-> n, starts |-> Range(first), report |-> report, symbols |-> symbols,
    outputs |-> outputs] :
     first \in {l \in Lists(n, symbols) : \A k \in 1..Len(l) - 1 : l[k] < l[k+1]},
     outputs \in [1..n -> Lists(n, symbols) \cup {<<n>>}], report \in {{n}, 1..n}}

(* four nodes, two for each symbol, every node with a sink for each of them *)
MCFourNodes ==
  LET pairs == {1, 2} \X {3, 4} IN
    {[format |-> "mnrl", size |-> 4, starts |-> Range(first), report |-> report,
      symbols |-> <<{0}, {0}, {1}, {1}>>, outputs |-> outputs] :
       first \in pairs, outputs \in [1..4 -> pairs \cup {<<4, 1>>}], report \in {{4}, 1..4}}

(* three nodes: one for each symbol and one for both *)
MCNetworks ==
  {m \in MCFourNodes \cup UNION {UNION {NetworksOf(n, symbols) : symbols \in [1..n -> {{0}, {1}, 0..1}]} : n \in 1..2}
         \cup NetworksOf(3, (1 :> {0} @@ 2 :> {1} @@ 3 :> 0..1)) : TRUE}

-----------------------------------------------------------------------------
CONSTANT Kinds

VARIABLE kind  \* what a behaviour does: "load" or "engine"

(* the input of what is not done *)
AnAutomaton == automaton = CHOOSE d \in Dfas : TRUE
NoInput == input = <<>>

MCInit ==
  /\ kind \in Kinds
  /\ \/ kind = "engine" /\ AnAutomaton /\ LoaderInit /\ EngineInit
     \/ kind = "load" /\ NoInput /\ EngineInit /\ LoaderInit

OfEngine == kind = "engine" /\ EngineNext /\ UNCHANGED <<kind, loaderVars>>
OfLoad == kind = "load" /\ Load /\ UNCHANGED <<kind, engineVars>>
OfLoaded == kind = "load" /\ (\E c \in 0..1 : Scan(c)) /\ UNCHANGED <<kind, engineVars>>

MCNext == OfEngine \/ OfLoad \/ OfLoaded

vars == <<kind, loaderVars, engineVars>>

MCSpec == MCInit /\ [][MCNext]_vars /\ WF_vars(OfEngine) /\ WF_vars(OfLoad)

(* UdfaEngine.tla: a run of the engine ends. *)
RunEnds == kind = "engine" => EngineEnds

(* AutomatonLoader.tla: loading ends. *)
LoadingEnds == kind = "load" => LoadEnds
=============================================================================
