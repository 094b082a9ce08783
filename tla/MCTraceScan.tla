----------------------------- MODULE MCTraceScan -----------------------------
(***************************************************************************)
(* NFAs as the parser builds them and the algorithms of nfa.c process them, *)
(* and automata as fa_memory.c simulates them.                             *)
(***************************************************************************)
EXTENDS TraceScan, FaMemory, MCReduction, TLC

(* For the subset construction and the traversals every NFA of a family: a  *)
(* state may stay on a symbol, go on to the next state, both or neither,  *)
(* and there may be one epsilon transition, forwards or backwards.  Without *)
(* a self-loop at 0 (an anchored rule) the NFA may run out of active        *)
(* states.                                                                  *)
MCTransitions ==
  {[x \in NFA \X Symbol |-> {x[1] : k \in f[x] \cap {0}} \cup {x[1] + 1 : k \in f[x] \cap {1}}] :
     f \in {g \in [NFA \X Symbol -> {{}, {0}, {1}, {0, 1}}] :
              \A s \in Symbol : 1 \notin g[<<NState - 1, s>>]}}

MCEpsilon ==
  {[s \in NFA |-> {}]} \cup
  {[s \in NFA |-> IF s = a[1] THEN {a[2]} ELSE {}] : a \in {<<0, 2>>, <<1, 0>>, <<2, 1>>}}

MCNfas ==
  {[transitions |-> t, epsilon |-> e, accepting |-> [s \in NFA |-> {s} \cap Rule]] :
     t \in MCTransitions, e \in MCEpsilon}
-----------------------------------------------------------------------------
(* For the reduction:                                                      *)
(* 0 -e-> 1 (the rules that are not anchored start here) and 0 -e-> 2 (the  *)
(* anchored ones); 3 and 4 belong to the rules, 4 accepts                  *)
RuleTransitions ==
  {[x \in (0..4) \X (0..1) |->
      CASE x[1] = 0 -> {}
        [] x[1] = 1 -> {1} \cup (IF x[2] = 0 THEN {3} ELSE f[1])
        [] x[1] = 2 -> IF x[2] = 0 THEN f[2] ELSE {}
        [] OTHER -> f[3 + 2 * (x[1] - 3) + x[2]]] :
     f \in {g \in [1..6 -> SUBSET {3, 4}] : g[1] \in {{}, {4}} /\ g[2] \in {{}, {3}}}}

RuleNfa(t, back) ==
  [transitions |-> t,
   epsilon |-> [q \in 0..4 |-> CASE q = 0 -> {1, 2} [] q = 3 -> back [] OTHER -> {}],
   accepting |-> [q \in 0..4 |-> IF q = 4 THEN {1} ELSE {}]]

MCRules == {RuleNfa(t, back) : t \in RuleTransitions, back \in {{}, {4}}}

(* a rule that starts with a loop, as (ab)*c: epsilon back to its start *)
MCLoopRules == {RuleNfa(t, {1}) : t \in RuleTransitions}

(* ^((a|a)a+){2}: two rounds of eight states, the last one of the second     *)
(* round leads to 17, which accepts                                         *)
RoundTransition(q) == CASE (q - 1) % 8 \in {1, 2} -> {q + 2} [] (q - 1) % 8 \in {5, 7} -> {q + 1} [] OTHER -> {}

RoundEpsilon(q) ==
  CASE q = 0 -> {1}
    [] q = 17 -> {}
    [] (q - 1) % 8 = 0 -> {q + 1, q + 2}
    [] (q - 1) % 8 = 3 -> {q + 2}
    [] (q - 1) % 8 \in {4, 5} -> {q + 1}
    [] (q - 1) % 8 = 6 -> {q - 1, q + 1}
    [] OTHER -> {}

MCRepeatedRule ==
  {[transitions |-> [x \in (0..17) \X (0..1) |-> IF x[1] > 0 /\ x[2] = 0 THEN RoundTransition(x[1]) ELSE {}],
    epsilon |-> [q \in 0..17 |-> RoundEpsilon(q)],
    accepting |-> [q \in 0..17 |-> IF q = 17 THEN {1} ELSE {}]]}

-----------------------------------------------------------------------------
(* For the simulation of memory: DFAs with default transitions and NFAs with *)
(* and without epsilon transitions, in all layouts, with states in full for *)
(* small thresholds.                                                       *)
WithDefaults(table, default) ==
  [size |-> Cardinality(DOMAIN table), state_table |-> table,
   accepting |-> [q \in DOMAIN table |-> IF q = 0 THEN {} ELSE {q}],
   default_tx |-> [q \in DOMAIN table |-> IF q = 0 THEN NO_STATE ELSE default[q]],
   labeled |-> [q \in DOMAIN table |->
     IF q = 0 THEN 0..3 ELSE {x \in 0..3 : table[q][x] # table[default[q]][x]}]]

Row(a, b, x, y) == 0 :> a @@ 1 :> b @@ 2 :> x @@ 3 :> y

SimulatedDfas ==
  {WithDefaults(0 :> Row(0, 1, 0, x) @@ 1 :> Row(2, 1, 0, y) @@ 2 :> Row(2, y, z, x), 1 :> 0 @@ 2 :> d) :
     x \in 0..1, y \in {0, 2}, z \in {0, 2}, d \in 0..1}

ASecondDfa == WithDefaults(0 :> Row(1, 0, 0, 0) @@ 1 :> Row(1, 1, 0, 0), 1 :> 0)

SimulatedNfas ==
  {[size |-> 3,
    transitions |-> 0 :> {<<x, 0>> : x \in A} \cup {<<1, 1>>} @@ 1 :> {<<x, 2>> : x \in B} @@ 2 :> C,
    epsilon |-> 0 :> E @@ 1 :> {} @@ 2 :> {},
    accepting |-> 0 :> {} @@ 1 :> {} @@ 2 :> {1}] :
   A \in {{}, 0..3}, B \in {{2}, {0, 3}, 0..3}, C \in {{}, {<<1, 1>>, <<3, 2>>}}, E \in {{}, {1}, {2}}}

MCLayouts == {<<"LINEAR", 1>>, <<"LINEAR", 3>>, <<"BITMAP", 3>>, <<"INDIRECT_ADDR", 3>>, <<"INDIRECT_ADDR", 7>>}

Simulation(kind_, fas, l) ==
  [kind |-> kind_, fas |-> fas, layout |-> l[1], threshold |-> l[2],
   cache |-> [line_size |-> 16, assoc |-> 2, lines_per_set |-> IF l[1] = "LINEAR" THEN 2 ELSE 1]]

MCSimulations ==
  {Simulation("dfas", <<d, ASecondDfa>>, l) : d \in SimulatedDfas, l \in MCLayouts}
  \cup {Simulation("dfa", <<d>>, l) : d \in SimulatedDfas, l \in MCLayouts}
  \cup {Simulation("nfa", <<a>>, l) : a \in SimulatedNfas, l \in MCLayouts}

-----------------------------------------------------------------------------
(* For the parser: symbols 0 and 1 are the cases of a letter, 2 is '\n'.    *)
LowerCase == 0
UpperCase == 1
OtherCase == 0 :> 1 @@ 1 :> 0 @@ 2 :> 2

Set(S) == [kind |-> "set", set |-> S]
Cat(p, q) == [kind |-> "cat", left |-> p, right |-> q]
Alt(p, q) == [kind |-> "or", left |-> p, right |-> q]
Rep(p, b) == [kind |-> "rep", of |-> p, lb |-> b[1], ub |-> b[2]]
Nothing == [kind |-> "empty"]
A == Set({LowerCase})
B == Set({UpperCase})

Items(r) == IF r[1] = r[2] THEN <<[to |-> r[1], minus |-> FALSE]>>
            ELSE <<[to |-> r[1], minus |-> TRUE], [to |-> r[2], minus |-> FALSE]>>
Bracketed(intervals, negate) ==
  [kind |-> "range", negate |-> negate,
   items |-> FlattenSeq([n \in DOMAIN intervals |-> Items(intervals[n])]),
   set |-> UNION {intervals[n][1]..intervals[n][2] : n \in DOMAIN intervals}]

STAR == <<0, -1>>
PLUS == <<1, -1>>
OPT == <<0, 1>>

Unbounded(p) == p.kind = "rep" /\ p.ub = -1
(* a loop that begins with the state its machine begins with: no copy is in *)
(* front of it                                                             *)
FromTwo(p) == Unbounded(p) /\ p.lb > 1

Repeated == {Rep(A, b) : b \in {STAR, PLUS, OPT, <<2, 2>>, <<0, 2>>, <<1, 2>>, <<2, 3>>, <<1, 3>>, <<2, -1>>}}
Single == {A, B} \cup Repeated
Pairs == {Cat(p, q) : p \in {x \in Single : ~FromTwo(x)}, q \in Single}
         \cup {Alt(p, q) : p \in Single, q \in Single \cup {Nothing}}
         \cup {Alt(Nothing, q) : q \in Single}
Groups(bounds) == {Rep(p, b) : p \in {q \in Pairs : ~FromTwo(q.left) /\ ~FromTwo(q.right)}, b \in bounds}

(* A group that begins with a loop must not be skipped.                    *)
SkippedLoop(p) == p.lb = 0 /\ p.of.kind = "cat" /\ Unbounded(p.of.left)
Grouped == {p \in Groups({STAR, PLUS, OPT, <<2, 2>>}) : ~SkippedLoop(p)}

File(lines, i_mod, m_mod, object_first) ==
  [lines |-> lines, i_mod |-> i_mod, m_mod |-> m_mod, object_first |-> object_first]
Anchored(p) == [anchored |-> TRUE, regex |-> p]
Anywhere(p) == [anchored |-> FALSE, regex |-> p]

(* one rule: what the quantifiers make of it *)
QuantifierFiles ==
  {File(<<Anchored(p)>>, FALSE, FALSE, FALSE) :
     p \in Single \cup Pairs \cup Grouped \cup {Cat(p, B) : p \in Grouped}}

(* two or three rules: how they share a start, and the modifiers.  An       *)
(* anchored rule that begins with a loop must be the only one anchored.     *)
Ranges ==
  {Anywhere(Bracketed(intervals, negate)) :
     intervals \in {<<<<0, 0>>>>, <<<<1, 2>>>>, <<<<0, 0>>, <<2, 2>>>>}, negate \in BOOLEAN}
Rules ==
  {Anchored(Cat(A, B)), Anchored(Cat(B, Rep(A, STAR))), Anchored(Cat(Rep(A, OPT), B)),
   Anywhere(Cat(A, B)), Anywhere(Cat(A, Rep(Set(0..2), STAR))), Anywhere(Rep(Cat(A, B), PLUS)),
   Anywhere(Alt(A, Cat(A, A)))}
LoopRule == Anchored(Rep(Cat(A, B), PLUS))
RuleFiles ==
  {File(<<l, k>>, im, m, FALSE) : l \in Rules, k \in Rules \cup Ranges, im \in BOOLEAN, m \in BOOLEAN}
  \cup {File(<<LoopRule, l>>, im, m, FALSE) : l \in {r \in Rules : ~r.anchored}, im \in BOOLEAN, m \in BOOLEAN}
  \cup {File(<<l, k, Anywhere(Rep(B, <<2, 2>>))>>, FALSE, FALSE, FALSE) : l \in Rules, k \in Rules}

MCFiles == QuantifierFiles \cup RuleFiles

(* What the quantifiers get wrong: groups that begin with a loop and may be *)
(* skipped; a loop behind {n,}; {1,n} in a build that evaluates the object  *)
(* first.                                                                  *)
MCQuantified ==
  {File(<<Anchored(Cat(p, B))>>, FALSE, FALSE, FALSE) : p \in {q \in Groups({STAR, OPT}) : SkippedLoop(q)}}
  \cup {File(<<Anchored(Cat(Rep(A, <<2, -1>>), Rep(B, STAR)))>>, FALSE, FALSE, FALSE),
        File(<<Anchored(Rep(A, <<1, 3>>))>>, FALSE, FALSE, TRUE)}

-----------------------------------------------------------------------------
CONSTANTS Kinds, Files, MaxTrace

VARIABLES
  kind,  \* what a behaviour does: "parse", "scan", "reduce" or "simulate"
  p_file, p_queue, p_stage, p_heap, p_line, p_re, p_ptr, p_stack, p_dfas, p_regex_of, p_trace, p_active

P == INSTANCE RegexParser WITH
  CSize <- 3, Partner <- OtherCase, Newlines <- {2}, file <- p_file, queue <- p_queue,
  stage <- p_stage, heap <- p_heap, line <- p_line, re <- p_re, ptr <- p_ptr, stack <- p_stack,
  dfas <- p_dfas, regex_of <- p_regex_of, trace <- p_trace, active <- p_active

ASSUME ParsedFiles == P!ParserAssumption

parsing == <<p_file, p_queue, p_stage, p_heap, p_line, p_re, p_ptr, p_stack, p_dfas, p_regex_of,
             p_trace, p_active>>

(* the automata of what is not done *)
AFile == p_file = CHOOSE f \in Files : TRUE
AnNfa == nfa = CHOOSE a \in Nfas : TRUE
AParsed == r_parsed = CHOOSE a \in RuleNfas : TRUE
AMemory == mem = CHOOSE m \in Simulations : TRUE

IdleScan == AnNfa /\ TraceInit
IdleReduction == AParsed /\ Reduction!ReductionInit
IdleSimulation == AMemory /\ FaMemoryInit
IdleParser == AFile /\ P!ParserInit

MCInit ==
  /\ kind \in Kinds
  /\ \/ kind = "scan" /\ IdleReduction /\ IdleSimulation /\ IdleParser /\ TraceInit
     \/ kind = "reduce" /\ IdleScan /\ IdleSimulation /\ IdleParser /\ Reduction!ReductionInit
     \/ kind = "simulate" /\ IdleScan /\ IdleReduction /\ IdleParser /\ FaMemoryInit
     \/ kind = "parse" /\ IdleScan /\ IdleReduction /\ IdleSimulation /\ P!ParserInit

OfScan == kind = "scan" /\ UNCHANGED <<kind, reduction, faMemoryVars, parsing>>
OfReduction == kind = "reduce" /\ UNCHANGED <<kind, scanVars, faMemoryVars, parsing>>
OfSimulation == kind = "simulate" /\ UNCHANGED <<kind, scanVars, reduction, parsing>>
OfParser == kind = "parse" /\ UNCHANGED <<kind, scanVars, reduction, faMemoryVars>>

MCNext ==
  \/ OfScan /\ (Build \/ Scan)
  \/ OfReduction /\ Reduction!ReductionNext
  \/ OfSimulation /\ FaMemoryNext
  \/ OfParser /\ P!ParserNext

MCSpec == MCInit /\ [][MCNext]_<<kind, scanVars, reduction, faMemoryVars, parsing>>

(* RegexParser.tla: the automata of a file report the rules that match.    *)
ReportsMatches == P!ReportsMatches
=============================================================================
