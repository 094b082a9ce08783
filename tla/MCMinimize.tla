----------------------------- MODULE MCMinimize -----------------------------
(* minimize on DFAs, and the construction, minimization and traversal of    *)
(* hybrid automata.                                                        *)
EXTENDS HybridFA

(***************************************************************************)
(* DFAs as nfa2dfa builds them: complete, every state reachable, numbered  *)
(* in the order a breadth-first traversal discovers them.  All tables of   *)
(* up to three states, and some of four states.                            *)
(***************************************************************************)
Discovered(table, s) ==
  \E t \in 0..s-1 : \E c \in Symbol :
    /\ table[t][c] = s
    /\ \A u \in 0..t : \A b \in Symbol :
         table[u][b] > s => u = t /\ b > c

Tables(n) ==
  {table \in [0..n-1 -> [Symbol -> 0..n-1]] : \A s \in 1..n-1 : Discovered(table, s)}

(* tables whose second symbol restarts or goes on to the last state *)
FourStates ==
  {table \in Tables(4) : \A s \in 0..3 : table[s][1] = IF s = 1 THEN 3 ELSE 0}

Dead(table, rules) ==
  {s \in DOMAIN table : rules[s] = {} /\ \A c \in Symbol : table[s][c] = s}

DfasOver(tables, n, rulesets) ==
  UNION {{[size |-> n, state_table |-> table, accepted_rules |-> rules, dead_state |-> d] :
            d \in IF Dead(table, rules) = {} THEN {NO_STATE} ELSE Dead(table, rules)} :
          table \in tables, rules \in [0..n-1 -> rulesets]}

Accepting(d) == {s \in 0..d.size-1 : d.accepted_rules[s] # {}}

MCDfas ==
  {d \in DfasOver(Tables(1), 1, {{}, {1}}) \cup DfasOver(Tables(2), 2, {{}, {1}, {1, 2}})
          \cup DfasOver(Tables(3), 3, {{}, {1}}) \cup DfasOver(FourStates, 4, {{}, {1}}) :
     d.size = 4 => Cardinality(Accepting(d)) < 4}

(***************************************************************************)
(* NFAs of one rule: ".*" at the initial state or not, a state that loops  *)
(* on one of two symbols, and tails behind it with the other symbol, with  *)
(* any symbol, or with a ".*"; and NFAs with two states to be split.       *)
(***************************************************************************)
Edges(S) == [q \in Parsed |-> {<<t[2], t[3]>> : t \in {t \in S : t[1] = q}}]
ByAny(p, q) == {<<p, c, q>> : c \in Symbol}

(* A state that another one leads to by every symbol was added with add_any *)
Root(tx) == [q \in Parsed |->
  IF \E p \in Parsed \ {q} : \A c \in Symbol : <<c, q>> \in tx[p]
  THEN CHOOSE p \in Parsed \ {q} : \A c \in Symbol : <<c, q>> \in tx[p] ELSE q]

Nfa(S, final) ==
  [transitions |-> Edges(S), first |-> Root(Edges(S)),
   accepting |-> [q \in Parsed |-> IF q \in final THEN {1} ELSE {}]]

Starts == {{}, ByAny(0, 0)}
Loops == {{<<1, 0, 1>>}, ByAny(1, 1)}
Entries == {{<<0, 1, 1>>}, {<<0, 0, 1>>}}
Tails ==
  {{<<1, 0, 2>>}, {<<1, 1, 2>>}, ByAny(1, 2),
   {<<1, 0, 2>>, <<2, 0, 3>>}, {<<1, 0, 2>>, <<2, 1, 3>>}, {<<1, 0, 2>>} \cup ByAny(2, 3),
   {<<1, 0, 2>>, <<2, 0, 2>>, <<2, 0, 3>>}, {<<1, 0, 2>>, <<2, 0, 2>>, <<2, 1, 3>>},
   ByAny(1, 2) \cup {<<2, 0, 2>>, <<2, 0, 3>>}, {<<1, 1, 2>>} \cup ByAny(2, 2) \cup {<<2, 1, 3>>}}

MCNfas ==
  {Nfa(s \cup e \cup l \cup t, f) :
     s \in Starts, e \in Entries, l \in Loops, t \in Tails, f \in {{2}, {3}, {2, 3}}}
  \cup {Nfa(s \cup {<<0, 0, 1>>, <<1, 0, 1>>, <<0, 1, 2>>, <<2, 1, 2>>} \cup ByAny(1, 3) \cup ByAny(2, 3), {3}) : s \in Starts}

(* Tails that may pass a symbol the state does not loop on twice, and a     *)
(* state that is entered by "."                                            *)
LossyNfas ==
  {Nfa(s \cup {<<0, 1, 1>>, <<1, 0, 1>>} \cup ByAny(1, 2) \cup ByAny(2, 3), {3}) : s \in Starts} \cup
  {Nfa(ByAny(0, 0) \cup ByAny(0, 1) \cup {<<1, 0, 1>>} \cup ByAny(1, 2), {2})}

-----------------------------------------------------------------------------
(* DFAs of four states over four symbols for D2FA.  By the first symbol a   *)
(* state leads to the next one, so that every state is reached; by the      *)
(* others it leads to state 0 or 1.                                         *)
MCD2faDfas ==
  {[size |-> 4,
    state_table |-> [q \in 0..3 |-> [c \in 0..3 |->
      IF c = 0 THEN (q + 1) % 4 ELSE IF q > 0 /\ c \in f[q] THEN 1 ELSE 0]]] :
   f \in [1..3 -> {{}, {1}, {1, 2}, {2, 3}, {1, 2, 3}}]}

CONSTANTS Kinds, D2faDfas, Diameters, DECREMENT

VARIABLES
  kind,   \* what a behaviour does: "minimize", "hybrid" or "d2fa"
  d_dfa, d_diameter, d_refined, d_stage, d_max, d_G, d_heap, d_T, d_P, d_rank, d_distance,
  d_default_tx, d_labeled_tx

Compression == INSTANCE D2fa WITH
  CSize <- 4, Dfas <- D2faDfas,
  dfa <- d_dfa, diameter <- d_diameter, refined <- d_refined, stage <- d_stage, max <- d_max,
  G <- d_G, heap <- d_heap, T <- d_T, P <- d_P, rank <- d_rank, distance <- d_distance,
  default_tx <- d_default_tx, labeled_tx <- d_labeled_tx

ASSUME CompressionAssumption == Compression!D2faAssumption

d2faState == <<d_dfa, d_diameter, d_refined, d_stage, d_max, d_G, d_heap, d_T, d_P, d_rank,
               d_distance, d_default_tx, d_labeled_tx>>

(* the automata of what is not done *)
ADfa == dfa = CHOOSE d \in Dfas : TRUE
AnNfa == nfa = CHOOSE a \in Nfas : TRUE
AD2fa == d_dfa = (CHOOSE d \in D2faDfas : TRUE) /\ d_diameter = (CHOOSE n \in Diameters : TRUE) /\ d_refined = FALSE

JustADfa ==
  /\ MinimizeInit
  /\ transitions = <<>> /\ accepting = <<>> /\ to_correct = {} /\ copies = 0
  /\ subsets = <<>> /\ queue = <<>> /\ non_special = {} /\ border = <<>>
  /\ dfa_state = 0 /\ nfa_state = {} /\ active = {} /\ active_split = {}
  /\ reported = <<{}, {}, {}>>

MCInit ==
  /\ kind \in Kinds
  /\ \/ kind = "minimize" /\ AD2fa /\ Compression!D2faInit /\ AnNfa /\ JustADfa
     \/ kind = "hybrid" /\ AD2fa /\ Compression!D2faInit /\ HybridInit
     \/ kind = "d2fa" /\ AnNfa /\ ADfa /\ JustADfa /\ Compression!D2faInit

OfMinimize == kind = "minimize" /\ UNCHANGED <<kind, d2faState, nfaVars, buildVars, traverseVars>>
OfHybrid == kind = "hybrid" /\ UNCHANGED <<kind, d2faState>>
OfD2fa == kind = "d2fa" /\ UNCHANGED <<kind, hybridVars>>

MCNext ==
  \/ OfMinimize /\ MinimizeNext
  \/ OfHybrid /\ HybridNext
  \/ OfD2fa /\ Compression!D2faNext

MCSpec ==
  /\ MCInit /\ [][MCNext]_<<kind, d2faState, hybridVars>>
  /\ WF_minimizeVars(OfMinimize /\ MinimizeNext)

(* No two states of a minimized DFA can be merged; those of a head can when *)
(* their borders differ.                                                   *)
DfaMinimal == kind = "minimize" => Minimal

(* The minimization of a DFA ends. *)
MinimizeEnds == kind = "minimize" ~> pc = "done"

(* D2fa.tla: a D2FA has the transitions of the DFA. *)
D2faLookup == Compression!LookupIsTable

(* D2fa.tla: without a bound that matters, no forest saves more. *)
HeaviestForest == Compression!HeaviestForest

(* D2fa.tla: no tree is wider than the bound. *)
DiameterBounded == Compression!DiameterBounded
=============================================================================
