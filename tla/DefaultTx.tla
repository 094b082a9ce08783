------------------------------ MODULE DefaultTx ------------------------------
(***************************************************************************)
(* DFA::fast_compression_algorithm of generator/dfa.c, with DFA::set_depth: *)
(* transitions that a state shares with a shallower one are replaced by a   *)
(* default transition to it.  The DFA's alphabet has been reduced before.   *)
(* k and bound have their default values, the only ones in use: k=1 and no  *)
(* bound.                                                                   *)
(***************************************************************************)
EXTENDS AlphabetReduction, Sequences, Ordered

NO_STATE == -1
NO_DEPTH == -1   \* 0xFFFFFFFF

(* The states are numbered in the order in which a breadth-first traversal  *)
(* discovers them: nfa2dfa adds them so, and minimize keeps the order.      *)
NumberedAsDiscovered(d) ==
  \A q \in 1..d.size-1 : \E p \in 0..q-1, c \in Symbol :
    /\ d.state_table[p][c] = q
    /\ \A r \in 0..p, b \in Symbol : d.state_table[r][b] > q => r = p /\ b > c

ASSUME NumberingAssumption == \A d \in Dfas : NumberedAsDiscovered(d)

VARIABLES
  depth,        \* the distance of every state from state 0
  queue,        \* of set_depth and of the memory layout
  default_tx,
  labeled_tx,   \* labeled_tx[s]: the symbols s has transitions of its own for
  dt_length,    \* the number of default transitions to a state without one
  state         \* the state to be compressed next

compressVars == <<depth, queue, default_tx, labeled_tx, dt_length, state>>
defaultVars == <<alphabetVars, compressVars>>

-----------------------------------------------------------------------------
States == StatesOf(dfa)
Next(q, c) == dfa.state_table[q][c]

DefaultInit ==
  /\ AlphabetInit
  /\ depth = [q \in States |-> IF q = 0 THEN 0 ELSE NO_DEPTH]
  /\ queue = <<0>>
  /\ default_tx = [q \in {0} |-> 0]
  /\ labeled_tx = [q \in {0} |-> Symbol]
  /\ dt_length = [q \in {0} |-> 0]
  /\ state = 1

(* the states q reaches first, in the order of the symbols *)
Discovered(q) == {p \in States : depth[p] = NO_DEPTH /\ \E c \in Symbol : Next(q, c) = p}

FirstSymbol(q, p) == CHOOSE c \in Symbol : Next(q, c) = p /\ \A d \in Symbol : Next(q, d) = p => c <= d

SetDepth ==
  /\ stage = "compress" /\ queue # <<>>
  /\ LET q == Head(queue) IN
       /\ depth' = [p \in States |-> IF p \in Discovered(q) THEN depth[q] + 1 ELSE depth[p]]
       /\ queue' = Tail(queue) \o InOrder(Discovered(q), [p \in Discovered(q) |-> FirstSymbol(q, p)])
  /\ UNCHANGED <<stage, default_tx, labeled_tx, dt_length, state>>

Common(q, p) == Cardinality({c \in Symbol : Next(q, c) = Next(p, c)})

(* Mutant: any state that comes before is a candidate. *)
Candidates_Before(q) == {p \in States : p < q}

(* the states that are shallower: depth[q] - k >= depth[p] *)
Candidates(q) == {p \in States : depth[q] - 1 >= depth[p]}

(* p is preferred to r: more transitions in common, else a shorter chain,  *)
(* else it comes first.                                                    *)
Preferred(q, p, r) ==
  \/ Common(q, p) > Common(q, r)
  \/ Common(q, p) = Common(q, r) /\ dt_length[p] < dt_length[r]
  \/ Common(q, p) = Common(q, r) /\ dt_length[p] = dt_length[r] /\ p <= r

Best(q) == CHOOSE p \in Candidates(q) : \A r \in Candidates(q) : Preferred(q, p, r)

AddTo(f, x, v) == [y \in DOMAIN f \cup {x} |-> IF y = x THEN v ELSE f[y]]

(* Mutant: a state without default transition keeps the labeled transitions *)
(* of the best candidate only.                                              *)
CompressState_NoDefaultLost ==
  /\ stage = "compress" /\ queue = <<>> /\ state < dfa.size
  /\ LET dt == IF Common(state, Best(state)) = 1 THEN NO_STATE ELSE Best(state) IN
       /\ default_tx' = AddTo(default_tx, state, dt)
       /\ dt_length' = AddTo(dt_length, state, IF dt = NO_STATE THEN 0 ELSE dt_length[dt] + 1)
       /\ labeled_tx' = AddTo(labeled_tx, state,
            {c \in Symbol : Next(state, c) # Next(Best(state), c)})
  /\ state' = state + 1
  /\ UNCHANGED <<stage, depth, queue>>

(* One state: a default transition that saves a single labeled transition  *)
(* is dropped.                                                             *)
CompressState ==
  /\ stage = "compress" /\ queue = <<>> /\ state < dfa.size
  /\ LET dt == IF Common(state, Best(state)) = 1 THEN NO_STATE ELSE Best(state) IN
       /\ default_tx' = AddTo(default_tx, state, dt)
       /\ dt_length' = AddTo(dt_length, state, IF dt = NO_STATE THEN 0 ELSE dt_length[dt] + 1)
       /\ labeled_tx' = AddTo(labeled_tx, state,
            {c \in Symbol : dt = NO_STATE \/ Next(state, c) # Next(dt, c)})
  /\ state' = state + 1
  /\ UNCHANGED <<stage, depth, queue>>

Compressed ==
  /\ stage = "compress" /\ queue = <<>> /\ state = dfa.size
  /\ stage' = "layout"
  /\ queue' = <<0>>
  /\ UNCHANGED <<depth, default_tx, labeled_tx, dt_length, state>>

DefaultNext ==
  \/ AlphabetNext /\ UNCHANGED compressVars
  \/ (SetDepth \/ CompressState \/ Compressed)
     /\ UNCHANGED <<dfa, given, alphabet_tx, max_class, s, t>>

DefaultSpec == DefaultInit /\ [][DefaultNext]_defaultVars

-----------------------------------------------------------------------------
(* What crosscheck_default_tx is for: following default transitions until   *)
(* there is a labeled one, lookup, finds the transition of the full table,  *)
(* after at most dt_length of them.                                         *)
Chain(q, c) ==
  LET walk[n \in 0..dfa.size] ==
        IF n = 0 THEN q
        ELSE IF c \in labeled_tx[walk[n-1]] \/ default_tx[walk[n-1]] = NO_STATE
             THEN walk[n-1] ELSE default_tx[walk[n-1]]
  IN walk

LookupIsTable ==
  stage \in {"layout", "map", "traverse"} =>
    \A q \in States, c \in Symbol :
      LET p == Chain(q, c)[dt_length[q]] IN c \in labeled_tx[p] /\ Next(p, c) = Next(q, c)

(* A chain of default transitions always goes to shallower states, so that *)
(* it is no longer than the state is deep.                                 *)
DefaultsAreShallower ==
  \A q \in 1..state-1 :
    /\ default_tx[q] # NO_STATE => depth[default_tx[q]] < depth[q]
    /\ dt_length[q] <= depth[q]

=============================================================================
