------------------------------- MODULE HybridFA -------------------------------
(***************************************************************************)
(* The hybrid automaton of generator/hybrid_fa.c: a head that is a DFA and  *)
(* tails that stay in the NFA.                                              *)
(*   optimize_nfa_for_hfa  a state that loops on many symbols is split in   *)
(*                         two: the original keeps the symbols it loops on, *)
(*                         a copy the others (states in address order: any) *)
(*   build                 a subset construction that stops at the special  *)
(*                         states: they go to the border of the head state  *)
(*   minimize              Hopcroft's algorithm once more, that tells head  *)
(*                         states with different borders apart              *)
(* and the traversal of trace.c: the head runs, and what its border holds   *)
(* is added to the active tail states.                                      *)
(***************************************************************************)
EXTENDS Minimize, Ordered, SequencesExt

CONSTANTS
  NState,             \* the NFA has the states 0..NState-1, 0 is the initial one
  Nfas,               \* NFAs as NFA::reduce leaves them: without epsilons
  MaxCorrected,       \* bound: states that can be corrected, each with a copy
  MAX_TX,             \* more loops than these make a state special
  SPECIAL_MIN_DEPTH,  \* a special state is at least that far from the initial one
  MAX_HEAD_SIZE       \* and is met when the head has that many states at least

Parsed == 0..NState-1
Node == 0..NState * (MaxCorrected + 1) - 1
UNDEFINED == 1000  \* the depth of a state nobody has set: more than any depth

ASSUME HybridAssumption ==
  /\ NState \in Nat \ {0} /\ MaxCorrected \in Nat
  /\ MAX_TX \in Nat /\ SPECIAL_MIN_DEPTH \in Nat \ {0} /\ MAX_HEAD_SIZE \in Nat
  /\ \A a \in Nfas :
       /\ a.transitions \in [Parsed -> SUBSET (Symbol \X Parsed)]
       /\ a.accepting \in [Parsed -> SUBSET Rule]
       /\ a.first \in [Parsed -> Parsed]

VARIABLES
  nfa,           \* the NFA that HybridFA is called on
  transitions,   \* pairs of a symbol and a target of every state, as they change
  accepting,     \* rules of every state, copies included
  to_correct,    \* states optimize_nfa_for_hfa still has to split
  copies,        \* how many copies it has made
  subsets,       \* build: the set of NFA states of every head state
  queue,         \* build: head states to be expanded
  non_special,   \* states that have been found not to be special, which they stay
  border,        \* the special states of every head state
  dfa_state, nfa_state,  \* the traversal: active head state, active tail states
  active,        \* the states of the NFA it began with that are active
  active_split,  \* and those of the NFA with its states split
  reported       \* the rules this character reports: by the hybrid, by the NFA,
                 \* by the split NFA

headVars == <<state_table, accepted_rules, size, dead_state>>
hopcroftVars == <<dfa, blocks, L, i, j>>
nfaVars == <<nfa, transitions, accepting, to_correct, copies>>
buildVars == <<subsets, queue, non_special, border>>
traverseVars == <<dfa_state, nfa_state, active, active_split, reported>>
hybridVars == <<minimizeVars, nfaVars, buildVars, traverseVars>>

-----------------------------------------------------------------------------
Targets(tx, q) == {t[2] : t \in tx[q]}

(* the states that next leads to from S *)
Closure(S, next) == Within(S, next, Cardinality(Node))[Cardinality(Node)]

(* traverse: everything that can be reached *)
Reachable(tx, S) == Closure(S, [q \in Node |-> Targets(tx, q)])

(* the symbols that lead a state to itself *)
SelfChars(tx, q) == {c \in Symbol : <<c, q>> \in tx[q]}

(* a ".*" state masks all that comes behind it *)
Masks(tx, q) == SelfChars(tx, q) = Symbol

(* what is reached without passing a state that masks the rest *)
TailStates(tx, q) == Closure({q}, [p \in Node |-> IF Masks(tx, p) THEN {} ELSE Targets(tx, p)])

(* A symbol the state does not loop on leads somewhere in its tail. *)
ExcludedInTail(tx, q) ==
  \E p \in TailStates(tx, q) : ~Masks(tx, p) /\ \E t \in tx[p] : t[1] \notin SelfChars(tx, q)

(* the number of steps from the initial state, as set_depth finds it on the *)
(* NFA the constructor got: it stops at once when it is called again, so    *)
(* that the copies, and what only they lead to, have no depth               *)
depth(q) ==
  LET within == Within({0}, [p \in Parsed |-> Targets(nfa.transitions, p)], NState)
  IN IF \E k \in 0..NState : q \in within[k]
     THEN CHOOSE k \in 0..NState : q \in within[k] /\ \A m \in 0..k-1 : q \notin within[m]
     ELSE UNDEFINED

-----------------------------------------------------------------------------
HybridInit ==
  /\ nfa \in Nfas
  /\ transitions = [q \in Node |-> IF q \in Parsed THEN nfa.transitions[q] ELSE {}]
  /\ accepting = [q \in Node |-> IF q \in Parsed THEN nfa.accepting[q] ELSE {}]
  /\ to_correct = {} /\ copies = 0
  /\ pc = "optimize"
  /\ dfa = <<>> /\ blocks = {} /\ L = {} /\ i = 0 /\ j = 0
  /\ state_table = <<>> /\ accepted_rules = <<>> /\ size = 0 /\ dead_state = NO_STATE
  /\ subsets = <<>> /\ queue = <<>> /\ non_special = {} /\ border = <<>>
  /\ dfa_state = 0 /\ nfa_state = {} /\ active = {0} /\ active_split = {0}
  /\ reported = <<{}, {}, {}>>

(* the states that are looked at: what lies behind a state deep enough that *)
(* loops on many symbols is not                                             *)
Candidate(q) == depth(q) >= SPECIAL_MIN_DEPTH /\ Cardinality(SelfChars(transitions, q)) > MAX_TX

FindStatesToCorrect ==
  /\ pc = "optimize"
  /\ to_correct' = {q \in Closure({0}, [p \in Node |-> IF Candidate(p) THEN {} ELSE Targets(transitions, p)]) :
                      Candidate(q) /\ ~Masks(transitions, q) /\ ExcludedInTail(transitions, q)}
  /\ pc' = "correct"
  /\ UNCHANGED <<nfa, transitions, accepting, copies>>

(* states of the tail of s reached by symbols s loops on that lead to a     *)
(* match                                                                    *)
Kept(tx, s) ==
  LET chars == SelfChars(tx, s)
      reachable == Closure({s}, [q \in Node |-> IF Masks(tx, q) THEN Reachable(tx, {q})
                                                ELSE {t[2] : t \in {t \in tx[q] : t[1] \in chars}}])
  IN Closure({q \in reachable : accepting[q] # {}},
             [q \in Node |-> {p \in reachable : q \in Targets(tx, p)}])

(* "original: remove transitions on forbidden characters" *)
OriginalSide(tx, s) ==
  LET kept == Kept(tx, s)
      Allowed(q) == {t \in tx[q] : t[1] \in SelfChars(tx, s) /\ t[2] \in kept}
      processed == Closure({s}, [q \in Node |-> IF Masks(tx, q) THEN {} ELSE {t[2] : t \in Allowed(q)}])
  IN [q \in Node |-> IF q \in processed /\ ~Masks(tx, q) THEN Allowed(q) ELSE tx[q]]

(* make_dup copies what can be reached from the first state of the machine, *)
(* which is not s when s was added to another state as its "any" target     *)
CopyOf(q) == q + NState * (copies + 1)
Duplicate(tx, s) ==
  LET all == Reachable(tx, {nfa.first[s]})
  IN [q \in Node |-> IF q - NState * (copies + 1) \in all
                     THEN {<<t[1], CopyOf(t[2])>> : t \in tx[q - NState * (copies + 1)]} ELSE tx[q]]

(* "copy: keep only transitions on forbidden characters": the states with   *)
(* such a transition, those that lead to them and those behind them.  The   *)
(* copy is given up when it is not one of them.                             *)
CopySide(tx, copy, chars) ==
  LET Forbidden(q) == {t \in tx[q] : t[1] \notin chars}
      marked == {q \in TailStates(tx, copy) : ~Masks(tx, q) /\ Forbidden(q) # {}}
      before == Closure(marked, [q \in Node |-> {p \in Reachable(tx, {copy}) : q \in Targets(tx, p)}])
      all == before \cup Reachable(tx, {t[2] : t \in UNION {Forbidden(q) : q \in marked}})
      reachable == IF copy \in all THEN all ELSE {}
      Removed(q) == {t \in tx[q] : \/ t[2] \notin reachable
                                   \/ t[1] \in chars /\ \E f \in Forbidden(q) : f[2] = t[2] /\ f[2] # q}
  IN [keeps |-> reachable,
      transitions |-> [q \in Node |-> IF q \in reachable THEN tx[q] \ Removed(q) ELSE tx[q]]]

(* what leads to the original leads to the copy as well *)
EnterCopy(tx, s, copy) ==
  [q \in Node |-> IF q \in Reachable(tx, {0}) /\ q # s
                  THEN tx[q] \cup {<<t[1], copy>> : t \in {t \in tx[q] : t[2] = s}} ELSE tx[q]]

(* A state whose tail needs a forbidden character to match is left alone.   *)
LeaveAlone ==
  /\ pc = "correct"
  /\ \E s \in to_correct : s \notin Kept(transitions, s) /\ to_correct' = to_correct \ {s}
  /\ UNCHANGED <<pc, nfa, transitions, accepting, copies>>

Correct ==
  /\ pc = "correct"
  /\ \E s \in to_correct :
       /\ s \in Kept(transitions, s)
       /\ \A q \in Reachable(transitions, {nfa.first[s]}) : CopyOf(q) \in Node
       /\ LET original == OriginalSide(Duplicate(transitions, s), s)
              copy == CopyOf(nfa.first[s])
              side == CopySide(original, copy, SelfChars(transitions, s))
          IN transitions' = IF copy \in side.keeps THEN EnterCopy(side.transitions, s, copy)
                            ELSE side.transitions
       /\ to_correct' = to_correct \ {s}
       /\ accepting' = [q \in Node |-> IF q - NState * (copies + 1) \in Reachable(transitions, {nfa.first[s]})
                                       THEN accepting[q - NState * (copies + 1)] ELSE accepting[q]]
  /\ copies' = copies + 1
  /\ UNCHANGED <<pc, nfa>>

-----------------------------------------------------------------------------
(* Mutant: the tail is not looked at (built without TAIL_DFAS).             *)
special_TailIgnored(q) ==
  /\ q \notin non_special
  /\ depth(q) >= SPECIAL_MIN_DEPTH /\ size >= MAX_HEAD_SIZE
  /\ Cardinality(SelfChars(transitions, q)) > MAX_TX

(* a state that is not expanded when it is met with size head states *)
special(q) ==
  /\ q \notin non_special
  /\ Cardinality(transitions[q]) > MAX_TX
  /\ depth(q) >= SPECIAL_MIN_DEPTH
  /\ size >= MAX_HEAD_SIZE
  /\ Cardinality(SelfChars(transitions, q)) > MAX_TX
  /\ Masks(transitions, q) \/ ~ExcludedInTail(transitions, q)

RulesOf(S) == UNION {accepting[q] : q \in S}

(* the first head state stands for the initial state *)
BuildFirst ==
  /\ pc = "correct" /\ to_correct = {}
  /\ subsets' = <<{0}>> /\ queue' = <<0>>
  /\ size' = 1 /\ accepted_rules' = [s \in {0} |-> accepting[0]] /\ state_table' = [s \in {} |-> 0]
  /\ border' = [s \in {0} |-> {}]
  /\ pc' = "build"
  /\ UNCHANGED <<non_special, dead_state>>

(* the sets that the symbols lead to, the new ones in the order they appear *)
Successors(S) == [c \in Symbol |-> {t[2] : t \in {t \in UNION {transitions[q] : q \in S} : t[1] = c}}]

NewSubsets(next) ==
  LET new == {c \in Symbol : ~Contains(subsets, next[c]) /\ \A b \in 0..c-1 : next[b] # next[c]}
  IN [n \in 1..Cardinality(new) |-> next[CHOOSE c \in new : Cardinality({b \in new : b <= c}) = n]]

StateOf(all, S) == (CHOOSE n \in DOMAIN all : all[n] = S) - 1

(* One head state: its special states go to the border, the others are      *)
(* expanded, and the sets they lead to become states.  The first empty one  *)
(* is the dead state.                                                       *)
Expand ==
  /\ pc = "build" /\ queue # <<>>
  /\ LET s == Head(queue)
         specials == {q \in subsets[s + 1] : special(q)}
         next == Successors(subsets[s + 1] \ specials)
         all == subsets \o NewSubsets(next)
     IN /\ border' = [n \in 0..Len(all)-1 |-> IF n = s THEN specials ELSE IF n < size THEN border[n] ELSE {}]
        /\ non_special' = non_special \cup (subsets[s + 1] \ specials)
        /\ subsets' = all /\ size' = Len(all)
        /\ accepted_rules' = [n \in 0..Len(all)-1 |-> RulesOf(all[n + 1])]
        /\ queue' = Tail(queue) \o [n \in 1..(Len(all) - size) |-> size + n - 1]
        /\ state_table' = [n \in DOMAIN state_table \cup {s} |->
                             IF n = s THEN [c \in Symbol |-> StateOf(all, next[c])] ELSE state_table[n]]
        /\ dead_state' = IF dead_state = NO_STATE /\ Contains(all, {}) THEN StateOf(all, {}) ELSE dead_state
  /\ UNCHANGED pc

(* The head is minimized, or used as it is (main.c and main_memory.c).      *)
Built ==
  /\ pc = "build" /\ queue = <<>>
  /\ \/ /\ pc' = "blocks"
        /\ dfa' = [size |-> size, state_table |-> state_table, accepted_rules |-> accepted_rules,
                   dead_state |-> dead_state]
     \/ pc' = "scan" /\ UNCHANGED dfa
  /\ UNCHANGED <<blocks, L, i, j, headVars, buildVars>>

-----------------------------------------------------------------------------
(* Mutant: the borders are not compared. *)
SameBehaviour_AnyBorder(s, t) == SameAcceptance(s, t)

(* "check that border states are the same" *)
SameBehaviour(s, t) == SameAcceptance(s, t) /\ border[s] = border[t]

HybridInitializeBlocks ==
  /\ pc = "blocks"
  /\ blocks' = {{NO_STATE}} \cup {{t \in States : SameBehaviour(s, t)} : s \in States}
  /\ pc' = "worklist"
  /\ UNCHANGED <<L, i, j, state_table, accepted_rules, size, border>>

(* These parts of the algorithm are those of DFA::minimize. *)
HybridInitializeWorklist == InitializeWorklist /\ UNCHANGED border
HybridRefine == (Refine \/ Refined) /\ UNCHANGED border
HybridKillRow == KillRow /\ UNCHANGED border

(* the border of the row that is moved up replaces the one that is there *)
MovedBorder == [border EXCEPT ![j] = border[i]]

HybridCopyRow == CopyRow /\ border' = MovedBorder

(* "free not used border" *)
HybridTruncate == Truncate /\ border' = [s \in 0..j-1 |-> border[s]]

Minimized == pc = "done" /\ pc' = "scan" /\ UNCHANGED <<blocks, L, i, j, state_table, accepted_rules, size, border>>

-----------------------------------------------------------------------------
NfaStep(tx, S, c) == {t[2] : t \in {t \in UNION {tx[q] : q \in S} : t[1] = c}}

(* trace::traverse of a hybrid automaton, one character *)
TraverseHfa(c) ==
  /\ pc = "scan"
  /\ dfa_state' = state_table[dfa_state][c]
  /\ nfa_state' = NfaStep(transitions, nfa_state, c) \cup border[dfa_state']
  /\ active' = NfaStep(nfa.transitions, active, c)
  /\ active_split' = NfaStep(transitions, active_split, c)
  /\ reported' = <<accepted_rules[dfa_state'] \cup RulesOf(nfa_state'),
                   UNION {nfa.accepting[q] : q \in active'}, RulesOf(active_split')>>

OptimizeNext ==
  /\ FindStatesToCorrect \/ LeaveAlone \/ Correct
  /\ UNCHANGED <<headVars, hopcroftVars, buildVars, traverseVars>>

ConstructNext ==
  /\ \/ (BuildFirst \/ Expand) /\ UNCHANGED hopcroftVars
     \/ Built
  /\ UNCHANGED <<nfaVars, traverseVars>>

HybridMinimizeNext ==
  /\ \/ HybridInitializeBlocks \/ HybridInitializeWorklist \/ HybridRefine \/ HybridKillRow
     \/ HybridCopyRow \/ HybridTruncate \/ Minimized
  /\ UNCHANGED <<dfa, dead_state, nfaVars, subsets, queue, non_special, traverseVars>>

HybridNext ==
  \/ OptimizeNext \/ ConstructNext \/ HybridMinimizeNext
  \/ \E c \in Symbol : TraverseHfa(c) /\ UNCHANGED <<minimizeVars, nfaVars, buildVars>>

HybridSpec == HybridInit /\ [][HybridNext]_hybridVars

-----------------------------------------------------------------------------
(* For every character the head and the tails report the rules the NFA does *)
(* that the construction began with: also when states were split, whatever  *)
(* order they were split in, and when the head was minimized.               *)
SameRulesAsNfa == reported[1] = reported[2]

(* The same of the NFA as it is once its states have been split: head and    *)
(* tails together are in the states it is in.                              *)
SameRulesAsSplitNfa == reported[1] = reported[3]

(* what is only active while r is: its tail, or all that a ".*" leads to    *)
Behind(r) == IF Masks(transitions, r) THEN Reachable(transitions, {r}) ELSE TailStates(transitions, r)

(* "each tail has only one activation": an active tail state is behind a    *)
(* state that loops and that is itself active, so that to enter that one    *)
(* again adds nothing.                                                     *)
OneActivation ==
  \A p \in nfa_state : \E r \in nfa_state :
    p \in Behind(r) /\ Cardinality(SelfChars(transitions, r)) > MAX_TX
===============================================================================
