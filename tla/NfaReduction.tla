----------------------------- MODULE NfaReduction -----------------------------
(***************************************************************************)
(* What happens to a parsed NFA before it is used (generator/nfa.c):        *)
(*   remove_epsilon     epsilon transitions are replaced by transitions    *)
(*   remove_duplicates  states with the same transitions as a successor    *)
(*                      are merged, in the order of their addresses        *)
(*   reduce             a subset construction that keeps apart the targets *)
(*                      common to all symbols, those a state has itself,   *)
(*                      and those that loop on many symbols                *)
(* States that are deleted leave undefined memory behind; a deleted        *)
(* initial state is the program's end.  Then both NFAs run on any trace.   *)
(***************************************************************************)
EXTENDS Ordered, SequencesExt

CONSTANTS
  NState,      \* the parsed NFA has the states 0..NState-1
  Initial,     \* the one the methods are called on (this)
  CSize,       \* CSIZE: symbols are 0..CSIZE-1
  Rule,        \* accepted rules
  Nfas,        \* the parsed NFAs
  MAX_TX,      \* more loops than these make a state special
  MaxNode      \* bound: states that reduce may create

NFA == 0..NState-1
Symbol == 0..CSize-1

ReductionAssumption ==
  /\ NState \in Nat \ {0} /\ CSize \in Nat \ {0} /\ Initial \in NFA
  /\ MAX_TX \in Nat /\ MaxNode \in Nat
  /\ \A a \in Nfas :
       /\ a.transitions \in [NFA \X Symbol -> SUBSET NFA]
       /\ a.epsilon \in [NFA -> SUBSET NFA]
       /\ a.accepting \in [NFA -> SUBSET Rule]

VARIABLES
  parsed,       \* the NFA as it was parsed
  stage,        \* "epsilon", "duplicates", "reduce", "scan", "undefined"
  accepting,    \* rules of every state
  pairs,        \* the pairs of a symbol and a target the states have: a pair
                \* <<q, c, t>> that t was put into, with the target it has now
  todo, source, rest,   \* remove_duplicates: the states to go, the state being
                        \* compared, its pairs to go
  to_del,       \* the states that have been merged into others
  queue,        \* reduce: states to be processed, with the sets they stand for
  transitions,  \* the pairs of every state, old and new
  mapping,      \* sets of states -> the state that stands for them
  this_tx,      \* the old targets of the initial state
  old_active, new_active   \* active states of the parsed NFA and of the result

duplicateVars == <<pairs, todo, source, rest, to_del>>
reduceVars == <<queue, transitions, mapping, this_tx>>
activeVars == <<old_active, new_active>>
reductionVars == <<parsed, stage, accepting, duplicateVars, reduceVars, activeVars>>

NO_STATE == -1

-----------------------------------------------------------------------------
epsilon_closure(q) == Reached({q}, parsed.epsilon)

ParsedStep == [q \in NFA |-> parsed.epsilon[q] \cup UNION {parsed.transitions[<<q, c>>] : c \in Symbol}]

ReductionInit ==
  /\ parsed \in Nfas
  /\ stage = "epsilon"
  /\ accepting = parsed.accepting
  /\ pairs = [p \in {} |-> 0]
  /\ todo = {} /\ source = NO_STATE /\ rest = {} /\ to_del = {}
  /\ queue = <<>> /\ transitions = [q \in {} |-> {}] /\ mapping = [S \in {} |-> 0] /\ this_tx = {}
  /\ old_active = epsilon_closure(Initial) /\ new_active = {Initial}

(* remove_epsilon: every state gets the transitions and the rules of its   *)
(* closure, and states reached by epsilon transitions only are deleted     *)
Traversed == Reached({Initial}, ParsedStep)

Labeled == {x \in Traversed \X Symbol \X NFA :
              \E p \in epsilon_closure(x[1]) : x[3] \in parsed.transitions[<<p, x[2]>>]}

EpsilonOnly(all) == {q \in UNION {epsilon_closure(p) \ {p} : p \in Traversed} : \A x \in all : x[3] # q}

RulesOf(q) == UNION {parsed.accepting[p] : p \in epsilon_closure(q)}

RemoveEpsilon ==
  /\ stage = "epsilon"
  /\ LET all == Labeled
         to_delete == EpsilonOnly(all)
         kept == Traversed \ to_delete
     IN /\ accepting' = [q \in kept |-> RulesOf(q)]
        /\ pairs' = [p \in {x \in all : x[1] \in kept} |-> p[3]]
        /\ stage' = IF Initial \in to_delete THEN "undefined" ELSE "duplicates"
        /\ todo' = Reached({Initial}, [q \in NFA |-> {x[3] : x \in {y \in all : y[1] = q}}])
  /\ UNCHANGED <<source, rest, to_del, reduceVars>>

-----------------------------------------------------------------------------
PairsOf(q) == {p \in DOMAIN pairs : p[1] = q}

(* the transitions of a state, each once *)
Row(q) == {<<p[2], pairs[p]>> : p \in PairsOf(q)}

same_transitions(q, r) ==
  /\ \A p \in PairsOf(q) : \E x \in PairsOf(r) : x[2] = p[2] /\ pairs[x] = pairs[p]
  /\ Cardinality(PairsOf(q)) = Cardinality(PairsOf(r))

(* the next state in the order of the addresses, unless it was merged *)
NextSource ==
  /\ stage = "duplicates" /\ rest = {}
  /\ \E q \in todo :
       /\ todo' = todo \ {q}
       /\ source' = q
       /\ rest' = IF q \in to_del THEN {} ELSE PairsOf(q)
  /\ UNCHANGED <<stage, accepting, pairs, to_del, reduceVars>>

(* Mutant: the rules the states accept are not compared. *)
Mergeable_AnyRules(target) ==
  /\ target \notin to_del /\ target # source
  /\ same_transitions(source, target)

Mergeable(target) ==
  /\ target \notin to_del /\ target # source
  /\ accepting[source] = accepting[target]
  /\ same_transitions(source, target)

(* the next pair of the state; all pairs with the target of a duplicate    *)
(* get the state as their target                                           *)
ComparePair ==
  /\ stage = "duplicates"
  /\ \E p \in rest :
       /\ rest' = rest \ {p}
       /\ IF Mergeable(pairs[p])
          THEN /\ pairs' = [x \in DOMAIN pairs |-> IF pairs[x] = pairs[p] THEN source ELSE pairs[x]]
               /\ to_del' = to_del \cup {pairs[p]}
          ELSE UNCHANGED <<pairs, to_del>>
  /\ UNCHANGED <<stage, accepting, todo, source, reduceVars>>

DeleteDuplicates ==
  /\ stage = "duplicates" /\ rest = {} /\ todo = {}
  /\ IF Initial \in to_del
     THEN stage' = "undefined" /\ UNCHANGED <<queue, transitions, mapping>>
     ELSE /\ stage' = "reduce"
          /\ transitions' = [q \in DOMAIN accepting \ to_del |-> Row(q)]
          /\ mapping' = [S \in {{Initial}} |-> Initial]
          /\ queue' = <<<<Initial, {Initial}>>>>
  /\ source' = NO_STATE
  /\ UNCHANGED <<accepting, pairs, todo, rest, to_del, this_tx>>

-----------------------------------------------------------------------------
Targets(S, c) == {t \in DOMAIN transitions : \E q \in S : <<c, t>> \in transitions[q]}

CommonTarget(S) == {t \in DOMAIN transitions : \A c \in Symbol : t \in Targets(S, c)}

(* the states that loop on more than MAX_TX symbols *)
IsSpecial(q) == Cardinality({c \in Symbol : <<c, q>> \in transitions[q]}) > MAX_TX

(* the sets that a set of states is led to by c: itself, special, others *)
Split(S, c) ==
  LET target == Targets(S, c) \ CommonTarget(S)
      special == {q \in target \ S : IsSpecial(q)}
  IN <<target \cap S, special, (target \ S) \ special>>

SplitCommon(S) == <<CommonTarget(S) \cap S, CommonTarget(S) \ S>>

(* the sets that subset::lookup is called with, numbered in this order *)
Lookup == 0..3 * CSize + 1

LookedUp(S, n) ==
  IF n < 3 * CSize THEN Split(S, n \div 3)[(n % 3) + 1] ELSE SplitCommon(S)[n - 3 * CSize + 1]

FirstLookup(S, X) == CHOOSE n \in Lookup : LookedUp(S, n) = X /\ \A m \in Lookup : LookedUp(S, m) = X => n <= m

(* those that are new, in this order; there is no state for the empty set *)
NewSets(S) ==
  LET new == {LookedUp(S, n) : n \in Lookup} \ ({{}} \cup DOMAIN mapping)
  IN InOrder(new, [X \in new |-> FirstLookup(S, X)])

(* one element of the queue of reduce *)
Expand ==
  /\ stage = "reduce" /\ queue # <<>>
  /\ LET node == Head(queue)[1]
         S    == Head(queue)[2]
         new  == NewSets(S)
         base == NState + Cardinality(DOMAIN transitions \ NFA)
         added == base..base + Len(new) - 1
         map  == [T \in DOMAIN mapping \cup Range(new) |->
                    IF T \in DOMAIN mapping THEN mapping[T]
                    ELSE base - 1 + CHOOSE k \in DOMAIN new : new[k] = T]
         own  == UNION {{<<c, map[T]>> : T \in (Range(Split(S, c)) \cup Range(SplitCommon(S))) \ {{}}} : c \in Symbol}
     IN /\ base + Len(new) <= NState + MaxNode
        /\ mapping' = map
        /\ transitions' = [q \in DOMAIN transitions \cup added |->
                             IF q = node THEN own ELSE IF q \in added THEN {} ELSE transitions[q]]
        /\ accepting' = [q \in DOMAIN accepting \cup added |->
                           IF q \in added THEN UNION {accepting[p] : p \in new[q - base + 1]} ELSE accepting[q]]
        /\ queue' = Tail(queue) \o [k \in 1..Len(new) |-> <<base + k - 1, new[k]>>]
        /\ this_tx' = IF node = Initial THEN {x[2] : x \in transitions[node]} ELSE this_tx
  /\ UNCHANGED <<stage, duplicateVars>>

StepOf == [q \in DOMAIN transitions |-> {x[2] : x \in transitions[q]}]

(* what the old targets of the initial state, other than itself, reach *)
OldStates == Reached(this_tx \ {Initial}, StepOf)

(* the states that are not part of the result are deleted *)
DeleteOld ==
  /\ stage = "reduce" /\ queue = <<>>
  /\ LET to_delete == OldStates
     IN IF Initial \in to_delete
        THEN stage' = "undefined" /\ UNCHANGED <<transitions, accepting>>
        ELSE /\ stage' = "scan"
             /\ transitions' = [q \in DOMAIN transitions \ to_delete |-> transitions[q]]
             /\ accepting' = [q \in DOMAIN transitions \ to_delete |-> accepting[q]]
  /\ UNCHANGED <<duplicateVars, queue, mapping, this_tx>>

Reduce ==
  /\ RemoveEpsilon \/ NextSource \/ ComparePair \/ DeleteDuplicates \/ Expand \/ DeleteOld
  /\ UNCHANGED <<parsed, activeVars>>

(* a character of a trace, in the parsed NFA and in the result *)
Scan(c) ==
  /\ stage = "scan"
  /\ old_active' = UNION {epsilon_closure(t) : t \in UNION {parsed.transitions[<<q, c>>] : q \in old_active}}
  /\ new_active' = Targets(new_active, c)
  /\ UNCHANGED <<parsed, stage, accepting, duplicateVars, reduceVars>>

ReductionNext == Reduce \/ \E c \in Symbol : Scan(c)

ReductionSpec == ReductionInit /\ [][ReductionNext]_reductionVars

-----------------------------------------------------------------------------
(* The reduced NFA accepts what the parsed one accepts: on every trace both *)
(* have the same rules after every character.                              *)
SameRules ==
  stage = "scan" =>
    UNION {parsed.accepting[q] : q \in old_active} = UNION {accepting[q] : q \in new_active}

(* The object that reduce is called on is the initial state of the result: *)
(* remove_duplicates never merges it into another state, and the traversal *)
(* from the old targets does not come back to it and delete it.            *)
InitialKept == stage # "undefined"
===============================================================================
