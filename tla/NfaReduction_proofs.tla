------------------------- MODULE NfaReduction_proofs -------------------------
(***************************************************************************)
(* The reduced NFA accepts what the parsed NFA accepts, as long as every    *)
(* merge of remove_duplicates is of states with the same transitions.       *)
(* same_transitions compares the number of pairs, in which a transition     *)
(* counts more than once after its targets have been merged, so that the    *)
(* code does not guarantee it: the theorem assumes it of the behavior.      *)
(***************************************************************************)
EXTENDS NfaReduction, ArithmeticLemmas

(* A merge does not lose transitions. *)
MergesKeepTransitions == \A p \in rest : Mergeable(pairs[p]) => Row(source) = Row(pairs[p])

-----------------------------------------------------------------------------
(* The parsed NFA *)
ParsedNfa ==
  /\ parsed.transitions \in [NFA \X Symbol -> SUBSET NFA]
  /\ parsed.epsilon \in [NFA -> SUBSET NFA]

Kept == Traversed \ EpsilonOnly(Labeled)

LEMMA NfaFacts ==
  ASSUME ReductionAssumption
  PROVE  /\ IsFiniteSet(NFA) /\ IsFiniteSet(Symbol) /\ NFA \subseteq Int /\ Symbol \subseteq Nat /\ Initial \in NFA
         /\ NState \in Nat /\ CSize \in Nat \ {0}
<1>1. NState \in Nat \ {0} /\ CSize \in Nat \ {0} /\ Initial \in NFA
  BY DEF ReductionAssumption
<1>2. IsFiniteSet(NFA) /\ IsFiniteSet(Symbol)
  BY <1>1, FS_Interval DEF NFA, Symbol
<1>3. NFA \subseteq Int /\ Symbol \subseteq Nat
  BY <1>1 DEF NFA, Symbol
<1> QED BY <1>1, <1>2, <1>3

(* An epsilon closure is the least set that no epsilon transition leaves. *)
LEMMA EpsilonFacts ==
  ASSUME ReductionAssumption, ParsedNfa, NEW q \in NFA
  PROVE  /\ q \in epsilon_closure(q) /\ epsilon_closure(q) \subseteq NFA
         /\ \A p \in epsilon_closure(q) : parsed.epsilon[p] \subseteq epsilon_closure(q)
         /\ \A A \in SUBSET NFA : q \in A /\ (\A p \in A : parsed.epsilon[p] \subseteq A) => epsilon_closure(q) \subseteq A
<1>1. IsFiniteSet(NFA) /\ {q} \in SUBSET NFA
  BY NfaFacts
<1>2. DOMAIN parsed.epsilon = NFA /\ \A p \in NFA : parsed.epsilon[p] \subseteq NFA
  BY DEF ParsedNfa
<1>3. /\ {q} \subseteq Reached({q}, parsed.epsilon) /\ Reached({q}, parsed.epsilon) \subseteq NFA
      /\ \A p \in Reached({q}, parsed.epsilon) : parsed.epsilon[p] \subseteq Reached({q}, parsed.epsilon)
      /\ \A A \in SUBSET NFA : {q} \subseteq A /\ (\A p \in A : parsed.epsilon[p] \subseteq A)
                                 => Reached({q}, parsed.epsilon) \subseteq A
  BY <1>1, <1>2, ReachedFacts
<1> QED BY <1>3 DEF epsilon_closure

(* What the first traversal reaches has the closures of its states, and    *)
(* what they lead to.                                                      *)
LEMMA TraversedFacts ==
  ASSUME ReductionAssumption, ParsedNfa
  PROVE  /\ Traversed \subseteq NFA /\ Initial \in Traversed
         /\ \A q \in Traversed : epsilon_closure(q) \subseteq Traversed
         /\ \A x \in Labeled : x[1] \in Traversed /\ x[2] \in Symbol /\ x[3] \in Traversed /\ x = <<x[1], x[2], x[3]>>
<1>1. IsFiniteSet(NFA) /\ {Initial} \in SUBSET NFA
  BY NfaFacts
<1>2. /\ DOMAIN ParsedStep = NFA
      /\ \A q \in NFA : /\ parsed.epsilon[q] \subseteq ParsedStep[q]
                        /\ \A c \in Symbol : parsed.transitions[<<q, c>>] \subseteq ParsedStep[q]
                        /\ ParsedStep[q] \subseteq NFA
  BY DEF ParsedNfa, ParsedStep
<1>3. /\ {Initial} \subseteq Traversed /\ Traversed \subseteq NFA
      /\ \A q \in Traversed : ParsedStep[q] \subseteq Traversed
  <2> HIDE DEF NFA
  <2> QED BY <1>1, <1>2, ReachedFacts DEF Traversed
<1>4. ASSUME NEW q \in Traversed PROVE epsilon_closure(q) \subseteq Traversed
  BY <1>2, <1>3, EpsilonFacts
<1>5. ASSUME NEW x \in Labeled
      PROVE  x[1] \in Traversed /\ x[2] \in Symbol /\ x[3] \in Traversed /\ x = <<x[1], x[2], x[3]>>
  <2>1. x \in Traversed \X Symbol \X NFA
    BY DEF Labeled
  <2>2. x[1] \in Traversed /\ x[2] \in Symbol /\ x = <<x[1], x[2], x[3]>>
    BY <2>1
  <2>3. PICK p \in epsilon_closure(x[1]) : x[3] \in parsed.transitions[<<p, x[2]>>]
    BY DEF Labeled
  <2>4. p \in Traversed
    BY <1>4, <2>2
  <2> QED BY <1>2, <1>3, <2>2, <2>3, <2>4
<1> QED BY <1>3, <1>4, <1>5

(* The states that are kept are not left by the transitions. *)
LEMMA KeptFacts ==
  ASSUME ReductionAssumption, ParsedNfa
  PROVE  /\ Kept \subseteq Traversed /\ Kept \subseteq NFA /\ IsFiniteSet(Kept)
         /\ \A x \in Labeled : x[3] \in Kept
<1>1. Kept \subseteq Traversed /\ Kept \subseteq NFA
  BY TraversedFacts DEF Kept
<1>2. IsFiniteSet(Kept)
  BY <1>1, NfaFacts, FS_Subset
<1>3. \A x \in Labeled : x[3] \in Kept
  BY TraversedFacts DEF Kept, EpsilonOnly
<1> QED BY <1>1, <1>2, <1>3

(* The epsilon-free NFA takes the steps of the parsed one: A stands for the *)
(* closures of its states.                                                 *)
Closures(A) == UNION {epsilon_closure(q) : q \in A}
LabeledTargets(A, c) == {x[3] : x \in {y \in Labeled : y[1] \in A /\ y[2] = c}}

LEMMA EpsilonFree ==
  ASSUME ReductionAssumption, ParsedNfa, NEW A \in SUBSET Kept, NEW c \in Symbol
  PROVE  /\ LabeledTargets(A, c) \in SUBSET Kept
         /\ UNION {parsed.transitions[<<q, c>>] : q \in Closures(A)} = LabeledTargets(A, c)
<1>1. LabeledTargets(A, c) \subseteq Kept
  BY KeptFacts DEF LabeledTargets
<1>2. ASSUME NEW q \in Closures(A), NEW t \in parsed.transitions[<<q, c>>] PROVE t \in LabeledTargets(A, c)
  <2>1. PICK a \in A : q \in epsilon_closure(a)
    BY DEF Closures
  <2>2. a \in Traversed /\ a \in NFA
    BY KeptFacts
  <2>3. q \in NFA
    BY <2>1, <2>2, EpsilonFacts
  <2>4. t \in NFA
    BY <2>3 DEF ParsedNfa
  <2>5. <<a, c, t>> \in Labeled
    BY <2>1, <2>2, <2>4 DEF Labeled
  <2> QED BY <2>5 DEF LabeledTargets
<1>3. ASSUME NEW t \in LabeledTargets(A, c) PROVE \E q \in Closures(A) : t \in parsed.transitions[<<q, c>>]
  <2>1. PICK x \in Labeled : x[1] \in A /\ x[2] = c /\ x[3] = t
    BY DEF LabeledTargets
  <2>2. PICK p \in epsilon_closure(x[1]) : x[3] \in parsed.transitions[<<p, x[2]>>]
    BY DEF Labeled
  <2> QED BY <2>1, <2>2 DEF Closures
<1> QED BY <1>1, <1>2, <1>3

-----------------------------------------------------------------------------
(* Duplicates *)

(* Every state has one that it was merged into, itself if it was not, with  *)
(* the same transitions and rules.                                         *)
Represented(rep) ==
  /\ rep \in [Kept -> Kept]
  /\ \A p \in DOMAIN pairs : pairs[p] = rep[p[3]]
  /\ \A q \in Kept : rep[q] \notin to_del /\ (q \notin to_del => rep[q] = q)
  /\ \A q \in Kept : Row(rep[q]) = Row(q) /\ RulesOf(rep[q]) = RulesOf(q)

PairsInv ==
  /\ parsed \in Nfas /\ Initial \in Kept
  /\ DOMAIN pairs = {x \in Labeled : x[1] \in Kept}
  /\ to_del \subseteq Kept
  /\ \E rep : Represented(rep)

DuplicatesInv ==
  /\ PairsInv
  /\ accepting = [q \in Kept |-> RulesOf(q)]
  /\ todo \subseteq Kept /\ rest \subseteq DOMAIN pairs
  /\ rest # {} => source \in Kept \ to_del
  /\ this_tx = {}

AtStart == old_active = epsilon_closure(Initial) /\ new_active = {Initial}

LEMMA ParsedFacts ==
  ASSUME ReductionAssumption, parsed \in Nfas
  PROVE  ParsedNfa
BY DEF ReductionAssumption, ParsedNfa

LEMMA RemoveEpsilonStep ==
  ASSUME ReductionAssumption, parsed \in Nfas, stage = "epsilon", to_del = {}, rest = {}, this_tx = {},
         RemoveEpsilon, UNCHANGED <<parsed, activeVars>>
  PROVE  stage' = "undefined" \/ (stage' = "duplicates" /\ DuplicatesInv')
<1> USE ParsedFacts
<1>1. CASE Initial \in EpsilonOnly(Labeled)
  BY <1>1 DEF RemoveEpsilon
<1>2. CASE Initial \notin EpsilonOnly(Labeled)
  <2>1. stage' = "duplicates"
    BY <1>2 DEF RemoveEpsilon
  <2>2. Initial \in Kept
    BY <1>2, TraversedFacts DEF Kept
  <2>3. parsed' = parsed
    OBVIOUS
  <2>4. Kept' = Kept /\ Labeled' = Labeled /\ \A q : RulesOf(q)' = RulesOf(q)
    BY <2>3 DEF Kept, Labeled, EpsilonOnly, Traversed, ParsedStep, epsilon_closure, RulesOf
  <2>5. /\ accepting' = [q \in Kept |-> RulesOf(q)] /\ pairs' = [p \in {x \in Labeled : x[1] \in Kept} |-> p[3]]
        /\ to_del' = {} /\ rest' = {} /\ this_tx' = {}
    BY DEF RemoveEpsilon, Kept, reduceVars
  <2>6. todo' \subseteq Kept
    <3> DEFINE next == [q \in NFA |-> {x[3] : x \in {y \in Labeled : y[1] = q}}]
    <3>1. todo' = Reached({Initial}, next)
      BY DEF RemoveEpsilon
    <3>2. DOMAIN next = NFA /\ \A q \in NFA : next[q] \subseteq Kept
      BY KeptFacts
    <3>3. Kept \subseteq NFA /\ IsFiniteSet(NFA) /\ {Initial} \in SUBSET NFA /\ {Initial} \subseteq Kept
      BY <2>2, KeptFacts, NfaFacts
    <3>4. \A q \in NFA : next[q] \subseteq NFA
      BY <3>2, <3>3
    <3> HIDE DEF next
    <3>5. \A A \in SUBSET NFA : {Initial} \subseteq A /\ (\A q \in A : next[q] \subseteq A) => Reached({Initial}, next) \subseteq A
      BY <3>2, <3>3, <3>4, ReachedFacts
    <3>6. Reached({Initial}, next) \subseteq Kept
      BY <3>2, <3>3, <3>5
    <3> QED BY <3>1, <3>6
  <2>7. ASSUME NEW rep, rep = [q \in Kept |-> q] PROVE Represented(rep)'
    <3>1. rep \in [Kept -> Kept] /\ \A q \in Kept : rep[q] = q
      BY <2>7
    <3>2. \A p \in DOMAIN pairs' : pairs'[p] = rep[p[3]]
      BY <2>5, <3>1, KeptFacts
    <3> QED BY <2>4, <2>5, <3>1, <3>2 DEF Represented
  <2>8. \E rep : Represented(rep)'
    BY <2>7
  <2> QED BY <2>1, <2>2, <2>3, <2>4, <2>5, <2>6, <2>8 DEF DuplicatesInv, PairsInv
<1> QED BY <1>1, <1>2

LEMMA NextSourceStep ==
  ASSUME DuplicatesInv, NextSource, UNCHANGED <<parsed, activeVars>>
  PROVE  stage' = "duplicates" /\ DuplicatesInv'
<1>1. PICK q \in todo : todo' = todo \ {q} /\ source' = q /\ rest' = IF q \in to_del THEN {} ELSE PairsOf(q)
  BY DEF NextSource
<1>2. UNCHANGED <<parsed, stage, accepting, pairs, to_del, this_tx>>
  BY DEF NextSource, reduceVars
<1>3. Kept' = Kept /\ Labeled' = Labeled /\ \A r : RulesOf(r)' = RulesOf(r) /\ Row(r)' = Row(r)
  BY <1>2 DEF Kept, Labeled, EpsilonOnly, Traversed, ParsedStep, epsilon_closure, RulesOf, Row, PairsOf
<1>4. PairsInv'
  BY <1>2, <1>3 DEF DuplicatesInv, PairsInv, Represented
<1>5. rest' \subseteq DOMAIN pairs /\ (rest' # {} => source' \in Kept \ to_del)
  BY <1>1 DEF PairsOf, DuplicatesInv
<1> QED BY <1>1, <1>2, <1>3, <1>4, <1>5 DEF DuplicatesInv, NextSource

(* A merge of states with the same transitions: whoever was represented by  *)
(* the target is represented by the source from now on.                    *)
LEMMA MergeStep ==
  ASSUME ReductionAssumption, DuplicatesInv, MergesKeepTransitions, stage = "duplicates",
         NEW p \in rest, Mergeable(pairs[p]),
         pairs' = [x \in DOMAIN pairs |-> IF pairs[x] = pairs[p] THEN source ELSE pairs[x]],
         to_del' = to_del \cup {pairs[p]}, parsed' = parsed,
         NEW rep, Represented(rep), NEW t, t = pairs[p], NEW s, s = source,
         NEW new, new = [q \in Kept |-> IF rep[q] = t THEN s ELSE rep[q]]
  PROVE  Represented(new)' /\ to_del' \subseteq Kept
<1> DEFINE Sigma(q) == IF q = t THEN s ELSE q
<1>1. source \in Kept \ to_del /\ p \in DOMAIN pairs
  BY DEF DuplicatesInv
<1>2. /\ rep \in [Kept -> Kept]
      /\ \A x \in DOMAIN pairs : pairs[x] = rep[x[3]]
      /\ \A q \in Kept : rep[q] \notin to_del /\ (q \notin to_del => rep[q] = q)
      /\ \A q \in Kept : Row(rep[q]) = Row(q) /\ RulesOf(rep[q]) = RulesOf(q)
  BY DEF Represented
<1>3. \A x \in DOMAIN pairs : x \in Labeled
  BY DEF DuplicatesInv, PairsInv
<1>4. \A x \in DOMAIN pairs : x[3] \in Kept
  BY <1>3, KeptFacts, ParsedFacts DEF DuplicatesInv, PairsInv
<1>5. t = rep[p[3]] /\ t \in Kept /\ t \notin to_del /\ t # source /\ RulesOf(source) = RulesOf(t) /\ Row(source) = Row(t)
  <2>1. t = rep[p[3]] /\ t \in Kept
    BY <1>1, <1>2, <1>4
  <2>2. t \notin to_del /\ t # source /\ accepting[source] = accepting[t]
    BY DEF Mergeable
  <2>3. Row(source) = Row(t)
    BY DEF MergesKeepTransitions
  <2> QED BY <1>1, <2>1, <2>2, <2>3 DEF DuplicatesInv
<1>6. Kept' = Kept /\ \A q : RulesOf(q)' = RulesOf(q)
  BY DEF Kept, Labeled, EpsilonOnly, Traversed, ParsedStep, epsilon_closure, RulesOf
<1>7. DOMAIN pairs' = DOMAIN pairs /\ \A x \in DOMAIN pairs : pairs'[x] = Sigma(pairs[x])
  OBVIOUS
<1>8. ASSUME NEW q PROVE Row(q)' = {<<r[1], Sigma(r[2])>> : r \in Row(q)}
  <2>1. PairsOf(q)' = PairsOf(q)
    BY <1>7 DEF PairsOf
  <2>2. Row(q)' = {<<x[2], pairs'[x]>> : x \in PairsOf(q)}
    BY <2>1 DEF Row
  <2>3. \A x \in PairsOf(q) : x \in DOMAIN pairs /\ <<x[2], pairs'[x]>> = <<x[2], Sigma(pairs[x])>>
    BY <1>7 DEF PairsOf
  <2> HIDE DEF Sigma
  <2>4. ASSUME NEW y \in Row(q)' PROVE y \in {<<r[1], Sigma(r[2])>> : r \in Row(q)}
    <3>1. PICK x \in PairsOf(q) : y = <<x[2], pairs'[x]>>
      BY <2>2
    <3>2. <<x[2], pairs[x]>> \in Row(q)
      BY DEF Row
    <3>3. y = <<x[2], Sigma(pairs[x])>>
      BY <2>3, <3>1
    <3> QED BY <3>2, <3>3
  <2>5. ASSUME NEW r \in Row(q) PROVE <<r[1], Sigma(r[2])>> \in Row(q)'
    <3>1. PICK x \in PairsOf(q) : r = <<x[2], pairs[x]>>
      BY DEF Row
    <3>2. r[1] = x[2] /\ r[2] = pairs[x]
      BY <3>1
    <3> QED BY <2>2, <2>3, <3>2
  <2> QED BY <2>4, <2>5
<1> HIDE DEF Sigma
<1>9. \A q \in Kept : new[q] = Sigma(rep[q])
  BY DEF Sigma
<1>10. new \in [Kept -> Kept]
  BY <1>1, <1>2
<1>11. \A x \in DOMAIN pairs : pairs'[x] = new[x[3]]
  BY <1>2, <1>4, <1>7, <1>9
<1>12. \A q \in Kept : new[q] \notin to_del' /\ (q \notin to_del' => new[q] = q)
  <2> SUFFICES ASSUME NEW q \in Kept PROVE new[q] \notin to_del' /\ (q \notin to_del' => new[q] = q)
    OBVIOUS
  <2>1. to_del' = to_del \cup {t}
    OBVIOUS
  <2> QED BY <1>1, <1>2, <1>5, <1>9, <2>1 DEF Sigma
<1>13. \A q \in Kept : Row(new[q])' = Row(q)' /\ RulesOf(new[q])' = RulesOf(q)'
  <2> SUFFICES ASSUME NEW q \in Kept PROVE Row(new[q])' = Row(q)' /\ RulesOf(new[q])' = RulesOf(q)'
    OBVIOUS
  <2>1. Row(new[q]) = Row(q) /\ RulesOf(new[q]) = RulesOf(q)
    BY <1>2, <1>5, <1>9 DEF Sigma
  <2>2. Row(new[q])' = {<<r[1], Sigma(r[2])>> : r \in Row(new[q])} /\ Row(q)' = {<<r[1], Sigma(r[2])>> : r \in Row(q)}
    <3>1. ASSUME NEW u PROVE Row(u)' = {<<r[1], Sigma(r[2])>> : r \in Row(u)}
      BY <1>8
    <3> QED BY <3>1
  <2>3. RulesOf(new[q])' = RulesOf(new[q]) /\ RulesOf(q)' = RulesOf(q)
    BY <1>6
  <2> QED BY <2>1, <2>2, <2>3
<1>14. to_del' \subseteq Kept
  BY <1>5 DEF DuplicatesInv, PairsInv
<1>15. Represented(new)'
  BY <1>6, <1>7, <1>10, <1>11, <1>12, <1>13 DEF Represented
<1> QED BY <1>14, <1>15

LEMMA ComparePairStep ==
  ASSUME ReductionAssumption, DuplicatesInv, MergesKeepTransitions, ComparePair, UNCHANGED <<parsed, activeVars>>
  PROVE  stage' = "duplicates" /\ DuplicatesInv'
<1>1. PICK p \in rest :
        /\ rest' = rest \ {p}
        /\ IF Mergeable(pairs[p])
           THEN /\ pairs' = [x \in DOMAIN pairs |-> IF pairs[x] = pairs[p] THEN source ELSE pairs[x]]
                /\ to_del' = to_del \cup {pairs[p]}
           ELSE UNCHANGED <<pairs, to_del>>
  BY DEF ComparePair
<1>2. UNCHANGED <<parsed, stage, accepting, todo, source, this_tx>> /\ stage = "duplicates"
  BY DEF ComparePair, reduceVars
<1>3. Kept' = Kept /\ Labeled' = Labeled /\ \A r : RulesOf(r)' = RulesOf(r)
  BY <1>2 DEF Kept, Labeled, EpsilonOnly, Traversed, ParsedStep, epsilon_closure, RulesOf
<1>4. DOMAIN pairs' = DOMAIN pairs
  BY <1>1
<1>5. PICK rep : Represented(rep)
  BY DEF DuplicatesInv, PairsInv
<1>6. to_del' \subseteq Kept /\ (\E new : Represented(new)') /\ source \notin to_del'
  <2>1. CASE Mergeable(pairs[p])
    <3>1. PICK t, s, new : t = pairs[p] /\ s = source /\ new = [q \in Kept |-> IF rep[q] = t THEN s ELSE rep[q]]
      OBVIOUS
    <3>2. /\ pairs' = [x \in DOMAIN pairs |-> IF pairs[x] = pairs[p] THEN source ELSE pairs[x]]
          /\ to_del' = to_del \cup {pairs[p]}
      BY <1>1, <2>1
    <3>3. Represented(new)' /\ to_del' \subseteq Kept
      BY <1>2, <1>5, <2>1, <3>1, <3>2, MergeStep
    <3>4. source # pairs[p] /\ source \notin to_del
      BY <2>1 DEF Mergeable, DuplicatesInv
    <3> QED BY <3>2, <3>3, <3>4
  <2>2. CASE ~Mergeable(pairs[p])
    <3>1. UNCHANGED <<pairs, to_del>>
      BY <1>1, <2>2
    <3>2. \A r : Row(r)' = Row(r)
      BY <3>1 DEF Row, PairsOf
    <3>3. Represented(rep)'
      BY <1>3, <1>5, <3>1, <3>2 DEF Represented
    <3> QED BY <3>1, <3>3 DEF DuplicatesInv, PairsInv
  <2> QED BY <2>1, <2>2
<1>7. PairsInv'
  BY <1>2, <1>3, <1>4, <1>6 DEF DuplicatesInv, PairsInv
<1> QED BY <1>1, <1>2, <1>3, <1>4, <1>6, <1>7 DEF DuplicatesInv

-----------------------------------------------------------------------------
(* The reduction *)
Live == Kept \ to_del

(* what the states of a set lead to on c *)
RowTargets(S, c) == {t \in Live : \E q \in S : <<c, t>> \in Row(q)}

(* States that the initial one leads to and that do not lead back to it.   *)
Cut(K) ==
  /\ K \subseteq Live \ {Initial}
  /\ \A q \in K : \A r \in Row(q) : r[2] \in K
  /\ \A r \in Row(Initial) : r[2] \in K \cup {Initial}

NewNodes(n) == NState..NState + n - 1

(* the old states and n new ones; every set has a state of its own *)
Structure(n) ==
  /\ DOMAIN transitions = Live \cup NewNodes(n) /\ DOMAIN accepting = Kept \cup NewNodes(n)
  /\ \A q \in DOMAIN transitions : transitions[q] \subseteq Symbol \X DOMAIN transitions
  /\ \A q \in Live \ {Initial} : transitions[q] = Row(q)
  /\ \A q \in Kept : accepting[q] = RulesOf(q)
  /\ {Initial} \in DOMAIN mapping /\ mapping[{Initial}] = Initial /\ {} \notin DOMAIN mapping
  /\ \A S \in DOMAIN mapping : mapping[S] \in {Initial} \cup NewNodes(n)
  /\ \A S, T \in DOMAIN mapping : mapping[S] = mapping[T] => S = T

Entry(S) == <<mapping[S], S>>

(* the initial state is the first to be processed, with its old transitions *)
InitialFirst ==
  \/ queue = <<<<Initial, {Initial}>>>> /\ transitions[Initial] = Row(Initial)
  \/ (\A k \in 1..Len(queue) : queue[k][1] # Initial) /\ this_tx = {r[2] : r \in Row(Initial)}

Queued(S) == \E k \in 1..Len(queue) : queue[k] = Entry(S)

(* a state that leads to the states of sets that are, together, what the    *)
(* states of its set lead to                                               *)
Done(S) ==
  \A c \in Symbol :
    /\ \A t : <<c, t>> \in transitions[mapping[S]] => \E T \in DOMAIN mapping : t = mapping[T]
    /\ UNION {T \in DOMAIN mapping : <<c, mapping[T]>> \in transitions[mapping[S]]} = RowTargets(S, c)

Accepts(S) == accepting[mapping[S]] = UNION {RulesOf(q) : q \in S}

WithinCut(K) == \A S \in DOMAIN mapping : (S = {Initial} \/ S \subseteq K) /\ Accepts(S) /\ (Queued(S) \/ Done(S))

ReduceInv ==
  /\ PairsInv /\ Initial \notin to_del
  /\ \E n \in Nat : Structure(n)
  /\ queue \in Seq({Entry(S) : S \in DOMAIN mapping})
  /\ InitialFirst
  /\ \A K \in SUBSET Live : Cut(K) => WithinCut(K)

(* A row holds symbols and states that are not deleted. *)
LEMMA RowFacts ==
  ASSUME ReductionAssumption, PairsInv
  PROVE  \A q : Row(q) \subseteq Symbol \X Live
<1>1. ParsedNfa
  BY ParsedFacts DEF PairsInv
<1>2. PICK rep : Represented(rep)
  BY DEF PairsInv
<1>3. SUFFICES ASSUME NEW q, NEW r \in Row(q) PROVE r \in Symbol \X Live
  OBVIOUS
<1>4. PICK p \in PairsOf(q) : r = <<p[2], pairs[p]>>
  BY DEF Row
<1>5. p \in Labeled /\ p \in DOMAIN pairs
  BY DEF PairsOf, PairsInv
<1>6. p[2] \in Symbol /\ p[3] \in Kept
  BY <1>1, <1>5, TraversedFacts, KeptFacts
<1>7. pairs[p] = rep[p[3]] /\ rep[p[3]] \in Kept /\ rep[p[3]] \notin to_del
  BY <1>2, <1>5, <1>6 DEF Represented
<1> QED BY <1>4, <1>6, <1>7 DEF Live

LEMMA DeleteDuplicatesStep ==
  ASSUME ReductionAssumption, DuplicatesInv, DeleteDuplicates, UNCHANGED <<parsed, activeVars>>
  PROVE  stage' = "undefined" \/ (stage' = "reduce" /\ ReduceInv')
<1>1. CASE Initial \in to_del
  BY <1>1 DEF DeleteDuplicates
<1>2. CASE Initial \notin to_del
  <2>1. /\ stage' = "reduce" /\ transitions' = [q \in Live |-> Row(q)]
        /\ mapping' = [S \in {{Initial}} |-> Initial] /\ queue' = <<<<Initial, {Initial}>>>>
        /\ UNCHANGED <<parsed, accepting, pairs, to_del, this_tx>>
    BY <1>2 DEF DeleteDuplicates, Live, DuplicatesInv
  <2>2. /\ Kept' = Kept /\ Labeled' = Labeled /\ Live' = Live
        /\ \A r : RulesOf(r)' = RulesOf(r) /\ Row(r)' = Row(r)
    BY <2>1 DEF Kept, Labeled, EpsilonOnly, Traversed, ParsedStep, epsilon_closure, RulesOf, Row, PairsOf, Live
  <2>3. PairsInv'
    BY <2>1, <2>2 DEF DuplicatesInv, PairsInv, Represented
  <2>4. Initial \in Live /\ Initial \in Kept
    BY <1>2 DEF DuplicatesInv, PairsInv, Live
  <2>5. NewNodes(0) = {}
    BY NfaFacts DEF NewNodes
  <2>6. Structure(0)'
    <3>1. \A q : Row(q) \subseteq Symbol \X Live
      BY RowFacts DEF DuplicatesInv
    <3>2. NewNodes(0)' = {}
      BY <2>5 DEF NewNodes
    <3>3. accepting' = [q \in Kept |-> RulesOf(q)]
      BY <2>1 DEF DuplicatesInv
    <3> QED BY <2>1, <2>2, <2>4, <3>1, <3>2, <3>3 DEF Structure
  <2>7. \A S : Entry(S)' = <<mapping'[S], S>>
    BY DEF Entry
  <2>8. queue' \in Seq({Entry(S)' : S \in DOMAIN mapping'})
    <3> DEFINE E == {Entry(S)' : S \in DOMAIN mapping'}
    <3>1. <<Initial, {Initial}>> \in E
      BY <2>1, <2>7
    <3>2. ASSUME NEW e \in E PROVE <<e>> \in Seq(E)
      <4> HIDE DEF E
      <4> QED OBVIOUS
    <3> HIDE DEF E
    <3>3. queue' \in Seq(E)
      BY <2>1, <3>1, <3>2
    <3> QED BY <3>3 DEF E
  <2>9. InitialFirst'
    BY <2>1, <2>2, <2>4 DEF InitialFirst
  <2>10. ASSUME NEW K PROVE WithinCut(K)'
    <3>1. Accepts({Initial})'
      <4>1. accepting'[Initial] = RulesOf(Initial)
        BY <2>1, <2>4 DEF DuplicatesInv
      <4>2. mapping'[{Initial}] = Initial
        BY <2>1
      <4>3. {RulesOf(q)' : q \in {Initial}} = {RulesOf(Initial)}
        BY <2>2
      <4>4. UNION {RulesOf(q)' : q \in {Initial}} = RulesOf(Initial)
        BY <4>3
      <4> QED BY <4>1, <4>2, <4>4 DEF Accepts
    <3>2. Queued({Initial})'
      <4>1. Len(queue') = 1 /\ queue'[1] = <<Initial, {Initial}>> /\ Entry({Initial})' = <<Initial, {Initial}>>
        BY <2>1, <2>7
      <4>2. 1 \in 1..Len(queue') /\ queue'[1] = Entry({Initial})'
        BY <4>1
      <4> QED BY <4>2 DEF Queued
    <3> QED BY <2>1, <3>1, <3>2 DEF WithinCut
  <2>11. ReduceInv'
    BY <1>2, <2>1, <2>3, <2>6, <2>8, <2>9, <2>10 DEF ReduceInv
  <2> QED BY <2>1, <2>11
<1> QED BY <1>1, <1>2

(* What reduce looks up *)
Looked(S) == {LookedUp(S, n) : n \in Lookup}
NewPart(S) == Looked(S) \ ({{}} \cup DOMAIN mapping)
Parts(S, c) == (Range(Split(S, c)) \cup Range(SplitCommon(S))) \ {{}}

LEMMA NewSetsFacts ==
  ASSUME ReductionAssumption, NEW S
  PROVE  /\ NewSets(S) \in Seq(NewPart(S)) /\ Len(NewSets(S)) \in Nat
         /\ \A i, j \in 1..Len(NewSets(S)) : NewSets(S)[i] = NewSets(S)[j] => i = j
         /\ \A T \in NewPart(S) : \E i \in 1..Len(NewSets(S)) : NewSets(S)[i] = T
<1> DEFINE new == NewPart(S)
           key == [X \in new |-> FirstLookup(S, X)]
<1>1. Lookup \subseteq Nat /\ IsFiniteSet(Lookup)
  <2>1. 0 \in Int /\ 3 * CSize + 1 \in Int
    BY NfaFacts
  <2>2. IsFiniteSet(0..3 * CSize + 1)
    BY <2>1, FS_Interval
  <2>3. 0..3 * CSize + 1 \subseteq Nat
    BY <2>1
  <2> QED BY <2>2, <2>3 DEF Lookup
<1>2. IsFiniteSet(Looked(S))
  <2> DEFINE f == [n \in Lookup |-> LookedUp(S, n)]
  <2>1. f \in Surjection(Lookup, Looked(S))
    BY DEF Surjection, Looked
  <2> QED BY <1>1, <2>1, FS_Surjection
<1>3. IsFiniteSet(new)
  BY <1>2, FS_Subset DEF NewPart
<1>4. ASSUME NEW X \in new PROVE FirstLookup(S, X) \in Lookup /\ LookedUp(S, FirstLookup(S, X)) = X
  <2> DEFINE at == {n \in Lookup : LookedUp(S, n) = X}
  <2>1. at \in SUBSET Nat /\ at # {}
    BY <1>1 DEF NewPart, Looked
  <2>2. PICK n \in at : \A m \in at : n <= m
    <3> HIDE DEF at
    <3> QED BY <2>1, LeastElement
  <2>3. n \in Lookup /\ LookedUp(S, n) = X /\ \A m \in Lookup : LookedUp(S, m) = X => n <= m
    BY <2>2
  <2> QED BY <2>3 DEF FirstLookup
<1>5. key \in [new -> Int] /\ \A x, y \in new : key[x] = key[y] => x = y
  <2>1. \A X \in new : key[X] = FirstLookup(S, X) /\ key[X] \in Lookup /\ LookedUp(S, key[X]) = X
    BY <1>4
  <2>2. key \in [new -> Int]
    <3>1. ASSUME NEW X \in new PROVE FirstLookup(S, X) \in Int
      <4>1. FirstLookup(S, X) \in Lookup
        BY <1>4
      <4>2. Lookup \subseteq Int
        BY <1>1
      <4> QED BY <4>1, <4>2
    <3> HIDE DEF new
    <3> QED BY <3>1
  <2> HIDE DEF key, new
  <2>3. ASSUME NEW x \in new, NEW y \in new, key[x] = key[y] PROVE x = y
    BY <2>1, <2>3
  <2> QED BY <2>2, <2>3
<1>6. NewSets(S) = InOrder(new, key)
  BY DEF NewSets, NewPart, Looked
<1> HIDE DEF new, key
<1>7. /\ NewSets(S) \in Seq(new) /\ Len(NewSets(S)) = Cardinality(new) /\ Cardinality(new) \in Nat
      /\ NewSets(S) \in [1..Cardinality(new) -> new]
      /\ \A m, n \in 1..Cardinality(new) : m < n => key[NewSets(S)[m]] < key[NewSets(S)[n]]
      /\ \A x \in new : \E n \in 1..Cardinality(new) : NewSets(S)[n] = x
  <2> DEFINE o == InOrder(new, key)
  <2>1. o \in Seq(new)
    BY <1>3, <1>5, InOrderFacts
  <2>2. Len(o) = Cardinality(new) /\ Cardinality(new) \in Nat
    BY <1>3, <1>5, InOrderFacts
  <2>3. o \in [1..Cardinality(new) -> new]
    BY <1>3, <1>5, InOrderFacts
  <2>4. \A m, n \in 1..Cardinality(new) : m < n => key[o[m]] < key[o[n]]
    BY <1>3, <1>5, InOrderFacts
  <2>5. \A x \in new : \E n \in 1..Cardinality(new) : o[n] = x
    BY <1>3, <1>5, InOrderFacts
  <2> HIDE DEF o
  <2>6. NewSets(S) = o
    BY <1>6 DEF o
  <2> QED BY <2>1, <2>2, <2>3, <2>4, <2>5, <2>6
<1>8. ASSUME NEW i \in 1..Len(NewSets(S)), NEW j \in 1..Len(NewSets(S)), NewSets(S)[i] = NewSets(S)[j] PROVE i = j
  <2>1. key[NewSets(S)[i]] \in Int
    BY <1>5, <1>7
  <2> QED BY <1>7, <1>8, <2>1
<1> QED BY <1>7, <1>8 DEF new

(* The sets a state leads to on c are looked up; together they are the      *)
(* targets, and none of them has states of the set and others.             *)
LEMMA PartsFacts ==
  ASSUME ReductionAssumption, NEW S
  PROVE  /\ \A c \in Symbol : Parts(S, c) \subseteq Looked(S) /\ UNION Parts(S, c) = Targets(S, c)
         /\ \A T \in Looked(S) : /\ \E c \in Symbol : T \subseteq Targets(S, c)
                                 /\ T \subseteq S \/ T \cap S = {}
<1>1. CSize \in Nat \ {0} /\ 0 \in Symbol /\ Symbol = 0..CSize-1
  BY NfaFacts DEF Symbol
<1>2. \A c \in Symbol : CommonTarget(S) \subseteq Targets(S, c)
  BY DEF CommonTarget
<1>3. ASSUME NEW c
      PROVE  /\ DOMAIN Split(S, c) = 1..3 /\ DOMAIN SplitCommon(S) = 1..2
             /\ Range(Split(S, c)) = {Split(S, c)[1], Split(S, c)[2], Split(S, c)[3]}
             /\ Range(SplitCommon(S)) = {SplitCommon(S)[1], SplitCommon(S)[2]}
             /\ Split(S, c)[1] \cup Split(S, c)[2] \cup Split(S, c)[3] = Targets(S, c) \ CommonTarget(S)
             /\ SplitCommon(S)[1] \cup SplitCommon(S)[2] = CommonTarget(S)
             /\ Split(S, c)[1] \subseteq S /\ SplitCommon(S)[1] \subseteq S
             /\ Split(S, c)[2] \cap S = {} /\ Split(S, c)[3] \cap S = {} /\ SplitCommon(S)[2] \cap S = {}
  <2> DEFINE target == Targets(S, c) \ CommonTarget(S)
             special == {q \in target \ S : IsSpecial(q)}
  <2>1. Split(S, c) = <<target \cap S, special, (target \ S) \ special>>
    BY DEF Split
  <2>2. SplitCommon(S) = <<CommonTarget(S) \cap S, CommonTarget(S) \ S>>
    BY DEF SplitCommon
  <2>3. special \subseteq target \ S
    OBVIOUS
  <2> HIDE DEF target, special
  <2>4. \A a, b, d : DOMAIN <<a, b, d>> = 1..3 /\ DOMAIN <<a, b>> = 1..2
    OBVIOUS
  <2>5. \A a, b, d : Range(<<a, b, d>>) = {a, b, d} /\ Range(<<a, b>>) = {a, b}
    BY <2>4 DEF Range
  <2>6. Split(S, c)[1] = target \cap S /\ Split(S, c)[2] = special /\ Split(S, c)[3] = (target \ S) \ special
    BY <2>1
  <2>7. SplitCommon(S)[1] = CommonTarget(S) \cap S /\ SplitCommon(S)[2] = CommonTarget(S) \ S
    BY <2>2
  <2>8. DOMAIN Split(S, c) = 1..3 /\ Range(Split(S, c)) = {Split(S, c)[1], Split(S, c)[2], Split(S, c)[3]}
    BY <2>1, <2>4, <2>5, <2>6
  <2>9. DOMAIN SplitCommon(S) = 1..2 /\ Range(SplitCommon(S)) = {SplitCommon(S)[1], SplitCommon(S)[2]}
    BY <2>2, <2>4, <2>5, <2>7
  <2>10. (target \cap S) \cup special \cup ((target \ S) \ special) = target
    BY <2>3
  <2> QED BY <2>3, <2>6, <2>7, <2>8, <2>9, <2>10 DEF target
<1>4. ASSUME NEW c \in Symbol PROVE Parts(S, c) \subseteq Looked(S) /\ UNION Parts(S, c) = Targets(S, c)
  <2>1. ASSUME NEW k \in {0, 1, 2} PROVE 3 * c + k \in Lookup /\ LookedUp(S, 3 * c + k) = Split(S, c)[k + 1]
    <3>1. c \in Nat /\ 3 * c + k \in Nat /\ 3 * c + k < 3 * CSize /\ 3 * c + k <= 3 * CSize + 1 /\ 3 * CSize + 1 \in Nat
      BY <1>1
    <3>2. (3 * c + k) \div 3 = c /\ (3 * c + k) % 3 = k
      BY <3>1
    <3>3. LookedUp(S, 3 * c + k) = Split(S, (3 * c + k) \div 3)[((3 * c + k) % 3) + 1]
      BY <3>1 DEF LookedUp
    <3> QED BY <3>1, <3>2, <3>3 DEF Lookup
  <2>2. ASSUME NEW k \in {0, 1} PROVE 3 * CSize + k \in Lookup /\ LookedUp(S, 3 * CSize + k) = SplitCommon(S)[k + 1]
    <3>1. ~(3 * CSize + k < 3 * CSize) /\ (3 * CSize + k) - 3 * CSize = k
      BY <1>1
    <3>2. LookedUp(S, 3 * CSize + k) = SplitCommon(S)[(3 * CSize + k) - 3 * CSize + 1]
      BY <3>1 DEF LookedUp
    <3> QED BY <1>1, <3>1, <3>2 DEF Lookup
  <2>3. \A X \in Range(Split(S, c)) : \E k \in {0, 1, 2} : X = Split(S, c)[k + 1]
    BY <1>3
  <2>4. \A X \in Range(SplitCommon(S)) : \E k \in {0, 1} : X = SplitCommon(S)[k + 1]
    BY <1>3
  <2>5. Parts(S, c) \subseteq Looked(S)
    BY <2>1, <2>2, <2>3, <2>4 DEF Parts, Looked
  <2>6. UNION Parts(S, c) = Targets(S, c)
    <3>1. UNION Parts(S, c) = UNION (Range(Split(S, c)) \cup Range(SplitCommon(S)))
      BY DEF Parts
    <3>2. UNION Range(Split(S, c)) = Targets(S, c) \ CommonTarget(S)
      BY <1>3
    <3>3. UNION Range(SplitCommon(S)) = CommonTarget(S)
      BY <1>3
    <3> QED BY <1>2, <3>1, <3>2, <3>3
  <2> QED BY <2>5, <2>6
<1>5. ASSUME NEW T \in Looked(S)
      PROVE  (\E c \in Symbol : T \subseteq Targets(S, c)) /\ (T \subseteq S \/ T \cap S = {})
  <2>1. PICK n \in Lookup : T = LookedUp(S, n)
    BY DEF Looked
  <2>2. n \in Nat /\ n <= 3 * CSize + 1
    BY <1>1, <2>1 DEF Lookup
  <2>3. CASE n < 3 * CSize
    <3>1. n \div 3 \in Symbol /\ (n % 3) + 1 \in 1..3
      <4>1. n \div 3 \in Nat /\ n \div 3 < CSize /\ n % 3 \in 0..2
        BY <1>1, <2>2, <2>3
      <4> QED BY <1>1, <4>1
    <3>2. T = Split(S, n \div 3)[(n % 3) + 1]
      BY <2>1, <2>3 DEF LookedUp
    <3> QED BY <1>3, <3>1, <3>2
  <2>4. CASE n >= 3 * CSize
    <3>1. n - 3 * CSize + 1 \in {1, 2} /\ ~(n < 3 * CSize)
      BY <1>1, <2>2, <2>4
    <3>2. T = SplitCommon(S)[n - 3 * CSize + 1]
      BY <2>1, <3>1 DEF LookedUp
    <3>3. T \subseteq CommonTarget(S) /\ (T \subseteq S \/ T \cap S = {})
      BY <1>3, <3>1, <3>2
    <3> QED BY <1>1, <1>2, <3>3
  <2> QED BY <1>1, <2>2, <2>3, <2>4
<1> QED BY <1>4, <1>5

(* What is built from the parsed NFA and the pairs stays as it is while     *)
(* they do.                                                                *)
LEMMA SameStates ==
  ASSUME UNCHANGED <<parsed, pairs, to_del>>
  PROVE  /\ Kept' = Kept /\ Labeled' = Labeled /\ Live' = Live
         /\ \A q : RulesOf(q)' = RulesOf(q) /\ Row(q)' = Row(q)
         /\ \A S, c : RowTargets(S, c)' = RowTargets(S, c)
         /\ \A K : Cut(K)' = Cut(K)
         /\ PairsInv' = PairsInv
<1>1. Kept' = Kept /\ Labeled' = Labeled /\ Live' = Live /\ \A q : RulesOf(q)' = RulesOf(q) /\ Row(q)' = Row(q)
  BY DEF Kept, Labeled, EpsilonOnly, Traversed, ParsedStep, epsilon_closure, RulesOf, Row, PairsOf, Live
<1>2. (\A S, c : RowTargets(S, c)' = RowTargets(S, c)) /\ (\A K : Cut(K)' = Cut(K))
  BY <1>1 DEF RowTargets, Cut
<1>3. \A rep : Represented(rep)' = Represented(rep)
  BY <1>1 DEF Represented
<1>4. PairsInv' = PairsInv
  BY <1>1, <1>3 DEF PairsInv
<1> QED BY <1>1, <1>2, <1>4

(* What a step of the reduction does: the state of S gets its transitions,  *)
(* and the new sets get states of their own, behind the n that exist.      *)
Expanded(S, n, new) ==
  /\ DOMAIN mapping' = DOMAIN mapping \cup NewPart(S)
  /\ \A T \in DOMAIN mapping : mapping'[T] = mapping[T]
  /\ \A k \in 1..Len(new) : mapping'[new[k]] = NState + n + k - 1
  /\ DOMAIN transitions' = DOMAIN transitions \cup NewNodes(n + Len(new))
  /\ transitions'[mapping[S]] = UNION {{<<c, mapping'[T]>> : T \in Parts(S, c)} : c \in Symbol}
  /\ \A q \in DOMAIN transitions \ {mapping[S]} : transitions'[q] = transitions[q]
  /\ \A q \in NewNodes(n + Len(new)) \ NewNodes(n) : transitions'[q] = {}
  /\ DOMAIN accepting' = DOMAIN accepting \cup NewNodes(n + Len(new))
  /\ \A q \in DOMAIN accepting : accepting'[q] = accepting[q]
  /\ \A k \in 1..Len(new) : accepting'[NState + n + k - 1] = UNION {accepting[p] : p \in new[k]}
  /\ queue' = Tail(queue) \o [k \in 1..Len(new) |-> <<NState + n + k - 1, new[k]>>]
  /\ this_tx' = IF mapping[S] = Initial THEN {r[2] : r \in transitions[mapping[S]]} ELSE this_tx

LEMMA ExpandForm ==
  ASSUME ReductionAssumption, PairsInv, NEW n \in Nat, Structure(n),
         Initial \notin to_del, queue \in Seq({Entry(T) : T \in DOMAIN mapping}), Expand
  PROVE  \E S \in DOMAIN mapping : Head(queue) = Entry(S) /\ Expanded(S, n, NewSets(S))
<1> DEFINE node == Head(queue)[1]
           S == Head(queue)[2]
           new == NewSets(S)
           N == Len(new)
           base == NState + Cardinality(DOMAIN transitions \ NFA)
           added == base..base + N - 1
           map == [T \in DOMAIN mapping \cup Range(new) |->
                     IF T \in DOMAIN mapping THEN mapping[T] ELSE base - 1 + CHOOSE k \in DOMAIN new : new[k] = T]
           own == UNION {{<<c, map[T]>> : T \in Parts(S, c)} : c \in Symbol}
<1>1. S \in DOMAIN mapping /\ Head(queue) = Entry(S)
  <2> DEFINE E == {Entry(T) : T \in DOMAIN mapping}
  <2>1. queue \in Seq(E) /\ queue # <<>>
    BY DEF Expand
  <2>2. Head(queue) \in E
    <3> HIDE DEF E
    <3> QED BY <2>1
  <2>3. PICK T \in DOMAIN mapping : Head(queue) = <<mapping[T], T>>
    BY <2>2 DEF Entry
  <2> QED BY <2>3 DEF Entry
<1>2. node = mapping[S]
  BY <1>1 DEF Entry
<1>3. /\ mapping' = map
      /\ transitions' = [q \in DOMAIN transitions \cup added |->
                            IF q = node THEN own ELSE IF q \in added THEN {} ELSE transitions[q]]
      /\ accepting' = [q \in DOMAIN accepting \cup added |->
                          IF q \in added THEN UNION {accepting[p] : p \in new[q - base + 1]} ELSE accepting[q]]
      /\ queue' = Tail(queue) \o [k \in 1..N |-> <<base + k - 1, new[k]>>]
      /\ this_tx' = IF node = Initial THEN {x[2] : x \in transitions[node]} ELSE this_tx
  <2>1. mapping' = map
    BY DEF Expand
  <2>2. transitions' = [q \in DOMAIN transitions \cup added |->
                          IF q = node THEN own ELSE IF q \in added THEN {} ELSE transitions[q]]
    BY DEF Expand, Parts
  <2>3. accepting' = [q \in DOMAIN accepting \cup added |->
                        IF q \in added THEN UNION {accepting[p] : p \in new[q - base + 1]} ELSE accepting[q]]
    BY DEF Expand
  <2>4. queue' = Tail(queue) \o [k \in 1..N |-> <<base + k - 1, new[k]>>]
    BY DEF Expand
  <2>5. this_tx' = IF node = Initial THEN {x[2] : x \in transitions[node]} ELSE this_tx
    BY DEF Expand
  <2> QED BY <2>1, <2>2, <2>3, <2>4, <2>5
<1> HIDE DEF S, node
<1>4. NState \in Nat /\ Kept \subseteq NFA /\ NFA = 0..NState-1 /\ Initial \in NFA
  BY NfaFacts, ParsedFacts, KeptFacts DEF PairsInv, NFA
<1>5. DOMAIN transitions = Live \cup NewNodes(n) /\ DOMAIN accepting = Kept \cup NewNodes(n) /\ Live \subseteq Kept
  BY DEF Structure, Live
<1>6. base = NState + n
  <2>1. (Live \cup NewNodes(n)) \ NFA = NState..NState + n - 1
    <3>1. Live \subseteq NFA
      BY <1>4, <1>5
    <3>2. NewNodes(n) \cap NFA = {}
      BY <1>4 DEF NewNodes
    <3> QED BY <3>1, <3>2 DEF NewNodes
  <2>2. Cardinality(NState..NState + n - 1) = n
    <3>1. NState \in Int /\ NState + n - 1 \in Int
      BY <1>4
    <3>2. Cardinality(NState..NState + n - 1) = IF NState > NState + n - 1 THEN 0 ELSE (NState + n - 1) - NState + 1
      BY <3>1, FS_Interval
    <3> QED BY <1>4, <3>2
  <2> QED BY <1>5, <2>1, <2>2
<1>7. /\ new \in Seq(NewPart(S)) /\ N \in Nat
      /\ \A i, j \in 1..N : new[i] = new[j] => i = j
      /\ \A T \in NewPart(S) : \E i \in 1..N : new[i] = T
  BY NewSetsFacts
<1> HIDE DEF new, base, N
<1>8. DOMAIN new = 1..N /\ (\A k \in 1..N : new[k] \in NewPart(S)) /\ Range(new) = NewPart(S)
  <2>1. DOMAIN new = 1..N /\ \A k \in 1..N : new[k] \in NewPart(S)
    BY <1>7 DEF N
  <2> QED BY <1>7, <2>1 DEF Range
<1>9. added = NewNodes(n + N) \ NewNodes(n) /\ NewNodes(n + N) = NewNodes(n) \cup added
  BY <1>4, <1>6, <1>7 DEF NewNodes
<1>10. added \cap DOMAIN transitions = {} /\ added \cap DOMAIN accepting = {}
  BY <1>4, <1>5, <1>6, <1>7 DEF NewNodes
<1>11. node \in DOMAIN transitions
  <2>1. Initial \in Live
    BY DEF PairsInv, Live
  <2>2. node \in {Initial} \cup NewNodes(n)
    BY <1>1, <1>2 DEF Structure
  <2> QED BY <1>5, <2>1, <2>2
<1>12. \A T \in NewPart(S) : T \notin DOMAIN mapping
  BY DEF NewPart
<1>13. ASSUME NEW k \in 1..N PROVE map[new[k]] = base - 1 + k
  <2>1. new[k] \in NewPart(S) /\ new[k] \notin DOMAIN mapping /\ new[k] \in Range(new)
    BY <1>8, <1>12
  <2>2. (CHOOSE i \in DOMAIN new : new[i] = new[k]) = k
    BY <1>7, <1>8
  <2> QED BY <2>1, <2>2
<1>14. DOMAIN map = DOMAIN mapping \cup NewPart(S) /\ \A T \in DOMAIN mapping : map[T] = mapping[T]
  BY <1>8
<1> HIDE DEF map
<1>15. ASSUME NEW k \in 1..N
       PROVE  base + k - 1 = NState + n + k - 1 /\ base - 1 + k = NState + n + k - 1
  BY <1>4, <1>6, <1>7
<1>16. ASSUME NEW k \in 1..N PROVE accepting'[NState + n + k - 1] = UNION {accepting[p] : p \in new[k]}
  <2>1. NState + n + k - 1 \in added /\ (NState + n + k - 1) - base + 1 = k
    BY <1>4, <1>6, <1>7
  <2> QED BY <1>3, <2>1
<1>17. [k \in 1..N |-> <<base + k - 1, new[k]>>] = [k \in 1..N |-> <<NState + n + k - 1, new[k]>>]
  BY <1>15
<1> HIDE DEF added, own
<1>18. /\ DOMAIN transitions' = DOMAIN transitions \cup NewNodes(n + N)
       /\ DOMAIN accepting' = DOMAIN accepting \cup NewNodes(n + N)
  BY <1>3, <1>5, <1>9
<1>19. /\ transitions'[node] = own
       /\ \A q \in DOMAIN transitions \ {node} : transitions'[q] = transitions[q]
       /\ \A q \in NewNodes(n + N) \ NewNodes(n) : transitions'[q] = {}
       /\ \A q \in DOMAIN accepting : accepting'[q] = accepting[q]
  BY <1>3, <1>9, <1>10, <1>11
<1>20. own = UNION {{<<c, mapping'[T]>> : T \in Parts(S, c)} : c \in Symbol}
  BY <1>3 DEF own
<1>21. Expanded(S, n, new)
  BY <1>2, <1>3, <1>13, <1>14, <1>15, <1>16, <1>17, <1>18, <1>19, <1>20 DEF Expanded, N
<1> QED BY <1>1, <1>21 DEF new

(* Where the new states are, and the sets they stand for. *)
Grown(S, n, new, N) ==
  /\ N \in Nat /\ n + N \in Nat
  /\ NewNodes(n) \subseteq NewNodes(n + N)
  /\ NewNodes(n + N) \cap Kept = {} /\ Live \subseteq Kept /\ Initial \in Live
  /\ \A T \in NewPart(S) : \E k \in 1..N : new[k] = T /\ mapping'[T] = NState + n + k - 1
  /\ \A k \in 1..N : /\ new[k] \in NewPart(S) /\ mapping'[new[k]] = NState + n + k - 1
                     /\ NState + n + k - 1 \in NewNodes(n + N) \ NewNodes(n)
  /\ \A i, j \in 1..N : NState + n + i - 1 = NState + n + j - 1 => i = j
  /\ \A q \in NewNodes(n + N) \ NewNodes(n) : \E k \in 1..N : q = NState + n + k - 1

LEMMA ExpandedFacts ==
  ASSUME ReductionAssumption, PairsInv, Initial \notin to_del, NEW n \in Nat, Structure(n),
         NEW S \in DOMAIN mapping, NEW new, new = NewSets(S), Expanded(S, n, new), NEW N, N = Len(new)
  PROVE  Grown(S, n, new, N)
<1>1. NState \in Nat /\ Kept \subseteq NFA /\ NFA = 0..NState-1
  BY NfaFacts, ParsedFacts, KeptFacts DEF PairsInv, NFA
<1>2. /\ new \in Seq(NewPart(S)) /\ N \in Nat
      /\ \A T \in NewPart(S) : \E k \in 1..N : new[k] = T
  BY NewSetsFacts
<1>3. \A k \in 1..N : new[k] \in NewPart(S)
  BY <1>2
<1>4. \A k \in 1..N : mapping'[new[k]] = NState + n + k - 1
  BY DEF Expanded
<1>5. NewNodes(n) \subseteq NewNodes(n + N) /\ NewNodes(n + N) \cap Kept = {} /\ n + N \in Nat
  <2>1. NewNodes(n + N) \cap NFA = {}
    BY <1>1, <1>2 DEF NewNodes
  <2>2. NewNodes(n) \subseteq NewNodes(n + N)
    BY <1>1, <1>2 DEF NewNodes
  <2>3. n + N \in Nat
    BY <1>2
  <2> QED BY <1>1, <2>1, <2>2, <2>3
<1>6. ASSUME NEW k \in 1..N PROVE NState + n + k - 1 \in NewNodes(n + N) \ NewNodes(n)
  BY <1>1, <1>2 DEF NewNodes
<1>7. ASSUME NEW q \in NewNodes(n + N) \ NewNodes(n) PROVE \E k \in 1..N : q = NState + n + k - 1
  <2>1. q - NState - n + 1 \in 1..N /\ q = NState + n + (q - NState - n + 1) - 1
    BY <1>1, <1>2 DEF NewNodes
  <2> QED BY <2>1
<1>8. \A i, j \in 1..N : NState + n + i - 1 = NState + n + j - 1 => i = j
  BY <1>1, <1>2
<1>9. Live \subseteq Kept /\ Initial \in Live
  BY DEF Live, PairsInv
<1>10. \A T \in NewPart(S) : \E k \in 1..N : new[k] = T /\ mapping'[T] = NState + n + k - 1
  BY <1>2, <1>4
<1> QED BY <1>2, <1>3, <1>4, <1>5, <1>6, <1>7, <1>8, <1>9, <1>10 DEF Grown

LEMMA ExpandStructure ==
  ASSUME ReductionAssumption, PairsInv, Initial \notin to_del, NEW n \in Nat, Structure(n),
         UNCHANGED <<parsed, pairs, to_del>>,
         NEW S \in DOMAIN mapping, NEW new, new = NewSets(S), Expanded(S, n, new)
  PROVE  Structure(n + Len(new))'
<1>0. PICK N : N = Len(new)
  OBVIOUS
<1>1. Grown(S, n, new, N)
  BY <1>0, ExpandedFacts
<1>2. Kept' = Kept /\ Live' = Live /\ \A q : RulesOf(q)' = RulesOf(q) /\ Row(q)' = Row(q)
  BY SameStates
<1>3. /\ DOMAIN mapping' = DOMAIN mapping \cup NewPart(S)
      /\ \A T \in DOMAIN mapping : mapping'[T] = mapping[T]
      /\ DOMAIN transitions' = DOMAIN transitions \cup NewNodes(n + N)
      /\ transitions'[mapping[S]] = UNION {{<<c, mapping'[T]>> : T \in Parts(S, c)} : c \in Symbol}
      /\ \A q \in DOMAIN transitions \ {mapping[S]} : transitions'[q] = transitions[q]
      /\ \A q \in NewNodes(n + N) \ NewNodes(n) : transitions'[q] = {}
      /\ DOMAIN accepting' = DOMAIN accepting \cup NewNodes(n + N)
      /\ \A q \in DOMAIN accepting : accepting'[q] = accepting[q]
  BY <1>0 DEF Expanded
<1>4. /\ DOMAIN transitions = Live \cup NewNodes(n) /\ DOMAIN accepting = Kept \cup NewNodes(n)
      /\ \A q \in DOMAIN transitions : transitions[q] \subseteq Symbol \X DOMAIN transitions
      /\ \A q \in Live \ {Initial} : transitions[q] = Row(q)
      /\ \A q \in Kept : accepting[q] = RulesOf(q)
      /\ {Initial} \in DOMAIN mapping /\ mapping[{Initial}] = Initial /\ {} \notin DOMAIN mapping
      /\ \A T \in DOMAIN mapping : mapping[T] \in {Initial} \cup NewNodes(n)
      /\ \A T, U \in DOMAIN mapping : mapping[T] = mapping[U] => T = U
  BY DEF Structure
<1>5. DOMAIN transitions' = Live \cup NewNodes(n + N) /\ DOMAIN accepting' = Kept \cup NewNodes(n + N)
  BY <1>1, <1>3, <1>4 DEF Grown
<1>6. \A T \in DOMAIN mapping' : mapping'[T] \in {Initial} \cup NewNodes(n + N)
  <2>1. \A T \in DOMAIN mapping : mapping'[T] \in {Initial} \cup NewNodes(n + N)
    BY <1>1, <1>3, <1>4 DEF Grown
  <2>2. \A T \in NewPart(S) : mapping'[T] \in NewNodes(n + N)
    BY <1>1 DEF Grown
  <2> QED BY <1>3, <2>1, <2>2
<1>7. ASSUME NEW T \in DOMAIN mapping', NEW U \in DOMAIN mapping', mapping'[T] = mapping'[U] PROVE T = U
  <2>1. Initial \notin NewNodes(n + N)
    BY <1>1 DEF Grown
  <2>2. \A V \in DOMAIN mapping : mapping'[V] \notin NewNodes(n + N) \ NewNodes(n)
    BY <1>3, <1>4, <2>1
  <2>3. \A V \in NewPart(S) : mapping'[V] \in NewNodes(n + N) \ NewNodes(n)
    BY <1>1 DEF Grown
  <2>4. CASE T \in DOMAIN mapping /\ U \in DOMAIN mapping
    BY <1>3, <1>4, <1>7, <2>4
  <2>5. CASE T \in NewPart(S) /\ U \in NewPart(S)
    <3>1. PICK i \in 1..N : new[i] = T /\ mapping'[T] = NState + n + i - 1
      BY <1>1, <2>5 DEF Grown
    <3>2. PICK j \in 1..N : new[j] = U /\ mapping'[U] = NState + n + j - 1
      BY <1>1, <2>5 DEF Grown
    <3>3. NState + n + i - 1 = NState + n + j - 1
      BY <1>7, <3>1, <3>2
    <3>4. i = j
      BY <1>1, <3>3 DEF Grown
    <3> QED BY <3>1, <3>2, <3>4
  <2> QED BY <1>3, <1>7, <2>2, <2>3, <2>4, <2>5
<1>8. ASSUME NEW q \in DOMAIN transitions' PROVE transitions'[q] \subseteq Symbol \X DOMAIN transitions'
  <2>1. CASE q = mapping[S]
    <3>1. \A c \in Symbol : \A T \in Parts(S, c) : mapping'[T] \in DOMAIN transitions'
      <4>1. ASSUME NEW c \in Symbol, NEW T \in Parts(S, c) PROVE T \in DOMAIN mapping'
        <5>1. T \in Looked(S) /\ T # {}
          BY PartsFacts DEF Parts
        <5> QED BY <1>3, <5>1 DEF NewPart
      <4> QED BY <1>1, <1>5, <1>6, <4>1 DEF Grown
    <3> QED BY <1>3, <2>1, <3>1
  <2>2. CASE q \in DOMAIN transitions \ {mapping[S]}
    <3>1. transitions[q] \subseteq Symbol \X DOMAIN transitions /\ DOMAIN transitions \subseteq DOMAIN transitions'
      BY <1>3, <1>4, <2>2
    <3> QED BY <1>3, <2>2, <3>1
  <2>3. CASE q \in NewNodes(n + N) \ NewNodes(n)
    BY <1>3, <2>3
  <2> QED BY <1>4, <1>5, <2>1, <2>2, <2>3
<1>9. \A q \in Live \ {Initial} : transitions'[q] = Row(q)
  <2>1. mapping[S] \notin Live \ {Initial}
    BY <1>1, <1>4 DEF Grown
  <2> QED BY <1>3, <1>4, <2>1
<1>10. \A q \in Kept : accepting'[q] = RulesOf(q)
  BY <1>3, <1>4
<1>11. {Initial} \in DOMAIN mapping' /\ mapping'[{Initial}] = Initial /\ {} \notin DOMAIN mapping'
  BY <1>3, <1>4 DEF NewPart
<1>12. NewNodes(n + N)' = NewNodes(n + N)
  BY DEF NewNodes
<1>13. Structure(n + N)'
  BY <1>2, <1>5, <1>6, <1>7, <1>8, <1>9, <1>10, <1>11, <1>12 DEF Structure
<1> QED BY <1>0, <1>13

LEMMA ExpandQueue ==
  ASSUME ReductionAssumption, PairsInv, Initial \notin to_del, NEW n \in Nat, Structure(n), InitialFirst,
         queue \in Seq({Entry(T) : T \in DOMAIN mapping}), queue # <<>>, UNCHANGED <<parsed, pairs, to_del>>,
         NEW S \in DOMAIN mapping, Head(queue) = Entry(S), NEW new, new = NewSets(S), Expanded(S, n, new)
  PROVE  /\ queue' \in Seq({Entry(T)' : T \in DOMAIN mapping'})
         /\ InitialFirst'
         /\ \A T \in DOMAIN mapping : Queued(T) /\ T # S => Queued(T)'
         /\ \A T \in NewPart(S) : Queued(T)'
<1>0. PICK N : N = Len(new)
  OBVIOUS
<1> DEFINE E == {Entry(T) : T \in DOMAIN mapping}
           F == {Entry(T)' : T \in DOMAIN mapping'}
           added == [k \in 1..N |-> <<NState + n + k - 1, new[k]>>]
<1>1. Grown(S, n, new, N)
  BY <1>0, ExpandedFacts
<1>2. /\ DOMAIN mapping' = DOMAIN mapping \cup NewPart(S)
      /\ \A T \in DOMAIN mapping : mapping'[T] = mapping[T]
      /\ queue' = Tail(queue) \o added
      /\ this_tx' = IF mapping[S] = Initial THEN {r[2] : r \in transitions[mapping[S]]} ELSE this_tx
  BY <1>0 DEF Expanded
<1>3. \A T : Entry(T) = <<mapping[T], T>> /\ Entry(T)' = <<mapping'[T], T>>
  BY DEF Entry
<1>4. \A T \in DOMAIN mapping : Entry(T)' = Entry(T)
  BY <1>2, <1>3
<1>5. E \subseteq F
  BY <1>2, <1>4
<1>6. \A k \in 1..N : added[k] = Entry(new[k])' /\ added[k] \in F /\ added[k][1] # Initial
  <2> SUFFICES ASSUME NEW k \in 1..N PROVE added[k] = Entry(new[k])' /\ added[k] \in F /\ added[k][1] # Initial
    OBVIOUS
  <2>1. added[k] = <<NState + n + k - 1, new[k]>>
    OBVIOUS
  <2>2. new[k] \in NewPart(S) /\ mapping'[new[k]] = NState + n + k - 1 /\ NState + n + k - 1 \in NewNodes(n + N)
    BY <1>1 DEF Grown
  <2>3. added[k] = Entry(new[k])'
    BY <1>3, <2>1, <2>2
  <2>4. new[k] \in DOMAIN mapping'
    BY <1>2, <2>2
  <2>5. NState + n + k - 1 # Initial
    BY <1>1, <2>2 DEF Grown
  <2>6. Entry(new[k])' \in F
    BY <2>4
  <2> HIDE DEF added, F, E
  <2> QED BY <2>1, <2>3, <2>5, <2>6
<1>7. queue \in Seq(E) /\ queue # <<>> /\ added = [k \in 1..N |-> added[k]] /\ DOMAIN added = 1..N
  OBVIOUS
<1>8. queue[1] = Entry(S) /\ Len(queue) \in Nat /\ Len(queue) >= 1
  <2> HIDE DEF E
  <2> QED BY <1>7
<1> HIDE DEF added, E, F
<1>9. added \in Seq(F) /\ Len(added) = N
  <2>1. N \in Nat
    BY <1>1 DEF Grown
  <2>2. added \in [1..N -> F]
    BY <1>6, <1>7
  <2>3. added \in Seq(F)
    BY <2>1, <2>2
  <2>4. DOMAIN added = 1..Len(added) /\ Len(added) \in Nat
    BY <2>3, LenProperties
  <2> QED BY <1>7, <2>1, <2>3, <2>4
<1>10. /\ Tail(queue) \in Seq(E) /\ Len(Tail(queue)) = Len(queue) - 1
       /\ \A k \in 1..Len(queue) - 1 : Tail(queue)[k] = queue[k + 1]
  BY <1>7
<1>11. Tail(queue) \in Seq(F)
  BY <1>5, <1>10
<1>12. /\ queue' \in Seq(F) /\ Len(queue') = Len(queue) - 1 + N
       /\ \A k \in 1..Len(queue) - 1 : queue'[k] = queue[k + 1]
       /\ \A k \in 1..N : queue'[Len(queue) - 1 + k] = added[k]
  <2>1. queue' \in Seq(F) /\ Len(queue') = Len(queue) - 1 + N
    <3>1. \A a, b \in Seq(F) : a \o b \in Seq(F) /\ Len(a \o b) = Len(a) + Len(b)
      OBVIOUS
    <3> QED BY <1>2, <1>9, <1>10, <1>11, <3>1
  <2>2. \A k \in 1..Len(queue) - 1 : queue'[k] = Tail(queue)[k]
    BY <1>2, <1>9, <1>10, <1>11
  <2>3. \A k \in 1..N : queue'[Len(queue) - 1 + k] = added[k]
    BY <1>1, <1>2, <1>8, <1>9, <1>10, <1>11 DEF Grown
  <2> QED BY <1>10, <2>1, <2>2, <2>3
<1>13. \A k \in 1..Len(queue') : (\E i \in 2..Len(queue) : queue'[k] = queue[i]) \/ (\E i \in 1..N : queue'[k] = added[i])
  <2> SUFFICES ASSUME NEW k \in 1..Len(queue')
               PROVE  (\E i \in 2..Len(queue) : queue'[k] = queue[i]) \/ (\E i \in 1..N : queue'[k] = added[i])
    OBVIOUS
  <2>1. CASE k <= Len(queue) - 1
    <3>1. k + 1 \in 2..Len(queue) /\ queue'[k] = queue[k + 1]
      BY <1>8, <1>12, <2>1
    <3> QED BY <3>1
  <2>2. CASE k > Len(queue) - 1
    <3>1. k - (Len(queue) - 1) \in 1..N /\ Len(queue) - 1 + (k - (Len(queue) - 1)) = k
      BY <1>1, <1>8, <1>12, <2>2 DEF Grown
    <3> QED BY <1>12, <3>1
  <2> QED BY <1>8, <2>1, <2>2
<1>14. ASSUME NEW T \in DOMAIN mapping, Queued(T), T # S PROVE Queued(T)'
  <2>1. PICK i \in 1..Len(queue) : queue[i] = Entry(T)
    BY <1>14 DEF Queued
  <2>2. i # 1
    BY <1>3, <1>8, <1>14, <2>1
  <2>3. i - 1 \in 1..Len(queue) - 1 /\ (i - 1) + 1 = i
    BY <1>8, <2>1, <2>2
  <2>4. queue'[i - 1] = Entry(T)'
    BY <1>4, <1>12, <2>1, <2>3
  <2>5. i - 1 \in 1..Len(queue')
    BY <1>1, <1>8, <1>12, <2>3 DEF Grown
  <2> QED BY <2>4, <2>5 DEF Queued
<1>15. ASSUME NEW T \in NewPart(S) PROVE Queued(T)'
  <2>1. PICK k \in 1..N : new[k] = T
    BY <1>1 DEF Grown
  <2>2. queue'[Len(queue) - 1 + k] = Entry(T)'
    BY <1>6, <1>12, <2>1
  <2>3. Len(queue) - 1 + k \in 1..Len(queue')
    BY <1>1, <1>8, <1>12 DEF Grown
  <2> QED BY <2>2, <2>3 DEF Queued
<1>16. InitialFirst'
  <2>1. \A i \in 2..Len(queue) : queue[i][1] # Initial
    <3>1. CASE queue = <<<<Initial, {Initial}>>>>
      <4>1. Len(queue) = 1
        BY <3>1
      <4> QED BY <4>1
    <3>2. CASE \A k \in 1..Len(queue) : queue[k][1] # Initial
      BY <1>8, <3>2
    <3> QED BY <3>1, <3>2 DEF InitialFirst
  <2>2. \A k \in 1..Len(queue') : queue'[k][1] # Initial
    BY <1>6, <1>13, <2>1
  <2>3. this_tx' = {r[2] : r \in Row(Initial)}
    <3>1. queue[1][1] = mapping[S]
      BY <1>3, <1>8
    <3>2. CASE queue = <<<<Initial, {Initial}>>>> /\ transitions[Initial] = Row(Initial)
      <4>1. mapping[S] = Initial
        BY <3>1, <3>2
      <4> QED BY <1>2, <3>2, <4>1
    <3>3. CASE (\A k \in 1..Len(queue) : queue[k][1] # Initial) /\ this_tx = {r[2] : r \in Row(Initial)}
      <4>1. mapping[S] # Initial
        BY <1>8, <3>1, <3>3
      <4> QED BY <1>2, <3>3, <4>1
    <3> QED BY <3>2, <3>3 DEF InitialFirst
  <2>4. Row(Initial)' = Row(Initial)
    BY SameStates
  <2> QED BY <2>2, <2>3, <2>4 DEF InitialFirst
<1> QED BY <1>12, <1>14, <1>15, <1>16 DEF F

(* What the states of S lead to, if they are the initial one or in a cut.   *)
LEMMA ExpandTargets ==
  ASSUME ReductionAssumption, ReduceInv, NEW n \in Nat, Structure(n), queue # <<>>,
         NEW S \in DOMAIN mapping, Head(queue) = Entry(S), NEW K \in SUBSET Live, Cut(K)
  PROVE  /\ \A c \in Symbol : Targets(S, c) = RowTargets(S, c)
         /\ \A T \in NewPart(S) : T \subseteq K
<1>1. /\ PairsInv /\ Initial \notin to_del /\ InitialFirst
      /\ queue \in Seq({Entry(T) : T \in DOMAIN mapping})
      /\ S = {Initial} \/ S \subseteq K
  BY DEF ReduceInv, WithinCut
<1>2. /\ DOMAIN transitions = Live \cup NewNodes(n)
      /\ \A q \in Live \ {Initial} : transitions[q] = Row(q)
      /\ {Initial} \in DOMAIN mapping /\ mapping[{Initial}] = Initial
  BY DEF Structure
<1>3. Initial \in Live
  BY <1>1 DEF PairsInv, Live
<1>4. ASSUME NEW q \in S PROVE q \in Live /\ transitions[q] = Row(q)
  <2>1. CASE S = {Initial}
    <3>1. queue[1][1] = Initial
      BY <1>2, <2>1 DEF Entry
    <3>2. 1 \in 1..Len(queue)
      <4> DEFINE E == {Entry(T) : T \in DOMAIN mapping}
      <4>1. queue \in Seq(E)
        BY <1>1
      <4> HIDE DEF E
      <4> QED BY <4>1
    <3>3. transitions[Initial] = Row(Initial)
      BY <1>1, <3>1, <3>2 DEF InitialFirst
    <3> QED BY <1>3, <2>1, <3>3
  <2>2. CASE S \subseteq K
    BY <1>2, <2>2 DEF Cut
  <2> QED BY <1>1, <2>1, <2>2
<1>5. \A q : Row(q) \subseteq Symbol \X Live
  BY <1>1, RowFacts
<1>6. ASSUME NEW c \in Symbol
      PROVE  /\ Targets(S, c) = RowTargets(S, c)
             /\ Targets(S, c) \subseteq IF S = {Initial} THEN K \cup {Initial} ELSE K
  <2>1. Targets(S, c) = {t \in Live \cup NewNodes(n) : \E q \in S : <<c, t>> \in Row(q)}
    BY <1>2, <1>4 DEF Targets
  <2>2. \A q, t : <<c, t>> \in Row(q) => t \in Live
    BY <1>5
  <2>3. Targets(S, c) = RowTargets(S, c)
    BY <2>1, <2>2 DEF RowTargets
  <2>4. ASSUME NEW t \in Targets(S, c) PROVE t \in IF S = {Initial} THEN K \cup {Initial} ELSE K
    <3>1. PICK q \in S : <<c, t>> \in Row(q)
      BY <2>1
    <3>2. \A r \in Row(q) : r[2] \in IF S = {Initial} THEN K \cup {Initial} ELSE K
      BY <1>1 DEF Cut
    <3>3. <<c, t>>[2] = t
      OBVIOUS
    <3> QED BY <3>1, <3>2, <3>3
  <2> QED BY <2>3, <2>4
<1>7. ASSUME NEW T \in NewPart(S) PROVE T \subseteq K
  <2>1. T \in Looked(S) /\ T # {} /\ T \notin DOMAIN mapping
    BY DEF NewPart
  <2>2. PICK c \in Symbol : T \subseteq Targets(S, c)
    BY <2>1, PartsFacts
  <2>3. T \subseteq S \/ T \cap S = {}
    BY <2>1, PartsFacts
  <2>4. CASE S = {Initial}
    <3>1. T # {Initial}
      BY <1>2, <2>1
    <3>2. T \cap {Initial} = {}
      BY <2>1, <2>3, <2>4, <3>1
    <3> QED BY <1>6, <2>2, <2>4, <3>2
  <2>5. CASE S # {Initial}
    BY <1>6, <2>2, <2>5
  <2> QED BY <2>4, <2>5
<1> QED BY <1>6, <1>7

LEMMA ExpandCut ==
  ASSUME ReductionAssumption, ReduceInv, NEW n \in Nat, Structure(n), queue # <<>>,
         UNCHANGED <<parsed, pairs, to_del>>,
         NEW S \in DOMAIN mapping, Head(queue) = Entry(S), NEW new, new = NewSets(S), Expanded(S, n, new),
         NEW K \in SUBSET Live, Cut(K)
  PROVE  WithinCut(K)'
<1>0. PICK N : N = Len(new)
  OBVIOUS
<1>1. /\ PairsInv /\ Initial \notin to_del /\ InitialFirst
      /\ queue \in Seq({Entry(T) : T \in DOMAIN mapping})
      /\ \A T \in DOMAIN mapping : (T = {Initial} \/ T \subseteq K) /\ Accepts(T) /\ (Queued(T) \/ Done(T))
  BY DEF ReduceInv, WithinCut
<1>2. Grown(S, n, new, N)
  BY <1>0, <1>1, ExpandedFacts
<1>3. (\A q : RulesOf(q)' = RulesOf(q)) /\ \A T, c : RowTargets(T, c)' = RowTargets(T, c)
  BY SameStates
<1>4. /\ DOMAIN mapping' = DOMAIN mapping \cup NewPart(S)
      /\ \A T \in DOMAIN mapping : mapping'[T] = mapping[T]
      /\ transitions'[mapping[S]] = UNION {{<<c, mapping'[T]>> : T \in Parts(S, c)} : c \in Symbol}
      /\ \A q \in DOMAIN transitions \ {mapping[S]} : transitions'[q] = transitions[q]
      /\ \A q \in DOMAIN accepting : accepting'[q] = accepting[q]
      /\ \A k \in 1..N : accepting'[NState + n + k - 1] = UNION {accepting[p] : p \in new[k]}
  BY <1>0 DEF Expanded
<1>5. /\ DOMAIN transitions = Live \cup NewNodes(n) /\ DOMAIN accepting = Kept \cup NewNodes(n)
      /\ \A q \in DOMAIN transitions : transitions[q] \subseteq Symbol \X DOMAIN transitions
      /\ \A q \in Kept : accepting[q] = RulesOf(q)
      /\ \A T \in DOMAIN mapping : mapping[T] \in {Initial} \cup NewNodes(n)
      /\ \A T, U \in DOMAIN mapping : mapping[T] = mapping[U] => T = U
  BY DEF Structure
<1>6. \A T, U \in DOMAIN mapping' : mapping'[T] = mapping'[U] => T = U
  <2>1. Structure(n + Len(new))'
    BY <1>1, ExpandStructure
  <2> QED BY <2>1 DEF Structure
<1>7. /\ \A c \in Symbol : Targets(S, c) = RowTargets(S, c)
      /\ \A T \in NewPart(S) : T \subseteq K
  BY ExpandTargets
<1>8. /\ \A T \in DOMAIN mapping : Queued(T) /\ T # S => Queued(T)'
      /\ \A T \in NewPart(S) : Queued(T)'
  BY <1>1, ExpandQueue
<1>9. \A T \in DOMAIN mapping : mapping[T] \in DOMAIN transitions /\ mapping[T] \in DOMAIN accepting
  BY <1>2, <1>5 DEF Grown
<1>10. ASSUME NEW T \in NewPart(S) PROVE Accepts(T)'
  <2>1. PICK k \in 1..N : new[k] = T /\ mapping'[T] = NState + n + k - 1
    BY <1>2 DEF Grown
  <2>2. accepting'[mapping'[T]] = UNION {accepting[p] : p \in T}
    BY <1>4, <2>1
  <2>3. \A p \in T : accepting[p] = RulesOf(p)'
    BY <1>2, <1>3, <1>5, <1>7 DEF Grown
  <2>4. UNION {accepting[p] : p \in T} = UNION {RulesOf(p)' : p \in T}
    BY <2>3
  <2> QED BY <2>2, <2>4 DEF Accepts
<1>11. ASSUME NEW T \in DOMAIN mapping PROVE Accepts(T)'
  <2>1. accepting'[mapping'[T]] = accepting[mapping[T]]
    BY <1>4, <1>9
  <2>2. accepting[mapping[T]] = UNION {RulesOf(p) : p \in T}
    BY <1>1 DEF Accepts
  <2>3. UNION {RulesOf(p) : p \in T} = UNION {RulesOf(p)' : p \in T}
    BY <1>3
  <2> QED BY <2>1, <2>2, <2>3 DEF Accepts
<1>12. Done(S)'
  <2> SUFFICES ASSUME NEW c \in Symbol
               PROVE  /\ \A t : <<c, t>> \in transitions'[mapping'[S]] => \E T \in DOMAIN mapping' : t = mapping'[T]
                      /\ UNION {T \in DOMAIN mapping' : <<c, mapping'[T]>> \in transitions'[mapping'[S]]} = RowTargets(S, c)'
    BY DEF Done
  <2>1. Parts(S, c) \subseteq DOMAIN mapping'
    <3>1. Parts(S, c) \subseteq Looked(S) /\ {} \notin Parts(S, c)
      BY PartsFacts DEF Parts
    <3> QED BY <1>4, <3>1 DEF NewPart
  <2>2. \A t : <<c, t>> \in transitions'[mapping'[S]] <=> \E T \in Parts(S, c) : t = mapping'[T]
    BY <1>4
  <2>3. {T \in DOMAIN mapping' : <<c, mapping'[T]>> \in transitions'[mapping'[S]]} = Parts(S, c)
    BY <1>6, <2>1, <2>2
  <2>4. UNION Parts(S, c) = RowTargets(S, c)'
    BY <1>3, <1>7, PartsFacts
  <2> QED BY <2>1, <2>2, <2>3, <2>4
<1>13. ASSUME NEW T \in DOMAIN mapping, T # S, Done(T) PROVE Done(T)'
  <2> SUFFICES ASSUME NEW c \in Symbol
               PROVE  /\ \A t : <<c, t>> \in transitions'[mapping'[T]] => \E U \in DOMAIN mapping' : t = mapping'[U]
                      /\ UNION {U \in DOMAIN mapping' : <<c, mapping'[U]>> \in transitions'[mapping'[T]]} = RowTargets(T, c)'
    BY DEF Done
  <2>1. transitions'[mapping'[T]] = transitions[mapping[T]]
    <3>1. mapping[T] # mapping[S]
      BY <1>5, <1>13
    <3> QED BY <1>4, <1>9, <3>1
  <2>2. /\ \A t : <<c, t>> \in transitions[mapping[T]] => \E U \in DOMAIN mapping : t = mapping[U]
        /\ UNION {U \in DOMAIN mapping : <<c, mapping[U]>> \in transitions[mapping[T]]} = RowTargets(T, c)
    BY <1>13 DEF Done
  <2>3. ASSUME NEW U \in NewPart(S) PROVE <<c, mapping'[U]>> \notin transitions[mapping[T]]
    <3>1. PICK k \in 1..N : mapping'[U] = NState + n + k - 1 /\ NState + n + k - 1 \in NewNodes(n + N) \ NewNodes(n)
      BY <1>2 DEF Grown
    <3>2. mapping'[U] \notin DOMAIN transitions
      BY <1>2, <1>5, <3>1 DEF Grown
    <3>3. transitions[mapping[T]] \subseteq Symbol \X DOMAIN transitions
      BY <1>5, <1>9
    <3> QED BY <3>2, <3>3
  <2>4. {U \in DOMAIN mapping' : <<c, mapping'[U]>> \in transitions'[mapping'[T]]}
          = {U \in DOMAIN mapping : <<c, mapping[U]>> \in transitions[mapping[T]]}
    <3>1. \A U \in DOMAIN mapping' : <<c, mapping'[U]>> \in transitions'[mapping'[T]] =>
                                        U \in DOMAIN mapping /\ <<c, mapping[U]>> \in transitions[mapping[T]]
      BY <1>4, <2>1, <2>3
    <3>2. \A U \in DOMAIN mapping : <<c, mapping[U]>> \in transitions[mapping[T]] =>
                                       U \in DOMAIN mapping' /\ <<c, mapping'[U]>> \in transitions'[mapping'[T]]
      BY <1>4, <2>1
    <3> DEFINE L == {U \in DOMAIN mapping' : <<c, mapping'[U]>> \in transitions'[mapping'[T]]}
               R == {U \in DOMAIN mapping : <<c, mapping[U]>> \in transitions[mapping[T]]}
    <3>3. L \subseteq R
      BY <3>1, Zenon
    <3>4. R \subseteq L
      BY <3>2, Zenon
    <3> HIDE DEF L, R
    <3>5. L = R
      BY <3>3, <3>4
    <3> QED BY <3>5 DEF L, R
  <2>5. ASSUME NEW t, <<c, t>> \in transitions'[mapping'[T]] PROVE \E U \in DOMAIN mapping' : t = mapping'[U]
    <3>1. PICK U \in DOMAIN mapping : t = mapping[U]
      BY <2>1, <2>2, <2>5
    <3> QED BY <1>4, <3>1
  <2>6. UNION {U \in DOMAIN mapping' : <<c, mapping'[U]>> \in transitions'[mapping'[T]]} = RowTargets(T, c)'
    <3>1. RowTargets(T, c)' = RowTargets(T, c)
      BY <1>3
    <3> QED BY <2>2, <2>4, <3>1, Zenon
  <2> QED BY <2>5, <2>6
<1>14. ASSUME NEW T \in DOMAIN mapping'
       PROVE  (T = {Initial} \/ T \subseteq K) /\ Accepts(T)' /\ (Queued(T)' \/ Done(T)')
  <2>1. CASE T \in NewPart(S)
    BY <1>7, <1>8, <1>10, <2>1
  <2>2. CASE T \in DOMAIN mapping
    BY <1>1, <1>8, <1>11, <1>12, <1>13, <2>2
  <2> QED BY <1>4, <2>1, <2>2
<1> QED BY <1>14 DEF WithinCut

LEMMA ExpandStep ==
  ASSUME ReductionAssumption, stage = "reduce", ReduceInv, Expand, UNCHANGED <<parsed, activeVars>>
  PROVE  stage' = "reduce" /\ ReduceInv'
<1>1. PICK n \in Nat : Structure(n)
  BY DEF ReduceInv
<1>2. /\ PairsInv /\ Initial \notin to_del /\ InitialFirst
      /\ queue \in Seq({Entry(T) : T \in DOMAIN mapping})
  BY DEF ReduceInv
<1>3. UNCHANGED <<stage, parsed, pairs, to_del>> /\ queue # <<>>
  BY DEF Expand, duplicateVars
<1>4. PICK S \in DOMAIN mapping : Head(queue) = Entry(S) /\ Expanded(S, n, NewSets(S))
  BY <1>1, <1>2, ExpandForm
<1>5. PICK new : new = NewSets(S) /\ Expanded(S, n, new)
  BY <1>4
<1>6. Structure(n + Len(new))' /\ n + Len(new) \in Nat
  <2>1. Grown(S, n, new, Len(new))
    BY <1>1, <1>2, <1>5, ExpandedFacts
  <2> QED BY <1>1, <1>2, <1>3, <1>5, <2>1, ExpandStructure DEF Grown
<1>7. queue' \in Seq({Entry(T)' : T \in DOMAIN mapping'}) /\ InitialFirst'
  BY <1>1, <1>2, <1>3, <1>4, <1>5, ExpandQueue
<1>8. ASSUME NEW K \in SUBSET Live', Cut(K)' PROVE WithinCut(K)'
  <2>1. K \in SUBSET Live /\ Cut(K)
    BY <1>3, <1>8, SameStates
  <2> QED BY <1>1, <1>3, <1>4, <1>5, <2>1, ExpandCut
<1>9. PairsInv' /\ Initial \notin to_del'
  BY <1>2, <1>3, SameStates
<1> QED BY <1>3, <1>6, <1>7, <1>8, <1>9 DEF ReduceInv

(* The result: the active states of the parsed NFA are the closures of some *)
(* states that were kept, and the states that stand for the sets active in  *)
(* the result are sets of what those were merged into.                     *)
Corresponds(rep, A, M) ==
  /\ Represented(rep)
  /\ old_active = Closures(A)
  /\ new_active = {mapping[S] : S \in M}
  /\ UNION M = {rep[q] : q \in A}

ScanInv ==
  /\ PairsInv
  /\ \A S \in DOMAIN mapping : mapping[S] \in DOMAIN transitions /\ Accepts(S) /\ Done(S)
  /\ \E rep : \E A \in SUBSET Kept, M \in SUBSET DOMAIN mapping : Corresponds(rep, A, M)

(* What is deleted is cut off: it is what the initial state led to, and     *)
(* nothing that the new states lead to.                                    *)
LEMMA OldStatesAreCut ==
  ASSUME ReductionAssumption, ReduceInv, queue = <<>>, Initial \notin OldStates
  PROVE  OldStates \subseteq Live /\ Cut(OldStates)
<1>1. PICK n \in Nat : Structure(n)
  BY DEF ReduceInv
<1>2. PairsInv /\ Initial \notin to_del
  BY DEF ReduceInv
<1>3. this_tx = {r[2] : r \in Row(Initial)}
  <2>1. queue # <<<<Initial, {Initial}>>>>
    <3>1. Len(<<<<Initial, {Initial}>>>>) = 1 /\ Len(<<>>) = 0
      OBVIOUS
    <3> QED BY <3>1
  <2> QED BY <2>1 DEF ReduceInv, InitialFirst
<1>4. /\ DOMAIN transitions = Live \cup NewNodes(n)
      /\ \A q \in DOMAIN transitions : transitions[q] \subseteq Symbol \X DOMAIN transitions
      /\ \A q \in Live \ {Initial} : transitions[q] = Row(q)
  BY <1>1 DEF Structure
<1>5. IsFiniteSet(DOMAIN transitions)
  <2>1. IsFiniteSet(Live)
    BY <1>2, ParsedFacts, KeptFacts, FS_Subset DEF PairsInv, Live
  <2>2. IsFiniteSet(NewNodes(n))
    <3>1. NState \in Int /\ NState + n - 1 \in Int
      BY <1>1, NfaFacts
    <3>2. IsFiniteSet(NState..NState + n - 1)
      BY <3>1, FS_Interval
    <3> QED BY <3>2 DEF NewNodes
  <2>3. IsFiniteSet(Live \cup NewNodes(n))
    BY <2>1, <2>2, FS_Union
  <2> QED BY <1>4, <2>3
<1>6. \A q : Row(q) \subseteq Symbol \X Live
  BY <1>2, RowFacts
<1> DEFINE U == DOMAIN transitions
           from == this_tx \ {Initial}
<1>7. from \in SUBSET U /\ from \subseteq Live \ {Initial}
  BY <1>3, <1>4, <1>6
<1>8. DOMAIN StepOf = U /\ \A q \in U : StepOf[q] = {x[2] : x \in transitions[q]} /\ StepOf[q] \subseteq U
  BY <1>4 DEF StepOf
<1>9. /\ from \subseteq OldStates /\ OldStates \subseteq U
      /\ \A q \in OldStates : StepOf[q] \subseteq OldStates
      /\ \A A \in SUBSET U : from \subseteq A /\ (\A q \in A : StepOf[q] \subseteq A) => OldStates \subseteq A
  <2>1. OldStates = Reached(from, StepOf)
    BY DEF OldStates
  <2>2. DOMAIN StepOf = U /\ \A q \in U : StepOf[q] \subseteq U
    BY <1>8
  <2> HIDE DEF U, from
  <2>3. /\ from \subseteq Reached(from, StepOf) /\ Reached(from, StepOf) \subseteq U
        /\ \A q \in Reached(from, StepOf) : StepOf[q] \subseteq Reached(from, StepOf)
        /\ \A A \in SUBSET U : from \subseteq A /\ (\A q \in A : StepOf[q] \subseteq A) => Reached(from, StepOf) \subseteq A
    <3>1. IsFiniteSet(U) /\ from \in SUBSET U
      BY <1>5, <1>7 DEF U
    <3> QED BY <2>2, <3>1, ReachedFacts
  <2> QED BY <2>1, <2>3
<1>10. OldStates \subseteq Live \ {Initial}
  <2> DEFINE A == OldStates \cap (Live \ {Initial})
  <2>1. A \in SUBSET U /\ from \subseteq A
    BY <1>7, <1>9
  <2>2. ASSUME NEW q \in A PROVE StepOf[q] \subseteq A
    <3>1. StepOf[q] \subseteq OldStates /\ q \in U /\ transitions[q] = Row(q)
      BY <1>4, <1>9
    <3>2. StepOf[q] \subseteq Live
      BY <1>6, <1>8, <3>1
    <3> QED BY <3>1, <3>2
  <2>3. OldStates \subseteq A
    <3> HIDE DEF A, U, from
    <3> QED BY <1>9, <2>1, <2>2
  <2> QED BY <2>3
<1>11. ASSUME NEW q \in OldStates, NEW r \in Row(q) PROVE r[2] \in OldStates
  <2>1. q \in U /\ transitions[q] = Row(q)
    BY <1>4, <1>9, <1>10
  <2>2. r[2] \in StepOf[q]
    BY <1>8, <2>1
  <2> QED BY <1>9, <2>2
<1>12. \A r \in Row(Initial) : r[2] \in OldStates \cup {Initial}
  BY <1>3, <1>9
<1> QED BY <1>10, <1>11, <1>12 DEF Cut

LEMMA DeleteOldStep ==
  ASSUME ReductionAssumption, ReduceInv, AtStart, DeleteOld, UNCHANGED <<parsed, activeVars>>
  PROVE  stage' = "undefined" \/ (stage' = "scan" /\ ScanInv')
<1>1. CASE Initial \in OldStates
  BY <1>1 DEF DeleteOld
<1>2. CASE Initial \notin OldStates
  <2>1. /\ queue = <<>> /\ stage' = "scan"
        /\ transitions' = [q \in DOMAIN transitions \ OldStates |-> transitions[q]]
        /\ accepting' = [q \in DOMAIN transitions \ OldStates |-> accepting[q]]
        /\ UNCHANGED <<parsed, pairs, to_del, mapping, old_active, new_active>>
    BY <1>2 DEF DeleteOld, duplicateVars, activeVars
  <2>2. PICK n \in Nat : Structure(n)
    BY DEF ReduceInv
  <2>3. PairsInv /\ Initial \notin to_del
    BY DEF ReduceInv
  <2>4. OldStates \subseteq Live /\ Cut(OldStates)
    BY <1>2, <2>1, OldStatesAreCut
  <2>5. \A S \in DOMAIN mapping : Accepts(S) /\ Done(S)
    <3>1. \A S : ~Queued(S)
      BY <2>1 DEF Queued
    <3> QED BY <2>4, <3>1 DEF ReduceInv, WithinCut
  <2>6. \A S \in DOMAIN mapping : mapping[S] \in DOMAIN transitions \ OldStates
    <3>1. Initial \in Live
      BY <2>3 DEF Live, PairsInv
    <3>2. NewNodes(n) \cap Live = {}
      <4>1. Live \subseteq NFA /\ NFA = 0..NState-1 /\ NState \in Nat
        BY <2>3, NfaFacts, ParsedFacts, KeptFacts DEF PairsInv, Live, NFA
      <4>2. NewNodes(n) \cap NFA = {}
        BY <2>2, <4>1 DEF NewNodes
      <4> QED BY <4>1, <4>2
    <3>3. DOMAIN transitions = Live \cup NewNodes(n) /\ \A S \in DOMAIN mapping : mapping[S] \in {Initial} \cup NewNodes(n)
      BY <2>2 DEF Structure
    <3> QED BY <1>2, <2>4, <3>1, <3>2, <3>3
  <2>7. \A S \in DOMAIN mapping : transitions'[mapping[S]] = transitions[mapping[S]] /\ accepting'[mapping[S]] = accepting[mapping[S]]
    BY <2>1, <2>6
  <2>8. /\ Kept' = Kept /\ (\A q : RulesOf(q)' = RulesOf(q) /\ Row(q)' = Row(q))
        /\ (\A S, c : RowTargets(S, c)' = RowTargets(S, c)) /\ PairsInv'
    BY <2>1, <2>3, SameStates
  <2>9. ASSUME NEW S \in DOMAIN mapping PROVE Accepts(S)' /\ Done(S)'
    <3>1. Accepts(S)'
      <4>1. accepting'[mapping'[S]] = UNION {RulesOf(q) : q \in S}
        BY <2>1, <2>5, <2>7 DEF Accepts
      <4>2. UNION {RulesOf(q) : q \in S} = UNION {RulesOf(q)' : q \in S}
        BY <2>8
      <4> QED BY <4>1, <4>2 DEF Accepts
    <3>2. Done(S)'
      <4>1. mapping' = mapping /\ transitions'[mapping[S]] = transitions[mapping[S]] /\ \A c : RowTargets(S, c)' = RowTargets(S, c)
        BY <2>1, <2>7, <2>8
      <4>2. Done(S)
        BY <2>5
      <4> QED BY <4>1, <4>2 DEF Done
    <3> QED BY <3>1, <3>2
  <2>10. PICK rep : Represented(rep)
    BY <2>3 DEF PairsInv
  <2>11. Represented(rep)'
    BY <2>1, <2>8, <2>10 DEF Represented
  <2>12. Initial \in Kept /\ rep[Initial] = Initial
    BY <2>3, <2>10 DEF PairsInv, Represented
  <2>13. Corresponds(rep, {Initial}, {{Initial}})'
    <3>1. old_active' = epsilon_closure(Initial) /\ new_active' = {Initial}
      BY <2>1 DEF AtStart
    <3>2. Closures({Initial})' = epsilon_closure(Initial)
      <4>1. \A q : epsilon_closure(q)' = epsilon_closure(q)
        BY <2>1 DEF epsilon_closure
      <4> QED BY <4>1 DEF Closures
    <3>3. mapping'[{Initial}] = Initial
      BY <2>1, <2>2 DEF Structure
    <3>4. {mapping'[S] : S \in {{Initial}}} = {Initial} /\ UNION {{Initial}} = {rep[q] : q \in {Initial}}
      BY <2>12, <3>3
    <3> QED BY <2>11, <3>1, <3>2, <3>4 DEF Corresponds
  <2>14. {Initial} \in SUBSET Kept' /\ {{Initial}} \in SUBSET DOMAIN mapping'
    BY <2>1, <2>2, <2>8, <2>12 DEF Structure
  <2>15. DOMAIN transitions' = DOMAIN transitions \ OldStates
    BY <2>1
  <2>16. ScanInv'
    BY <2>1, <2>6, <2>8, <2>9, <2>13, <2>14, <2>15 DEF ScanInv
  <2> QED BY <2>1, <2>16
<1> QED BY <1>1, <1>2

(* A character of a trace. *)
LEMMA ScanStep ==
  ASSUME ReductionAssumption, ScanInv, NEW c \in Symbol, Scan(c)
  PROVE  stage' = "scan" /\ ScanInv'
<1>1. PICK rep : \E A \in SUBSET Kept, M \in SUBSET DOMAIN mapping : Corresponds(rep, A, M)
  BY DEF ScanInv
<1>2. PICK A \in SUBSET Kept, M \in SUBSET DOMAIN mapping : Corresponds(rep, A, M)
  BY <1>1
<1>3. /\ PairsInv /\ ParsedNfa
      /\ \A S \in DOMAIN mapping : mapping[S] \in DOMAIN transitions /\ Accepts(S) /\ Done(S)
  BY ParsedFacts DEF ScanInv, PairsInv
<1>4. /\ stage = "scan" /\ stage' = "scan"
      /\ UNCHANGED <<parsed, accepting, pairs, to_del, transitions, mapping>>
      /\ old_active' = UNION {epsilon_closure(t) : t \in UNION {parsed.transitions[<<q, c>>] : q \in old_active}}
      /\ new_active' = Targets(new_active, c)
  BY DEF Scan, duplicateVars, reduceVars
<1>5. /\ Kept' = Kept /\ (\A q : RulesOf(q)' = RulesOf(q) /\ Row(q)' = Row(q))
      /\ (\A S, e : RowTargets(S, e)' = RowTargets(S, e)) /\ PairsInv'
  BY <1>3, <1>4, SameStates
<1> DEFINE B == LabeledTargets(A, c)
           L == {T \in DOMAIN mapping : \E S \in M : <<c, mapping[T]>> \in transitions[mapping[S]]}
<1>6. B \in SUBSET Kept /\ old_active' = Closures(B)
  <2>1. old_active = Closures(A)
    BY <1>2 DEF Corresponds
  <2>2. B \in SUBSET Kept /\ UNION {parsed.transitions[<<q, c>>] : q \in Closures(A)} = B
    BY <1>3, EpsilonFree
  <2>3. UNION {parsed.transitions[<<q, c>>] : q \in old_active} = B
    BY <2>1, <2>2
  <2> HIDE DEF B
  <2> QED BY <1>4, <2>2, <2>3 DEF Closures
<1>7. new_active' = {mapping[T] : T \in L}
  <2>1. new_active = {mapping[S] : S \in M}
    BY <1>2 DEF Corresponds
  <2>2. ASSUME NEW t \in Targets(new_active, c) PROVE t \in {mapping[T] : T \in L}
    <3>1. PICK S \in M : <<c, t>> \in transitions[mapping[S]]
      BY <2>1 DEF Targets
    <3>2. PICK T \in DOMAIN mapping : t = mapping[T]
      BY <1>3, <3>1 DEF Done
    <3> QED BY <3>1, <3>2
  <2>3. ASSUME NEW T \in L PROVE mapping[T] \in Targets(new_active, c)
    <3>1. PICK S \in M : <<c, mapping[T]>> \in transitions[mapping[S]]
      OBVIOUS
    <3>2. mapping[S] \in new_active /\ mapping[T] \in DOMAIN transitions
      BY <1>3, <2>1
    <3> QED BY <3>1, <3>2 DEF Targets
  <2> HIDE DEF L
  <2> QED BY <1>4, <2>2, <2>3
<1>8. UNION L = {rep[q] : q \in B}
  <2>1. \A S \in M : UNION {T \in DOMAIN mapping : <<c, mapping[T]>> \in transitions[mapping[S]]} = RowTargets(S, c)
    BY <1>3 DEF Done
  <2>2. UNION M = {rep[q] : q \in A} /\ Represented(rep)
    BY <1>2 DEF Corresponds
  <2>3. ASSUME NEW t \in UNION L PROVE t \in {rep[q] : q \in B}
    <3>1. PICK T \in DOMAIN mapping, S \in M : t \in T /\ <<c, mapping[T]>> \in transitions[mapping[S]]
      OBVIOUS
    <3>2. t \in RowTargets(S, c)
      BY <2>1, <3>1
    <3>3. PICK r \in S : <<c, t>> \in Row(r)
      BY <3>2 DEF RowTargets
    <3>4. PICK a \in A : r = rep[a]
      BY <2>2, <3>3
    <3>5. <<c, t>> \in Row(a)
      BY <2>2, <3>3, <3>4 DEF Represented
    <3>6. PICK p \in PairsOf(a) : p[2] = c /\ pairs[p] = t
      BY <3>5 DEF Row
    <3>7. p \in Labeled /\ p[1] = a /\ pairs[p] = rep[p[3]]
      BY <1>3, <2>2, <3>6 DEF PairsOf, PairsInv, Represented
    <3>8. p[3] \in B
      BY <3>6, <3>7 DEF LabeledTargets
    <3> QED BY <3>6, <3>7, <3>8
  <2>4. ASSUME NEW q \in B PROVE rep[q] \in UNION L
    <3>1. PICK x \in Labeled : x[1] \in A /\ x[2] = c /\ x[3] = q
      BY DEF LabeledTargets
    <3>2. x \in DOMAIN pairs /\ x \in PairsOf(x[1]) /\ pairs[x] = rep[q]
      BY <1>3, <2>2, <3>1 DEF PairsInv, PairsOf, Represented
    <3>3. <<c, rep[q]>> \in Row(x[1])
      BY <3>1, <3>2 DEF Row
    <3>4. <<c, rep[q]>> \in Row(rep[x[1]])
      BY <2>2, <3>1, <3>3 DEF Represented
    <3>5. PICK S \in M : rep[x[1]] \in S
      BY <2>2, <3>1
    <3>6. rep[q] \in Live
      BY <1>3, <3>3, RowFacts
    <3>7. rep[q] \in RowTargets(S, c)
      BY <3>4, <3>5, <3>6 DEF RowTargets
    <3>8. PICK T \in DOMAIN mapping : <<c, mapping[T]>> \in transitions[mapping[S]] /\ rep[q] \in T
      BY <2>1, <3>7
    <3>9. T \in L
      BY <3>8
    <3> HIDE DEF L
    <3> QED BY <3>8, <3>9
  <2> HIDE DEF L, B
  <2> QED BY <2>3, <2>4
<1>9. L \in SUBSET DOMAIN mapping
  OBVIOUS
<1> HIDE DEF B, L
<1>10. PICK D, J : D = B /\ J = L
  OBVIOUS
<1>11. Corresponds(rep, D, J)'
  <2>1. Represented(rep)'
    BY <1>2, <1>4, <1>5 DEF Corresponds, Represented
  <2>2. Closures(D)' = Closures(D)
    <3>1. \A q : epsilon_closure(q)' = epsilon_closure(q)
      BY <1>4 DEF epsilon_closure
    <3> QED BY <3>1 DEF Closures
  <2>3. old_active' = Closures(D) /\ new_active' = {mapping'[T] : T \in J} /\ UNION J = {rep[q] : q \in D}
    BY <1>4, <1>6, <1>7, <1>8, <1>10
  <2> QED BY <2>1, <2>2, <2>3 DEF Corresponds
<1>12. D \in SUBSET Kept' /\ J \in SUBSET DOMAIN mapping'
  BY <1>4, <1>5, <1>6, <1>9, <1>10
<1>13. \A S \in DOMAIN mapping' : mapping'[S] \in DOMAIN transitions' /\ Accepts(S)' /\ Done(S)'
  <2>1. \A S : Accepts(S)' = Accepts(S)
    BY <1>4, <1>5 DEF Accepts
  <2>2. \A S : Done(S)' = Done(S)
    BY <1>4, <1>5 DEF Done
  <2> QED BY <1>3, <1>4, <2>1, <2>2
<1> QED BY <1>4, <1>5, <1>11, <1>12, <1>13 DEF ScanInv

(* The rules of both sets of active states are those of the states of A.    *)
LEMMA RulesCorrespond ==
  ASSUME ScanInv
  PROVE  UNION {parsed.accepting[q] : q \in old_active} = UNION {accepting[q] : q \in new_active}
<1>1. PICK rep : \E A \in SUBSET Kept, M \in SUBSET DOMAIN mapping : Corresponds(rep, A, M)
  BY DEF ScanInv
<1>2. PICK A \in SUBSET Kept, M \in SUBSET DOMAIN mapping : Corresponds(rep, A, M)
  BY <1>1
<1>3. UNION {parsed.accepting[q] : q \in old_active} = UNION {RulesOf(a) : a \in A}
  BY <1>2 DEF Corresponds, Closures, RulesOf
<1>4. UNION {accepting[q] : q \in new_active} = UNION {UNION {RulesOf(q) : q \in S} : S \in M}
  <2>1. new_active = {mapping[S] : S \in M}
    BY <1>2 DEF Corresponds
  <2>2. \A S \in M : accepting[mapping[S]] = UNION {RulesOf(q) : q \in S}
    BY DEF ScanInv, Accepts
  <2>3. {accepting[q] : q \in new_active} = {UNION {RulesOf(q) : q \in S} : S \in M}
    <3>1. ASSUME NEW q \in new_active PROVE \E S \in M : accepting[q] = UNION {RulesOf(p) : p \in S}
      <4>1. PICK S \in M : q = mapping[S]
        BY <2>1
      <4> QED BY <2>2, <4>1
    <3>2. ASSUME NEW S \in M PROVE \E q \in new_active : accepting[q] = UNION {RulesOf(p) : p \in S}
      <4>1. mapping[S] \in new_active
        BY <2>1
      <4> QED BY <2>2, <4>1
    <3> QED BY <3>1, <3>2, Zenon
  <2> QED BY <2>3
<1>5. UNION {UNION {RulesOf(q) : q \in S} : S \in M} = UNION {RulesOf(q) : q \in UNION M}
  OBVIOUS
<1>6. UNION {RulesOf(q) : q \in UNION M} = UNION {RulesOf(rep[a]) : a \in A}
  BY <1>2 DEF Corresponds
<1>7. UNION {RulesOf(rep[a]) : a \in A} = UNION {RulesOf(a) : a \in A}
  <2>1. \A a \in A : RulesOf(rep[a]) = RulesOf(a)
    BY <1>2 DEF Corresponds, Represented
  <2> QED BY <2>1
<1> QED BY <1>3, <1>4, <1>5, <1>6, <1>7

-----------------------------------------------------------------------------
(* What holds in every stage *)
NfaReductionInv ==
  /\ stage = "epsilon" => parsed \in Nfas /\ to_del = {} /\ rest = {} /\ this_tx = {} /\ AtStart
  /\ stage = "duplicates" => DuplicatesInv /\ AtStart
  /\ stage = "reduce" => ReduceInv /\ AtStart
  /\ stage = "scan" => ScanInv

LEMMA ReductionStep ==
  ASSUME ReductionAssumption, NfaReductionInv, stage = "duplicates" => MergesKeepTransitions,
         [ReductionNext]_reductionVars
  PROVE  NfaReductionInv'
<1> DEFINE Same == UNCHANGED <<parsed, activeVars>>
<1>1. ASSUME UNCHANGED <<parsed, activeVars>>, AtStart PROVE AtStart'
  BY <1>1 DEF AtStart, activeVars, epsilon_closure
<1>2. CASE RemoveEpsilon /\ Same
  <2>1. stage = "epsilon"
    BY <1>2 DEF RemoveEpsilon
  <2>2. stage' = "undefined" \/ (stage' = "duplicates" /\ DuplicatesInv')
    BY <1>2, <2>1, RemoveEpsilonStep DEF NfaReductionInv
  <2>3. AtStart'
    BY <1>1, <1>2, <2>1 DEF NfaReductionInv
  <2> QED BY <2>2, <2>3 DEF NfaReductionInv
<1>3. CASE NextSource /\ Same
  <2>1. stage = "duplicates"
    BY <1>3 DEF NextSource
  <2>2. DuplicatesInv /\ AtStart
    BY <2>1 DEF NfaReductionInv
  <2>3. stage' = "duplicates" /\ DuplicatesInv'
    BY <1>3, <2>2, NextSourceStep
  <2>4. AtStart'
    BY <1>1, <1>3, <2>2
  <2> QED BY <2>3, <2>4 DEF NfaReductionInv
<1>4. CASE ComparePair /\ Same
  <2>1. stage = "duplicates"
    BY <1>4 DEF ComparePair
  <2>2. DuplicatesInv /\ AtStart
    BY <2>1 DEF NfaReductionInv
  <2>3. stage' = "duplicates" /\ DuplicatesInv'
    BY <1>4, <2>1, <2>2, ComparePairStep
  <2>4. AtStart'
    BY <1>1, <1>4, <2>2
  <2> QED BY <2>3, <2>4 DEF NfaReductionInv
<1>5. CASE DeleteDuplicates /\ Same
  <2>1. stage = "duplicates"
    BY <1>5 DEF DeleteDuplicates
  <2>2. DuplicatesInv /\ AtStart
    BY <2>1 DEF NfaReductionInv
  <2>3. stage' = "undefined" \/ (stage' = "reduce" /\ ReduceInv')
    BY <1>5, <2>2, DeleteDuplicatesStep
  <2>4. AtStart'
    BY <1>1, <1>5, <2>2
  <2> QED BY <2>3, <2>4 DEF NfaReductionInv
<1>6. CASE Expand /\ Same
  <2>1. stage = "reduce"
    BY <1>6 DEF Expand
  <2>2. ReduceInv /\ AtStart
    BY <2>1 DEF NfaReductionInv
  <2>3. stage' = "reduce" /\ ReduceInv'
    BY <1>6, <2>1, <2>2, ExpandStep
  <2>4. AtStart'
    BY <1>1, <1>6, <2>2
  <2> QED BY <2>3, <2>4 DEF NfaReductionInv
<1>7. CASE DeleteOld /\ Same
  <2>1. stage = "reduce"
    BY <1>7 DEF DeleteOld
  <2>2. ReduceInv /\ AtStart
    BY <2>1 DEF NfaReductionInv
  <2>3. stage' = "undefined" \/ (stage' = "scan" /\ ScanInv')
    BY <1>7, <2>2, DeleteOldStep
  <2> QED BY <2>3 DEF NfaReductionInv
<1>8. CASE \E c \in Symbol : Scan(c)
  <2>1. PICK c \in Symbol : Scan(c)
    BY <1>8
  <2>2. stage = "scan"
    BY <2>1 DEF Scan
  <2>3. stage' = "scan" /\ ScanInv'
    BY <2>1, <2>2, ScanStep DEF NfaReductionInv
  <2> QED BY <2>3 DEF NfaReductionInv
<1>9. CASE UNCHANGED reductionVars
  <2>1. UNCHANGED <<parsed, stage, accepting, pairs, todo, source, rest, to_del, queue, transitions, mapping, this_tx,
                    old_active, new_active>>
    BY <1>9 DEF reductionVars, duplicateVars, reduceVars, activeVars
  <2>2. NfaReductionInv' = NfaReductionInv
    <3>1. /\ Kept' = Kept /\ Live' = Live /\ (\A q : RulesOf(q)' = RulesOf(q) /\ Row(q)' = Row(q))
          /\ (\A S, c : RowTargets(S, c)' = RowTargets(S, c)) /\ (\A K : Cut(K)' = Cut(K)) /\ PairsInv' = PairsInv
      BY <2>1, SameStates
    <3>2. \A q : epsilon_closure(q)' = epsilon_closure(q)
      BY <2>1 DEF epsilon_closure
    <3>3. \A A : Closures(A)' = Closures(A)
      BY <3>2 DEF Closures
    <3>4. AtStart' = AtStart
      BY <2>1, <3>2 DEF AtStart
    <3>5. DuplicatesInv' = DuplicatesInv
      BY <2>1, <3>1 DEF DuplicatesInv
    <3>6. (\A S : Accepts(S)' = Accepts(S)) /\ (\A S : Done(S)' = Done(S))
      BY <2>1, <3>1 DEF Accepts, Done
    <3>7. (\A S : Entry(S)' = Entry(S)) /\ (\A S : Queued(S)' = Queued(S))
      BY <2>1 DEF Entry, Queued
    <3>8. \A K : WithinCut(K)' = WithinCut(K)
      BY <2>1, <3>6, <3>7 DEF WithinCut
    <3>9. (\A n : Structure(n)' = Structure(n)) /\ InitialFirst' = InitialFirst
      BY <2>1, <3>1 DEF Structure, NewNodes, InitialFirst
    <3>10. ReduceInv' = ReduceInv
      BY <2>1, <3>1, <3>7, <3>8, <3>9 DEF ReduceInv
    <3>11. \A rep : Represented(rep)' = Represented(rep)
      BY <2>1, <3>1 DEF Represented
    <3>12. \A rep, A, M : Corresponds(rep, A, M)' = Corresponds(rep, A, M)
      BY <2>1, <3>3, <3>11 DEF Corresponds
    <3>13. ScanInv' = ScanInv
      BY <2>1, <3>1, <3>6, <3>12 DEF ScanInv
    <3> QED BY <2>1, <3>4, <3>5, <3>10, <3>13 DEF NfaReductionInv
  <2> QED BY <2>2
<1> QED BY <1>2, <1>3, <1>4, <1>5, <1>6, <1>7, <1>8, <1>9 DEF ReductionNext, Reduce

(* remove_epsilon, remove_duplicates and reduce build an equivalent NFA     *)
(* (nfa.h:331), whatever NFA was parsed, as long as the states that are     *)
(* merged have the same transitions.                                       *)
THEOREM ReductionKeepsRules ==
  ASSUME ReductionAssumption
  PROVE  ReductionSpec /\ []MergesKeepTransitions => []SameRules
<1>1. ReductionInit => NfaReductionInv
  BY DEF ReductionInit, NfaReductionInv, AtStart
<1>2. NfaReductionInv /\ MergesKeepTransitions /\ [ReductionNext]_reductionVars => NfaReductionInv'
  <2> SUFFICES ASSUME NfaReductionInv, MergesKeepTransitions, [ReductionNext]_reductionVars PROVE NfaReductionInv'
    OBVIOUS
  <2> QED BY ReductionStep
<1>3. NfaReductionInv => SameRules
  BY RulesCorrespond DEF NfaReductionInv, SameRules
<1> QED BY <1>1, <1>2, <1>3, PTL DEF ReductionSpec

(* same_transitions is right as long as the state that is kept has no       *)
(* transition twice: its pairs are then all the pairs of the other.        *)
LEMMA SameCountSameTransitions ==
  ASSUME ReductionAssumption, PairsInv, NEW q, NEW r, same_transitions(q, r),
         \A p, x \in PairsOf(q) : p[2] = x[2] /\ pairs[p] = pairs[x] => p = x
  PROVE  Row(q) = Row(r)
<1> DEFINE f == [p \in PairsOf(q) |-> CHOOSE x \in PairsOf(r) : x[2] = p[2] /\ pairs[x] = pairs[p]]
<1>1. \A p \in PairsOf(q) : \E x \in PairsOf(r) : x[2] = p[2] /\ pairs[x] = pairs[p]
  BY DEF same_transitions
<1>2. \A p \in PairsOf(q) : f[p] \in PairsOf(r) /\ f[p][2] = p[2] /\ pairs[f[p]] = pairs[p]
  BY <1>1
<1>3. DOMAIN f = PairsOf(q)
  OBVIOUS
<1>4. f = [p \in PairsOf(q) |-> f[p]]
  OBVIOUS
<1> HIDE DEF f
<1>5. f \in Injection(PairsOf(q), PairsOf(r))
  <2>1. f \in [PairsOf(q) -> PairsOf(r)]
    BY <1>2, <1>4
  <2>2. ASSUME NEW p \in PairsOf(q), NEW x \in PairsOf(q), f[p] = f[x] PROVE p = x
    BY <1>2, <2>2
  <2> QED BY <1>3, <2>1, <2>2 DEF Injection, IsInjective
<1>6. IsFiniteSet(PairsOf(r))
  <2> DEFINE T == (NFA \X Symbol) \X NFA
             g == [p \in PairsOf(r) |-> <<<<p[1], p[2]>>, p[3]>>]
  <2>1. IsFiniteSet(T)
    <3>1. IsFiniteSet(NFA) /\ IsFiniteSet(Symbol)
      BY NfaFacts
    <3>2. IsFiniteSet(NFA \X Symbol)
      BY <3>1, FS_Product
    <3> HIDE DEF NFA, Symbol
    <3> QED BY <3>1, <3>2, FS_Product
  <2>2. ParsedNfa
    BY ParsedFacts DEF PairsInv
  <2>3. \A p \in PairsOf(r) : p[1] \in NFA /\ p[2] \in Symbol /\ p[3] \in NFA /\ p = <<p[1], p[2], p[3]>>
    <3>1. \A p \in PairsOf(r) : p \in Labeled
      BY DEF PairsOf, PairsInv
    <3> QED BY <2>2, <3>1, TraversedFacts
  <2>4. g \in [PairsOf(r) -> T] /\ DOMAIN g = PairsOf(r)
    BY <2>3
  <2>5. ASSUME NEW p \in PairsOf(r), NEW x \in PairsOf(r), g[p] = g[x] PROVE p = x
    <3>1. p[1] = x[1] /\ p[2] = x[2] /\ p[3] = x[3]
      BY <2>5
    <3> QED BY <2>3, <3>1
  <2> HIDE DEF g, T
  <2>6. g \in Injection(PairsOf(r), T)
    BY <2>4, <2>5 DEF Injection, IsInjective
  <2> QED BY <2>1, <2>6, FS_Injection
<1>7. f \in Surjection(PairsOf(q), PairsOf(r))
  BY <1>5, <1>6, FS_Injection DEF same_transitions
<1>8. Row(q) \subseteq Row(r)
  BY <1>1 DEF Row
<1>9. ASSUME NEW x \in PairsOf(r) PROVE <<x[2], pairs[x]>> \in Row(q)
  <2>1. PICK p \in PairsOf(q) : f[p] = x
    BY <1>7 DEF Surjection
  <2> QED BY <1>2, <2>1 DEF Row
<1> QED BY <1>8, <1>9 DEF Row

(* The state that is compared has no transition twice *)
SourceIsSimple ==
  rest # {} => \A p, x \in PairsOf(source) : p[2] = x[2] /\ pairs[p] = pairs[x] => p = x

(* While no state that is compared has a transition twice, every merge is   *)
(* right, and with it the reduction: a second copy of a transition, which   *)
(* an earlier merge leaves behind, is all that same_transitions overlooks   *)
(* (nfa.c:983).                                                            *)
THEOREM SimpleSourcesKeepRules ==
  ASSUME ReductionAssumption
  PROVE  ReductionSpec /\ []SourceIsSimple => []SameRules
<1>1. ReductionInit => NfaReductionInv
  BY DEF ReductionInit, NfaReductionInv, AtStart
<1>2. NfaReductionInv /\ SourceIsSimple /\ [ReductionNext]_reductionVars => NfaReductionInv'
  <2> SUFFICES ASSUME NfaReductionInv, SourceIsSimple, [ReductionNext]_reductionVars PROVE NfaReductionInv'
    OBVIOUS
  <2>1. stage = "duplicates" => MergesKeepTransitions
    <3> SUFFICES ASSUME stage = "duplicates", NEW p \in rest, Mergeable(pairs[p])
                 PROVE  Row(source) = Row(pairs[p])
      BY DEF MergesKeepTransitions
    <3>1. PairsInv
      BY DEF NfaReductionInv, DuplicatesInv
    <3>2. same_transitions(source, pairs[p])
      BY DEF Mergeable
    <3> QED BY <3>1, <3>2, SameCountSameTransitions DEF SourceIsSimple
  <2> QED BY <2>1, ReductionStep
<1>3. NfaReductionInv => SameRules
  BY RulesCorrespond DEF NfaReductionInv, SameRules
<1> QED BY <1>1, <1>2, <1>3, PTL DEF ReductionSpec
===============================================================================
