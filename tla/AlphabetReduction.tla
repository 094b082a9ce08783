-------------------------- MODULE AlphabetReduction --------------------------
(***************************************************************************)
(* DFA::alphabet_reduction of generator/dfa.c: the symbols that no state    *)
(* tells apart get the same class.  The translation table starts as the     *)
(* reductions of other DFAs left it (init=false, the memory image programs) *)
(* or with the single class 0.                                              *)
(***************************************************************************)
EXTENDS Integers, FiniteSets

CONSTANTS
  CSize,      \* CSIZE: symbols are 0..CSize-1
  Dfas,       \* the DFAs: complete, states 0..size-1
  Alphabets   \* the translation tables it may be called with

Symbol == 0..CSize-1
StatesOf(d) == 0..d.size-1

(* the classes in use are numbered from 0 without gaps *)
IsAlphabet(f) == \E m \in Symbol : f \in [Symbol -> 0..m] /\ \A k \in 0..m : \E c \in Symbol : f[c] = k

ASSUME AlphabetAssumption ==
  /\ CSize \in Nat \ {0}
  /\ \A d \in Dfas : /\ d.size \in Nat \ {0}
                     /\ d.state_table \in [StatesOf(d) -> [Symbol -> StatesOf(d)]]
  /\ \A f \in Alphabets : IsAlphabet(f)

VARIABLES
  dfa,           \* the DFA
  given,         \* the translation table as it is found
  stage,         \* "reduce" until all pairs of states are done
  alphabet_tx,   \* alph_tx[c], the class of c
  max_class,
  s, t           \* the pair of states to be examined next

alphabetVars == <<dfa, given, stage, alphabet_tx, max_class, s, t>>

-----------------------------------------------------------------------------
AlphabetInit ==
  /\ dfa \in Dfas
  /\ given \in Alphabets
  /\ stage = "reduce"
  /\ alphabet_tx = given
  /\ \E c \in Symbol : max_class = given[c] /\ \A d \in Symbol : given[d] <= given[c]
  /\ s = 0 /\ t = 0

(* the symbols that lead s to t, and their classes *)
Covered == {c \in Symbol : dfa.state_table[s][c] = t}
CoveredClasses == {alphabet_tx[c] : c \in Covered}

(* Mutant: classes without a covered symbol are split, too. *)
Leaving_All == {c \in Symbol : c \notin Covered /\ alphabet_tx[c] # 0}

(* the symbols that share a class with them and lead elsewhere *)
Leaving == {c \in Symbol : c \notin Covered /\ alphabet_tx[c] \in CoveredClasses}

(* the first symbol of each class that is split *)
Leaders == {c \in Leaving : \A d \in Leaving : alphabet_tx[d] = alphabet_tx[c] => c <= d}

Leader(c) == CHOOSE d \in Leaders : alphabet_tx[d] = alphabet_tx[c]

(* new classes are numbered in the order of their first symbols *)
remap(c) == max_class + Cardinality({d \in Leaders : d <= Leader(c)})

ReducePair ==
  /\ stage = "reduce" /\ s < dfa.size
  /\ alphabet_tx' = [c \in Symbol |-> IF c \in Leaving THEN remap(c) ELSE alphabet_tx[c]]
  /\ max_class' = max_class + Cardinality(Leaders)
  /\ IF t + 1 < dfa.size THEN s' = s /\ t' = t + 1 ELSE s' = s + 1 /\ t' = 0
  /\ UNCHANGED stage

Reduced ==
  /\ stage = "reduce" /\ s = dfa.size
  /\ stage' = "compress"
  /\ UNCHANGED <<alphabet_tx, max_class, s, t>>

AlphabetNext == (ReducePair \/ Reduced) /\ UNCHANGED <<dfa, given>>

AlphabetSpec == AlphabetInit /\ [][AlphabetNext]_alphabetVars

-----------------------------------------------------------------------------
(* Two symbols have the same class exactly when they had it before and no  *)
(* state tells them apart.  With less, next states would be lost; with     *)
(* more, the alphabet would not be minimal.                                *)
SameColumn(c, d) == \A q \in StatesOf(dfa) : dfa.state_table[q][c] = dfa.state_table[q][d]

ClassesAreColumns ==
  stage # "reduce" =>
    \A c, d \in Symbol :
      alphabet_tx[c] = alphabet_tx[d] <=> given[c] = given[d] /\ SameColumn(c, d)

=============================================================================
