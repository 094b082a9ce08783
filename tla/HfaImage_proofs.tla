--------------------------- MODULE HfaImage_proofs ---------------------------
(***************************************************************************)
(* The image of a hybrid automaton runs as its DFAs do (HfaImage), for      *)
(* every hybrid automaton: the words of the states of a DFA lie apart and   *)
(* hold its transitions, and between two characters every active DFA is at  *)
(* the words of the state it is in.                                         *)
(***************************************************************************)
EXTENDS HfaImage, ArithmeticLemmas

-----------------------------------------------------------------------------
(* What is assumed of an automaton, DFA by DFA. *)
LEMMA HfaFacts ==
  ASSUME HfaAssumption, hfa \in Hfas
  PROVE  /\ hfa.alphabet \in Nat \ {0} /\ Symbol = 0..hfa.alphabet-1
         /\ hfa.tails \in Nat /\ Machines = 0..hfa.tails /\ 0 \in Machines
         /\ \A i \in Machines : CompressedDfa(hfa.dfas[i], Symbol)
         /\ hfa.border \in [States(0) -> Seq(Machines \ {0})] /\ hfa.border[0] = <<>>
         /\ TX_THRESHOLD \in Nat /\ AddressLimit \in Nat \ {0}
<1>1. /\ hfa.alphabet \in Nat \ {0} /\ hfa.tails \in Nat /\ DOMAIN hfa.dfas = 0..hfa.tails
      /\ \A i \in DOMAIN hfa.dfas : CompressedDfa(hfa.dfas[i], 0..hfa.alphabet-1)
      /\ hfa.border \in [0..hfa.dfas[0].size-1 -> Seq(DOMAIN hfa.dfas \ {0})] /\ hfa.border[0] = <<>>
  BY DEF HfaAssumption
<1>2. TX_THRESHOLD \in Nat /\ AddressLimit \in Nat \ {0}
  BY DEF HfaAssumption
<1>3. 0 \in Machines
  BY <1>1 DEF Machines
<1> QED BY <1>1, <1>2, <1>3 DEF Symbol, Machines, States

LEMMA DfaFacts ==
  ASSUME HfaAssumption, hfa \in Hfas, NEW i \in Machines
  PROVE  /\ hfa.dfas[i].size \in Nat \ {0} /\ States(i) = 0..hfa.dfas[i].size-1 /\ 0 \in States(i)
         /\ States(i) \subseteq Nat /\ i \in Nat
         /\ \A q \in States(i) : /\ Labeled(i, q) \subseteq Symbol
                                 /\ \A c \in Symbol : Next(i, q, c) \in States(i)
                                 /\ Default(i, q) \in States(i) \cup {NONE}
         /\ Labeled(i, 0) = Symbol
         /\ \A q \in States(i) \ {0} : \E p \in 0..q-1, c \in Symbol : Next(i, p, c) = q
<1> DEFINE d == hfa.dfas[i]
<1>1. CompressedDfa(d, Symbol)
  BY HfaFacts
<1>2. States(i) = 0..d.size-1
  BY DEF States
<1> HIDE DEF d
<1>3. /\ d.size \in Nat \ {0}
      /\ d.table \in [States(i) -> [Symbol -> States(i)]]
      /\ d.labeled \in [States(i) -> SUBSET Symbol] /\ d.labeled[0] = Symbol
      /\ d.default \in [States(i) -> States(i) \cup {NONE}]
      /\ \A q \in States(i) \ {0} : \E p \in 0..q-1, c \in Symbol : d.table[p][c] = q
  BY <1>1, <1>2 DEF CompressedDfa
<1>4. 0 \in States(i) /\ States(i) \subseteq Nat
  BY <1>2, <1>3
<1>5. \A q \in States(i) : /\ d.labeled[q] \subseteq Symbol
                           /\ \A c \in Symbol : d.table[q][c] \in States(i)
                           /\ d.default[q] \in States(i) \cup {NONE}
  BY <1>3
<1>6. i \in Nat
  BY HfaFacts
<1> QED BY <1>2, <1>3, <1>4, <1>5, <1>6 DEF d, Labeled, Next, Default

(* A state without default transition has a labeled one for every symbol,   *)
(* and the others lead on where their default transition does.             *)
LEMMA DefaultFacts ==
  ASSUME HfaAssumption, hfa \in Hfas, NEW i \in Machines, NEW q \in States(i)
  PROVE  /\ Default(i, q) = NONE => Labeled(i, q) = Symbol
         /\ Default(i, q) # NONE =>
              /\ Default(i, q) \in States(i) /\ Default(i, q) < q
              /\ \A c \in Symbol \ Labeled(i, q) : Next(i, Default(i, q), c) = Next(i, q, c)
<1> DEFINE d == hfa.dfas[i]
<1>1. CompressedDfa(d, Symbol)
  BY HfaFacts
<1>2. States(i) = 0..d.size-1
  BY DEF States
<1> HIDE DEF d
<1>3. /\ IF d.default[q] = NONE THEN d.labeled[q] = Symbol
         ELSE d.default[q] < q /\ \A c \in Symbol \ d.labeled[q] : d.table[d.default[q]][c] = d.table[q][c]
      /\ d.default[q] \in States(i) \cup {NONE}
  BY <1>1, <1>2 DEF CompressedDfa
<1> QED BY <1>3 DEF d, Labeled, Next, Default

(* A dead state of a tail is not left and does not accept; the head has none. *)
LEMMA DeadFacts ==
  ASSUME Sound, NEW i \in Machines, NEW q \in States(i), IsDead(i, q)
  PROVE  /\ i # 0 /\ q = hfa.dfas[i].dead_state /\ ~Accepts(i, q)
         /\ \A c \in Symbol : Next(i, q, c) = q
<1>1. DeadNumberRight(i)
  BY DEF Sound
<1> QED BY <1>1 DEF DeadNumberRight, IsDead

(* The labeled transitions in the order of their symbols, and the words of  *)
(* a state; the transitions of state 0, and of a state without default      *)
(* transition, are never few.                                              *)
LEMMA WordsFacts ==
  ASSUME HfaAssumption, hfa \in Hfas, NEW i \in Machines, NEW q \in States(i)
  PROVE  /\ Len(Tx(i, q)) = Cardinality(Labeled(i, q)) /\ Cardinality(Labeled(i, q)) \in Nat
         /\ \A n \in 1..Cardinality(Labeled(i, q)) : Tx(i, q)[n] \in Labeled(i, q)
         /\ \A m, n \in 1..Cardinality(Labeled(i, q)) : m < n => Tx(i, q)[m] < Tx(i, q)[n]
         /\ \A c \in Labeled(i, q) : \E n \in 1..Cardinality(Labeled(i, q)) : Tx(i, q)[n] = c
         /\ Labeled(i, q) = {} <=> Cardinality(Labeled(i, q)) = 0
         /\ Words(i, q) \in Nat \ {0}
         /\ hfa.alphabet > TX_THRESHOLD /\ Labeled(i, q) = Symbol => ~IsCompressed(i, q)
<1> DEFINE S == Labeled(i, q)
           key == [c \in S |-> c]
<1>1. hfa.alphabet \in Nat \ {0} /\ Symbol = 0..hfa.alphabet-1 /\ TX_THRESHOLD \in Nat
  BY HfaFacts
<1>2. S \subseteq Symbol
  BY DfaFacts
<1>3. IsFiniteSet(Symbol) /\ Cardinality(Symbol) = hfa.alphabet
  <2>1. IsFiniteSet(0..hfa.alphabet-1)
        /\ Cardinality(0..hfa.alphabet-1) = IF 0 > hfa.alphabet-1 THEN 0 ELSE hfa.alphabet-1 - 0 + 1
    BY <1>1, FS_Interval
  <2> QED BY <1>1, <2>1
<1>4. IsFiniteSet(S) /\ Cardinality(S) \in Nat
  BY <1>2, <1>3, MoreElements
<1>5. key \in [S -> Int] /\ \A x, y \in S : key[x] = key[y] => x = y
  BY <1>1, <1>2
<1>6. Tx(i, q) = InOrder(S, key)
  BY DEF Tx
<1>7. S = {} <=> Cardinality(S) = 0
  BY <1>4, FS_EmptySet
<1>8. Words(i, q) \in Nat \ {0}
  BY <1>1, <1>4 DEF Words
<1>9. hfa.alphabet > TX_THRESHOLD /\ S = Symbol => ~IsCompressed(i, q)
  BY <1>1, <1>3 DEF IsCompressed
<1>10. \A c \in S : key[c] = c
  OBVIOUS
<1> HIDE DEF S, key
<1>11. Len(InOrder(S, key)) = Cardinality(S)
  BY <1>4, <1>5, InOrderFacts
<1>12. InOrder(S, key) \in [1..Cardinality(S) -> S]
  BY <1>4, <1>5, InOrderFacts
<1>13. \A m, n \in 1..Cardinality(S) : m < n => key[InOrder(S, key)[m]] < key[InOrder(S, key)[n]]
  BY <1>4, <1>5, InOrderFacts
<1>14. \A x \in S : \E n \in 1..Cardinality(S) : InOrder(S, key)[n] = x
  BY <1>4, <1>5, InOrderFacts
<1>15. \A n \in 1..Cardinality(S) : Tx(i, q)[n] \in S /\ key[Tx(i, q)[n]] = Tx(i, q)[n]
  BY <1>6, <1>10, <1>12
<1>16. \A m, n \in 1..Cardinality(S) : m < n => Tx(i, q)[m] < Tx(i, q)[n]
  BY <1>6, <1>13, <1>15
<1> QED BY <1>4, <1>6, <1>7, <1>8, <1>9, <1>11, <1>14, <1>15, <1>16 DEF S

LEMMA TailsFacts ==
  ASSUME HfaAssumption, hfa \in Hfas, NEW i \in Machines, NEW q \in States(i)
  PROVE  /\ Tails(i, q) \in Seq(Machines \ {0}) /\ Len(Tails(i, q)) \in Nat
         /\ i # 0 => Tails(i, q) = <<>> /\ Len(Tails(i, q)) = 0
         /\ Tails(i, 0) = <<>>
         /\ i = 0 => Tails(i, q) = hfa.border[q]
<1>1. hfa.border \in [States(0) -> Seq(Machines \ {0})] /\ hfa.border[0] = <<>>
  BY HfaFacts
<1>2. i = 0 => hfa.border[q] \in Seq(Machines \ {0})
  BY <1>1
<1>3. Tails(i, q) \in Seq(Machines \ {0})
  BY <1>2 DEF Tails
<1>4. Len(Tails(i, q)) \in Nat
  BY <1>3, LenProperties
<1>5. Len(<<>>) = 0
  OBVIOUS
<1> QED BY <1>1, <1>3, <1>4, <1>5 DEF Tails

(* the words of a state, those that name its tails first *)
Extent(i, q) == Words(i, q) + Len(Tails(i, q))

(* None of this changes. *)
LEMMA AutomatonUnchanged ==
  ASSUME UNCHANGED hfa
  PROVE  /\ Symbol' = Symbol /\ Machines' = Machines
         /\ \A i : States(i)' = States(i)
         /\ \A i, q : /\ Labeled(i, q)' = Labeled(i, q) /\ Tx(i, q)' = Tx(i, q) /\ Words(i, q)' = Words(i, q)
                      /\ IsCompressed(i, q)' = IsCompressed(i, q) /\ Default(i, q)' = Default(i, q)
                      /\ Tails(i, q)' = Tails(i, q) /\ Extent(i, q)' = Extent(i, q)
                      /\ IsDead(i, q)' = IsDead(i, q) /\ Accepts(i, q)' = Accepts(i, q)
         /\ \A i, q, c : Next(i, q, c)' = Next(i, q, c)
<1>1. Symbol' = Symbol /\ Machines' = Machines /\ \A i : States(i)' = States(i)
  BY DEF Symbol, Machines, States
<1>2. \A i, q : Labeled(i, q)' = Labeled(i, q) /\ Default(i, q)' = Default(i, q) /\ Tails(i, q)' = Tails(i, q)
  BY DEF Labeled, Default, Tails
<1>3. \A i, q : Tx(i, q)' = Tx(i, q)
  BY <1>2 DEF Tx
<1>4. \A i, q : IsCompressed(i, q)' = IsCompressed(i, q)
  BY <1>2 DEF IsCompressed
<1>5. \A i, q : Words(i, q)' = Words(i, q)
  BY <1>2, <1>4 DEF Words
<1>6. \A i, q : Extent(i, q)' = Extent(i, q)
  BY <1>2, <1>5 DEF Extent
<1>7. \A i, q : IsDead(i, q)' = IsDead(i, q) /\ Accepts(i, q)' = Accepts(i, q)
  BY DEF IsDead, Accepts
<1>8. \A i, q, c : Next(i, q, c)' = Next(i, q, c)
  BY DEF Next
<1> QED BY <1>1, <1>2, <1>3, <1>4, <1>5, <1>6, <1>7, <1>8

-----------------------------------------------------------------------------
(* The layout.  The states of a DFA that have an address have their words    *)
(* apart and before its end.  Of the DFA that is laid out, those that have  *)
(* been queued wait in the queue or have an address; the DFAs before it are *)
(* done, and the others have not been begun.                               *)
Placed(i) == {q \in States(i) : state_address[i][q] # NONE}

Apart(i, p, q) ==
  \/ state_address[i][p] + Extent(i, p) <= state_address[i][q]
  \/ state_address[i][q] + Extent(i, q) <= state_address[i][p]

AddressInv ==
  /\ DOMAIN state_address = Machines /\ size \in [Machines -> Nat]
  /\ \A i \in Machines :
       /\ state_address[i] \in [States(i) -> Nat \cup {NONE}]
       /\ \A p \in Placed(i) : state_address[i][p] + Extent(i, p) <= size[i]
       /\ \A p, q \in Placed(i) : p # q => Apart(i, p, q)

AllPlaced(i) == Placed(i) = States(i) /\ state_address[i][0] = 0

MarkingInv ==
  /\ marking \subseteq States(dfa_no) /\ Placed(dfa_no) \subseteq marking
  /\ 0 \in marking
  /\ \A p \in Placed(dfa_no) : \A c \in Labeled(dfa_no, p) : Next(dfa_no, p, c) \in marking

QueueInv ==
  /\ queue \in Seq(States(dfa_no))
  /\ \A m \in 1..Len(queue) : queue[m] \in marking \ Placed(dfa_no)
  /\ \A m, n \in 1..Len(queue) : m # n => queue[m] # queue[n]
  /\ \A q \in marking \ Placed(dfa_no) : \E m \in 1..Len(queue) : queue[m] = q
  /\ (Placed(dfa_no) = {} /\ size[dfa_no] = 0 /\ queue[1] = 0) \/ state_address[dfa_no][0] = 0

LayoutInv ==
  /\ dfa_no \in Machines /\ AddressInv
  /\ stage = "layout" =>
       /\ MarkingInv /\ QueueInv
       /\ \A i \in Machines : i < dfa_no => AllPlaced(i)
       /\ \A i \in Machines : i > dfa_no => Placed(i) = {} /\ size[i] = 0
  /\ stage # "layout" => \A i \in Machines : AllPlaced(i)

LEMMA ExtentFacts ==
  ASSUME HfaAssumption, hfa \in Hfas, NEW i \in Machines, NEW q \in States(i)
  PROVE  Extent(i, q) \in Nat \ {0} /\ Extent(i, q) = Words(i, q) + Len(Tails(i, q))
<1>1. Words(i, q) \in Nat \ {0}
  BY WordsFacts
<1>2. Len(Tails(i, q)) \in Nat
  BY TailsFacts
<1> QED BY <1>1, <1>2 DEF Extent

(* The targets of the labeled transitions of a state that are not marked. *)
NewTargets(i, q) == {Next(i, q, c) : c \in Labeled(i, q)} \ marking

(* They are queued each once. *)
LEMMA NewTargetsFacts ==
  ASSUME HfaAssumption, hfa \in Hfas, NEW i \in Machines, NEW q \in States(i)
  PROVE  LET o == InOrder(NewTargets(i, q), [p \in NewTargets(i, q) |-> FirstSymbol(i, q, p)]) IN
           /\ NewTargets(i, q) \subseteq States(i)
           /\ o \in Seq(States(i)) /\ \A m \in 1..Len(o) : o[m] \in NewTargets(i, q)
           /\ \A m, n \in 1..Len(o) : m # n => o[m] # o[n]
           /\ \A p \in NewTargets(i, q) : \E m \in 1..Len(o) : o[m] = p
<1>1. /\ hfa.dfas[i].size \in Nat \ {0} /\ States(i) = 0..hfa.dfas[i].size-1
      /\ \A c \in Symbol : Next(i, q, c) \in States(i)
      /\ Labeled(i, q) \subseteq Symbol
  BY DfaFacts
<1>0. \A c \in Labeled(i, q) : c \in Nat
  <2>1. Symbol = 0..hfa.alphabet-1 /\ hfa.alphabet \in Nat
    BY HfaFacts
  <2> QED BY <1>1, <2>1
<1> DEFINE S == NewTargets(i, q)
           key == [p \in S |-> FirstSymbol(i, q, p)]
           o == InOrder(S, key)
<1>2. S \subseteq States(i)
  BY <1>1 DEF NewTargets
<1>3. IsFiniteSet(S)
  <2>0. 0 \in Int /\ hfa.dfas[i].size-1 \in Int
    BY <1>1
  <2>1. IsFiniteSet(0..hfa.dfas[i].size-1)
    BY <2>0, FS_Interval
  <2> HIDE DEF S
  <2> QED BY <1>1, <1>2, <2>1, FS_Subset
<1>4. ASSUME NEW p \in S
      PROVE  FirstSymbol(i, q, p) \in Labeled(i, q) /\ Next(i, q, FirstSymbol(i, q, p)) = p
  <2> DEFINE T == {c \in Labeled(i, q) : Next(i, q, c) = p}
  <2>1. T \in SUBSET Nat /\ T # {}
    BY <1>0, <1>1 DEF NewTargets
  <2>2. \E c \in T : \A d \in T : c <= d
    BY <2>1, LeastElement
  <2>3. \E c \in Labeled(i, q) : Next(i, q, c) = p /\ \A d \in Labeled(i, q) : Next(i, q, d) = p => c <= d
    BY <2>2
  <2> QED BY <2>3 DEF FirstSymbol
<1>5. key \in [S -> Int] /\ \A x, y \in S : key[x] = key[y] => x = y
  <2>1. \A p \in S : FirstSymbol(i, q, p) \in Int
    BY <1>0, <1>4
  <2> QED BY <1>4, <2>1
<1> HIDE DEF S, key
<1>6. o \in Seq(S)
  BY <1>3, <1>5, InOrderFacts
<1>7. Len(o) = Cardinality(S)
  BY <1>3, <1>5, InOrderFacts
<1>8. \A m \in 1..Cardinality(S) : o[m] \in S
  <2>1. o \in [1..Cardinality(S) -> S]
    BY <1>3, <1>5, InOrderFacts
  <2> HIDE DEF o
  <2> QED BY <2>1
<1>9. \A m, n \in 1..Cardinality(S) : m < n => key[o[m]] < key[o[n]]
  BY <1>3, <1>5, InOrderFacts
<1>10. \A x \in S : \E n \in 1..Cardinality(S) : o[n] = x
  BY <1>3, <1>5, InOrderFacts
<1>11. Cardinality(S) \in Nat
  BY <1>3, FS_CardinalityType
<1> HIDE DEF o
<1>12. o \in Seq(States(i))
  BY <1>2, <1>6, SeqMonotonic
<1>13. \A m, n \in 1..Cardinality(S) : m # n => o[m] # o[n]
  <2> TAKE m, n \in 1..Cardinality(S)
  <2> HAVE m # n
  <2>1. m \in Int /\ n \in Int
    BY <1>11
  <2>2. m < n \/ n < m
    BY <2>1
  <2>3. key[o[m]] \in Int /\ key[o[n]] \in Int
    BY <1>5, <1>8
  <2>4. key[o[m]] < key[o[n]] \/ key[o[n]] < key[o[m]]
    BY <1>9, <2>2
  <2>5. key[o[m]] # key[o[n]]
    BY <2>3, <2>4
  <2> QED BY <2>5
<1>14. /\ S \subseteq States(i)
       /\ o \in Seq(States(i)) /\ \A m \in 1..Len(o) : o[m] \in S
       /\ \A m, n \in 1..Len(o) : m # n => o[m] # o[n]
       /\ \A p \in S : \E m \in 1..Len(o) : o[m] = p
  BY <1>2, <1>7, <1>8, <1>10, <1>12, <1>13
<1> QED BY <1>14 DEF S, key, o

LEMMA LayoutInvInit ==
  ASSUME HfaAssumption, HfaImageInit
  PROVE  LayoutInv
<1>1. /\ hfa \in Hfas /\ stage = "layout" /\ dfa_no = 0 /\ queue = <<0>> /\ marking = {0}
      /\ state_address = [i \in Machines |-> [q \in States(i) |-> NONE]]
      /\ size = [i \in Machines |-> 0]
  BY DEF HfaImageInit
<1>2. 0 \in Machines /\ Machines \subseteq Nat
  BY <1>1, HfaFacts
<1>3. \A i \in Machines : 0 \in States(i)
  BY <1>1, DfaFacts
<1>4. \A i \in Machines : Placed(i) = {}
  BY <1>1 DEF Placed
<1>5. AddressInv
  BY <1>1, <1>4 DEF AddressInv
<1>6. MarkingInv
  BY <1>1, <1>2, <1>3, <1>4 DEF MarkingInv
<1>7. queue \in Seq(States(0)) /\ Len(queue) = 1 /\ queue[1] = 0 /\ 1..1 = {1}
  BY <1>1, <1>2, <1>3
<1>8. QueueInv
  BY <1>1, <1>2, <1>4, <1>7 DEF QueueInv
<1>9. \A i \in Machines : ~(i < 0)
  BY <1>2
<1> QED BY <1>1, <1>2, <1>4, <1>5, <1>6, <1>8, <1>9 DEF LayoutInv

(* One state of the breadth-first traversal of the labeled transitions. *)
LEMMA LayoutKeeps ==
  ASSUME HfaAssumption, hfa \in Hfas, LayoutInv, Layout, UNCHANGED hfa
  PROVE  LayoutInv'
<1>1. stage = "layout" /\ stage' = "layout" /\ queue # <<>> /\ dfa_no' = dfa_no /\ dfa_no \in Machines
  BY DEF Layout, LayoutInv
<1>2. /\ AddressInv /\ MarkingInv /\ QueueInv
      /\ \A i \in Machines : i < dfa_no => AllPlaced(i)
      /\ \A i \in Machines : i > dfa_no => Placed(i) = {} /\ size[i] = 0
  BY <1>1 DEF LayoutInv
<1>i. PICK i \in Machines : i = dfa_no
  BY <1>1
<1> DEFINE q == Head(queue)
           o == InOrder(NewTargets(i, q), [p \in NewTargets(i, q) |-> FirstSymbol(i, q, p)])
<1>3. /\ state_address' = [state_address EXCEPT ![i][q] = size[i]]
      /\ size' = [size EXCEPT ![i] = size[i] + Words(i, q) + Len(Tails(i, q))]
      /\ queue' = Tail(queue) \o o
      /\ marking' = marking \cup NewTargets(i, q)
  BY <1>i DEF Layout, NewTargets
<1>4. /\ queue \in Seq(States(i)) /\ Len(queue) \in Nat \ {0}
      /\ q = queue[1] /\ 1 \in 1..Len(queue)
  <2>1. queue \in Seq(States(i))
    BY <1>2, <1>i DEF QueueInv
  <2>2. Len(queue) \in Nat \ {0}
    BY <1>1, <2>1, EmptySeq
  <2> QED BY <2>1, <2>2
<1>5. q \in marking \ Placed(i) /\ marking \subseteq States(i) /\ q \in States(i)
  BY <1>2, <1>4, <1>i DEF QueueInv, MarkingInv
<1>6. /\ Tail(queue) \in Seq(States(i)) /\ Len(Tail(queue)) = Len(queue) - 1
      /\ \A m \in 1..Len(Tail(queue)) : Tail(queue)[m] = queue[m + 1]
  BY <1>1, <1>4, HeadTailProperties
<1> HIDE DEF q
<1>7. /\ NewTargets(i, q) \subseteq States(i)
      /\ o \in Seq(States(i)) /\ \A m \in 1..Len(o) : o[m] \in NewTargets(i, q)
      /\ \A m, n \in 1..Len(o) : m # n => o[m] # o[n]
      /\ \A p \in NewTargets(i, q) : \E m \in 1..Len(o) : o[m] = p
  <2>1. LET u == InOrder(NewTargets(i, q), [p \in NewTargets(i, q) |-> FirstSymbol(i, q, p)]) IN
          /\ NewTargets(i, q) \subseteq States(i)
          /\ u \in Seq(States(i)) /\ \A m \in 1..Len(u) : u[m] \in NewTargets(i, q)
          /\ \A m, n \in 1..Len(u) : m # n => u[m] # u[n]
          /\ \A p \in NewTargets(i, q) : \E m \in 1..Len(u) : u[m] = p
    BY <1>5, NewTargetsFacts
  <2> QED BY <2>1
<1> HIDE DEF o
<1> DEFINE T == Tail(queue)
<1>8. Len(o) \in Nat /\ Len(T) \in Nat
  BY <1>6, <1>7, LenProperties
<1>9. /\ queue' \in Seq(States(i)) /\ Len(queue') = Len(T) + Len(o)
      /\ \A m \in 1..Len(T) + Len(o) : queue'[m] = IF m <= Len(T) THEN T[m] ELSE o[m - Len(T)]
  BY <1>3, <1>6, <1>7, ConcatProperties
<1>10. /\ Machines' = Machines
       /\ \A j : States(j)' = States(j)
       /\ \A j, p : Labeled(j, p)' = Labeled(j, p) /\ Extent(j, p)' = Extent(j, p)
       /\ \A j, p, c : Next(j, p, c)' = Next(j, p, c)
  BY AutomatonUnchanged
<1>11. /\ DOMAIN state_address = Machines /\ size \in [Machines -> Nat]
       /\ \A j \in Machines :
            /\ state_address[j] \in [States(j) -> Nat \cup {NONE}]
            /\ \A p \in Placed(j) : state_address[j][p] + Extent(j, p) <= size[j]
            /\ \A p, r \in Placed(j) : p # r => Apart(j, p, r)
  BY <1>2 DEF AddressInv
<1>12. \A p \in States(i) : Extent(i, p) \in Nat \ {0} /\ Extent(i, p) = Words(i, p) + Len(Tails(i, p))
  BY ExtentFacts
<1>13. /\ DOMAIN state_address' = Machines
       /\ \A j \in Machines : j # i => state_address'[j] = state_address[j]
       /\ state_address'[i] = [state_address[i] EXCEPT ![q] = size[i]]
  BY <1>3, <1>11
<1>14. /\ size' \in [Machines -> Nat] /\ size'[i] = size[i] + Extent(i, q) /\ size[i] <= size'[i]
       /\ \A j \in Machines : j # i => size'[j] = size[j]
  <2>1. size[i] \in Nat /\ size[i] + Words(i, q) + Len(Tails(i, q)) = size[i] + Extent(i, q)
    <3>1. Words(i, q) \in Nat /\ Len(Tails(i, q)) \in Nat /\ size[i] \in Nat
      BY <1>5, <1>11, WordsFacts, TailsFacts
    <3> QED BY <1>5, <1>12, <3>1
  <2>2. size' = [size EXCEPT ![i] = size[i] + Extent(i, q)]
    BY <1>3, <2>1
  <2>3. Extent(i, q) \in Nat
    BY <1>5, <1>12
  <2> QED BY <1>11, <2>1, <2>2, <2>3
<1>15. \A j \in Machines : j # i => Placed(j)' = Placed(j)
  BY <1>10, <1>13 DEF Placed, NONE
<1>16. /\ Placed(i)' = Placed(i) \cup {q} /\ q \notin Placed(i)
       /\ state_address'[i][q] = size[i]
       /\ \A p \in Placed(i) : state_address'[i][p] = state_address[i][p] /\ state_address[i][p] \in Nat
       /\ state_address'[i] \in [States(i) -> Nat \cup {NONE}]
  <2> DEFINE a == state_address[i]
             b == state_address'[i]
  <2>1. NONE = -1 /\ size[i] \in Nat /\ size[i] # NONE
    BY <1>11 DEF NONE
  <2>2. a \in [States(i) -> Nat \cup {NONE}] /\ b = [a EXCEPT ![q] = size[i]]
    BY <1>11, <1>13
  <2>3. /\ Placed(i) = {p \in States(i) : a[p] # NONE}
        /\ Placed(i)' = {p \in States(i) : b[p] # NONE}
    BY <1>10 DEF Placed, NONE
  <2> HIDE DEF a, b
  <2>4. \A p \in States(i) : b[p] = IF p = q THEN size[i] ELSE a[p]
    BY <1>5, <2>2
  <2>5. b \in [States(i) -> Nat \cup {NONE}]
    BY <2>1, <2>2
  <2>6. Placed(i)' = Placed(i) \cup {q} /\ q \notin Placed(i)
    BY <1>5, <2>1, <2>3, <2>4
  <2>7. \A p \in Placed(i) : b[p] = a[p] /\ a[p] \in Nat
    <3> TAKE p \in Placed(i)
    <3>1. p \in States(i) /\ a[p] # NONE /\ p # q
      BY <2>3, <2>6
    <3> QED BY <2>2, <2>4, <3>1
  <2> QED BY <1>5, <2>4, <2>5, <2>6, <2>7 DEF a, b
<1>17. AddressInv'
  <2>1. ASSUME NEW p \in Placed(i)'
        PROVE  state_address'[i][p] + Extent(i, p) <= size'[i]
    <3>1. CASE p = q
      <4>1. size[i] \in Nat /\ Extent(i, q) \in Nat
        BY <1>5, <1>11, <1>12
      <4> QED BY <1>14, <1>16, <3>1, <4>1
    <3>2. CASE p \in Placed(i)
      <4>0. p \in States(i)
        BY <3>2 DEF Placed
      <4>1. state_address[i][p] + Extent(i, p) <= size[i] /\ Extent(i, p) \in Nat /\ state_address[i][p] \in Nat
        BY <1>11, <1>12, <1>16, <3>2, <4>0
      <4>2. state_address'[i][p] = state_address[i][p] /\ size[i] \in Nat /\ size'[i] \in Nat
        BY <1>11, <1>14, <1>16, <3>2
      <4> QED BY <1>14, <4>1, <4>2
    <3> QED BY <1>16, <3>1, <3>2
  <2>2. ASSUME NEW p \in Placed(i)', NEW r \in Placed(i)', p # r
        PROVE  \/ state_address'[i][p] + Extent(i, p) <= state_address'[i][r]
               \/ state_address'[i][r] + Extent(i, r) <= state_address'[i][p]
    <3>1. CASE p \in Placed(i) /\ r \in Placed(i)
      <4>1. Apart(i, p, r)
        BY <1>11, <2>2, <3>1
      <4> QED BY <1>16, <3>1, <4>1 DEF Apart
    <3>2. CASE p \in Placed(i) /\ r = q
      BY <1>11, <1>16, <3>2
    <3>3. CASE p = q /\ r \in Placed(i)
      BY <1>11, <1>16, <3>3
    <3> QED BY <1>16, <2>2, <3>1, <3>2, <3>3
  <2>3. ASSUME NEW j \in Machines
        PROVE  /\ state_address'[j] \in [States(j) -> Nat \cup {NONE}]
               /\ \A p \in Placed(j)' : state_address'[j][p] + Extent(j, p) <= size'[j]
               /\ \A p, r \in Placed(j)' : p # r =>
                    \/ state_address'[j][p] + Extent(j, p) <= state_address'[j][r]
                    \/ state_address'[j][r] + Extent(j, r) <= state_address'[j][p]
    <3>1. CASE j = i
      BY <1>16, <2>1, <2>2, <3>1
    <3>2. CASE j # i
      BY <1>11, <1>13, <1>14, <1>15, <3>2 DEF Apart
    <3> QED BY <3>1, <3>2
  <2>4. \A j \in Machines : \A p, r \in Placed(j)' : p # r => Apart(j, p, r)'
    BY <1>10, <2>3 DEF Apart
  <2> QED BY <1>10, <1>13, <1>14, <2>3, <2>4 DEF AddressInv, NONE
<1>18. MarkingInv'
  <2>1. /\ \A p \in Placed(i) : \A c \in Labeled(i, p) : Next(i, p, c) \in marking
        /\ 0 \in marking /\ Placed(i) \subseteq marking
    BY <1>2, <1>i DEF MarkingInv
  <2>2. \A c \in Labeled(i, q) : Next(i, q, c) \in marking'
    BY <1>3 DEF NewTargets
  <2>3. \A p \in Placed(i)' : \A c \in Labeled(i, p) : Next(i, p, c) \in marking'
    BY <1>3, <1>16, <2>1, <2>2
  <2>4. marking' \subseteq States(i) /\ 0 \in marking' /\ Placed(i)' \subseteq marking'
    BY <1>3, <1>5, <1>7, <1>16, <2>1
  <2>5. dfa_no' = i
    BY <1>1, <1>i
  <2> QED BY <1>10, <2>3, <2>4, <2>5 DEF MarkingInv
<1>19. QueueInv'
  <2>0. /\ \A m \in 1..Len(queue) : queue[m] \in marking \ Placed(i)
        /\ \A m, n \in 1..Len(queue) : m # n => queue[m] # queue[n]
        /\ \A p \in marking \ Placed(i) : \E m \in 1..Len(queue) : queue[m] = p
        /\ (Placed(i) = {} /\ size[i] = 0 /\ queue[1] = 0) \/ state_address[i][0] = 0
        /\ Placed(i) \subseteq marking
    BY <1>2, <1>i DEF QueueInv, MarkingInv
  <2>1. \A m \in 1..Len(T) : T[m] \in marking \ Placed(i) /\ T[m] # q /\ T[m] \notin NewTargets(i, q)
    <3> TAKE m \in 1..Len(T)
    <3>1. m + 1 \in 1..Len(queue) /\ m + 1 # 1 /\ T[m] = queue[m + 1]
      BY <1>4, <1>6, <1>8
    <3>2. queue[m + 1] \in marking \ Placed(i) /\ queue[m + 1] # queue[1]
      BY <1>4, <2>0, <3>1
    <3> QED BY <1>4, <3>1, <3>2 DEF NewTargets
  <2>2. \A p \in NewTargets(i, q) : p \notin marking /\ p \notin Placed(i) /\ p # q
    BY <1>5, <2>0 DEF NewTargets
  <2>3. ASSUME NEW m \in 1..Len(queue')
        PROVE  \/ m \in 1..Len(T) /\ queue'[m] = T[m]
               \/ m - Len(T) \in 1..Len(o) /\ ~(m \in 1..Len(T)) /\ queue'[m] = o[m - Len(T)]
    BY <1>8, <1>9
  <2>4. ASSUME NEW m \in 1..Len(queue')
        PROVE  queue'[m] \in marking' \ Placed(i)'
    <3>1. CASE m \in 1..Len(T) /\ queue'[m] = T[m]
      BY <1>3, <1>16, <2>1, <3>1
    <3>2. CASE m - Len(T) \in 1..Len(o) /\ queue'[m] = o[m - Len(T)]
      BY <1>3, <1>7, <1>16, <2>2, <3>2
    <3> QED BY <2>3, <3>1, <3>2
  <2>5. ASSUME NEW m \in 1..Len(queue'), NEW n \in 1..Len(queue'), m # n
        PROVE  queue'[m] # queue'[n]
    <3>1. CASE m \in 1..Len(T) /\ queue'[m] = T[m] /\ n \in 1..Len(T) /\ queue'[n] = T[n]
      <4>1. m + 1 \in 1..Len(queue) /\ n + 1 \in 1..Len(queue) /\ m + 1 # n + 1
        BY <1>4, <1>6, <1>8, <2>5, <3>1
      <4>2. queue[m + 1] # queue[n + 1]
        BY <2>0, <4>1
      <4> QED BY <1>6, <3>1, <4>2
    <3>2. CASE m \in 1..Len(T) /\ queue'[m] = T[m] /\ n - Len(T) \in 1..Len(o) /\ queue'[n] = o[n - Len(T)]
      BY <1>7, <2>1, <3>2
    <3>3. CASE n \in 1..Len(T) /\ queue'[n] = T[n] /\ m - Len(T) \in 1..Len(o) /\ queue'[m] = o[m - Len(T)]
      BY <1>7, <2>1, <3>3
    <3>4. CASE /\ m - Len(T) \in 1..Len(o) /\ queue'[m] = o[m - Len(T)]
               /\ n - Len(T) \in 1..Len(o) /\ queue'[n] = o[n - Len(T)]
      <4>1. m - Len(T) # n - Len(T)
        BY <1>8, <1>9, <2>5
      <4> QED BY <1>7, <3>4, <4>1
    <3> QED BY <2>3, <3>1, <3>2, <3>3, <3>4
  <2>6. ASSUME NEW p \in marking' \ Placed(i)'
        PROVE  \E m \in 1..Len(queue') : queue'[m] = p
    <3>1. CASE p \in NewTargets(i, q)
      <4>1. PICK m \in 1..Len(o) : o[m] = p
        BY <1>7, <3>1
      <4>2. m + Len(T) \in 1..Len(queue') /\ ~(m + Len(T) <= Len(T)) /\ (m + Len(T)) - Len(T) = m
        BY <1>8, <1>9
      <4> QED BY <1>9, <4>1, <4>2
    <3>2. CASE p \notin NewTargets(i, q)
      <4>1. p \in marking \ Placed(i) /\ p # q
        BY <1>3, <1>16, <3>2
      <4>2. PICK n \in 1..Len(queue) : queue[n] = p
        BY <2>0, <4>1
      <4>3. n # 1
        BY <1>4, <4>1, <4>2
      <4>4. n - 1 \in 1..Len(T) /\ (n - 1) + 1 = n
        BY <1>4, <1>6, <4>3
      <4>5. T[n - 1] = p
        BY <1>6, <4>2, <4>4
      <4>6. n - 1 \in 1..Len(queue') /\ n - 1 <= Len(T)
        BY <1>8, <1>9, <4>4
      <4> QED BY <1>9, <4>5, <4>6
    <3> QED BY <3>1, <3>2
  <2>7. state_address'[i][0] = 0
    <3>1. CASE queue[1] = 0 /\ Placed(i) = {} /\ size[i] = 0
      BY <1>4, <1>16, <3>1
    <3>2. CASE state_address[i][0] = 0
      <4>1. 0 \in Placed(i)
        <5>1. 0 \in States(i)
          BY DfaFacts
        <5> QED BY <3>2, <5>1 DEF Placed, NONE
      <4> QED BY <1>16, <3>2, <4>1
    <3> QED BY <2>0, <3>1, <3>2
  <2>8. dfa_no' = i
    BY <1>1, <1>i
  <2> QED BY <1>9, <1>10, <2>4, <2>5, <2>6, <2>7, <2>8 DEF QueueInv
<1>20. \A j \in Machines : j < i => AllPlaced(j)'
  <2> TAKE j \in Machines
  <2> HAVE j < i
  <2>1. j # i
    BY DfaFacts
  <2> QED BY <1>2, <1>10, <1>13, <1>15, <1>i, <2>1 DEF AllPlaced
<1>21. \A j \in Machines : j > i => Placed(j)' = {} /\ size'[j] = 0
  <2> TAKE j \in Machines
  <2> HAVE j > i
  <2>1. j # i
    BY DfaFacts
  <2> QED BY <1>2, <1>14, <1>15, <1>i, <2>1
<1>22. dfa_no' = i /\ Machines' = Machines
  BY <1>1, <1>10, <1>i
<1> QED BY <1>1, <1>17, <1>18, <1>19, <1>20, <1>21, <1>22 DEF LayoutInv

(* Along the default transitions of a state there is one with a labeled      *)
(* transition for a symbol, and it leads where the state leads.             *)
LEMMA LabeledAbove ==
  ASSUME HfaAssumption, hfa \in Hfas, NEW i \in Machines, NEW q \in States(i), NEW c \in Symbol
  PROVE  \E r \in States(i) : r <= q /\ c \in Labeled(i, r) /\ Next(i, r, c) = Next(i, q, c)
<1> DEFINE Found(p) == \E r \in States(i) : r <= p /\ c \in Labeled(i, r) /\ Next(i, r, c) = Next(i, p, c)
           S == {n \in Nat : \A p \in States(i) : p <= n => Found(p)}
<1>1. States(i) \subseteq Nat /\ Labeled(i, 0) = Symbol /\ 0 \in States(i)
  BY DfaFacts
<1>2. ASSUME NEW p \in States(i), \A r \in States(i) : r < p => Found(r)
      PROVE  Found(p)
  <2>1. CASE c \in Labeled(i, p)
    BY <1>1, <2>1
  <2>2. CASE c \notin Labeled(i, p)
    <3> DEFINE t == Default(i, p)
    <3>1. t # NONE
      BY <2>2, DefaultFacts
    <3>2. t \in States(i) /\ t < p /\ Next(i, t, c) = Next(i, p, c)
      BY <2>2, <3>1, DefaultFacts
    <3> HIDE DEF t
    <3>3. PICK r \in States(i) : r <= t /\ c \in Labeled(i, r) /\ Next(i, r, c) = Next(i, t, c)
      BY <1>2, <3>2
    <3>4. r <= p
      BY <1>1, <3>2, <3>3
    <3> QED BY <3>2, <3>3, <3>4
  <2> QED BY <2>1, <2>2
<1> HIDE DEF Found
<1>3. 0 \in S
  <2>1. \A p \in States(i) : p <= 0 => Found(p)
    BY <1>1, <1>2
  <2> QED BY <2>1
<1>4. ASSUME NEW n \in Nat, n \in S PROVE n + 1 \in S
  <2>1. ASSUME NEW p \in States(i), p <= n + 1 PROVE Found(p)
    <3>1. \A r \in States(i) : r < p => r <= n
      BY <1>1, <2>1
    <3> QED BY <1>2, <1>4, <3>1
  <2> QED BY <2>1
<1> HIDE DEF S
<1>5. \A n \in Nat : n \in S
  BY <1>3, <1>4, Inductive
<1>6. q \in S /\ q <= q
  BY <1>1, <1>5
<1>7. Found(q)
  BY <1>6 DEF S
<1> QED BY <1>7 DEF Found

(* When the queue is empty every state has an address: the transition that   *)
(* discovers a state is a labeled one of a state that comes before it.     *)
LEMMA AllStatesPlaced ==
  ASSUME HfaAssumption, hfa \in Hfas, NEW i \in Machines, i = dfa_no, MarkingInv, QueueInv, queue = <<>>
  PROVE  AllPlaced(i)
<1>1. marking \subseteq Placed(i)
  <2>1. 1..Len(queue) = {}
    <3>1. Len(queue) = 0
      OBVIOUS
    <3> QED BY <3>1
  <2>2. \A q \in marking \ Placed(i) : \E n \in 1..Len(queue) : queue[n] = q
    BY DEF QueueInv
  <2> QED BY <2>1, <2>2
<1>2. 0 \in Placed(i) /\ Placed(i) \subseteq States(i) /\ \A p \in Placed(i) : \A c \in Labeled(i, p) : Next(i, p, c) \in Placed(i)
  BY <1>1 DEF MarkingInv, Placed
<1>3. States(i) \subseteq Nat /\ \A q \in States(i) \ {0} : \E p \in 0..q-1, c \in Symbol : Next(i, p, c) = q
  BY DfaFacts
<1>4. States(i) = 0..hfa.dfas[i].size-1 /\ hfa.dfas[i].size \in Nat
  BY DfaFacts
<1> DEFINE T == {n \in Nat : \A q \in 0..n : q \in States(i) => q \in Placed(i)}
<1>5. 0 \in T
  BY <1>2
<1>6. ASSUME NEW n \in Nat, n \in T PROVE n + 1 \in T
  <2> SUFFICES ASSUME n + 1 \in States(i) PROVE n + 1 \in Placed(i)
    BY <1>6
  <2>1. PICK p \in 0..(n+1)-1, c \in Symbol : Next(i, p, c) = n + 1
    BY <1>3
  <2>2. p \in States(i) /\ p \in 0..n
    BY <1>4, <2>1
  <2>3. PICK r \in States(i) : r <= p /\ c \in Labeled(i, r) /\ Next(i, r, c) = Next(i, p, c)
    BY <2>2, LabeledAbove
  <2>4. r \in 0..n
    BY <1>3, <2>2, <2>3
  <2>5. r \in Placed(i)
    BY <1>6, <2>3, <2>4
  <2> QED BY <1>2, <2>1, <2>3, <2>5
<1> HIDE DEF T
<1>7. \A n \in Nat : n \in T
  BY <1>5, <1>6, Inductive
<1>8. \A q \in States(i) : q \in Placed(i)
  <2> TAKE q \in States(i)
  <2>1. q \in Nat /\ q \in 0..q
    BY <1>3
  <2> QED BY <1>7, <2>1 DEF T
<1>9. state_address[i][0] = 0
  BY <1>2 DEF QueueInv
<1> QED BY <1>2, <1>8, <1>9 DEF AllPlaced

LEMMA LayoutUnchanged ==
  ASSUME UNCHANGED <<hfa, state_address, size>>
  PROVE  /\ \A i : Placed(i)' = Placed(i) /\ (AllPlaced(i)' <=> AllPlaced(i))
         /\ AddressInv' <=> AddressInv
<1>1. /\ Machines' = Machines
      /\ \A j : States(j)' = States(j)
      /\ \A j, p : Extent(j, p)' = Extent(j, p)
  BY AutomatonUnchanged
<1>2. \A i : Placed(i)' = Placed(i)
  BY <1>1 DEF Placed, NONE
<1>3. \A i : AllPlaced(i)' <=> AllPlaced(i)
  BY <1>1, <1>2 DEF AllPlaced
<1>4. \A i, p, q : Apart(i, p, q)' <=> Apart(i, p, q)
  BY <1>1 DEF Apart
<1>5. AddressInv' <=> AddressInv
  BY <1>1, <1>2, <1>4 DEF AddressInv, NONE
<1> QED BY <1>2, <1>3, <1>5

LEMMA LaidOutKeeps ==
  ASSUME HfaAssumption, hfa \in Hfas, LayoutInv, LaidOut, UNCHANGED hfa
  PROVE  LayoutInv'
<1>1. /\ stage = "layout" /\ queue = <<>> /\ UNCHANGED <<state_address, size>> /\ dfa_no \in Machines
      /\ queue' = <<0>> /\ marking' = {0}
  BY DEF LaidOut, LayoutInv
<1>2. /\ AddressInv /\ MarkingInv /\ QueueInv
      /\ \A i \in Machines : i < dfa_no => AllPlaced(i)
      /\ \A i \in Machines : i > dfa_no => Placed(i) = {} /\ size[i] = 0
  BY <1>1 DEF LayoutInv
<1>3. AllPlaced(dfa_no)
  BY <1>1, <1>2, AllStatesPlaced
<1>4. Machines = 0..hfa.tails /\ hfa.tails \in Nat /\ 0 \in Machines
  BY HfaFacts
<1>5. /\ \A i : Placed(i)' = Placed(i) /\ (AllPlaced(i)' <=> AllPlaced(i))
      /\ AddressInv'
  BY <1>1, <1>2, LayoutUnchanged
<1>6. /\ Machines' = Machines
      /\ \A j : States(j)' = States(j)
      /\ \A j, p : Labeled(j, p)' = Labeled(j, p)
      /\ \A j, p, c : Next(j, p, c)' = Next(j, p, c)
  BY AutomatonUnchanged
<1>7. CASE dfa_no + 1 \in Machines
  <2> DEFINE i == dfa_no + 1
  <2>1. dfa_no' = i /\ stage' = "layout"
    BY <1>1, <1>7 DEF LaidOut, NextDfa
  <2>2. i \in Machines /\ i > dfa_no /\ i \in Nat
    BY <1>1, <1>4, <1>7
  <2>3. \A j \in Machines : j < i => AllPlaced(j)
    <3> TAKE j \in Machines
    <3> HAVE j < i
    <3>1. j < dfa_no \/ j = dfa_no
      BY <1>1, <1>4
    <3> QED BY <1>2, <1>3, <3>1
  <2>4. \A j \in Machines : j > i => Placed(j) = {} /\ size[j] = 0
    <3> TAKE j \in Machines
    <3> HAVE j > i
    <3>1. j > dfa_no
      BY <1>1, <1>4
    <3> QED BY <1>2, <3>1
  <2>5. Placed(i) = {} /\ size[i] = 0
    BY <1>2, <2>2
  <2> HIDE DEF i
  <2>6. 0 \in States(i)
    BY <2>2, DfaFacts
  <2>7. MarkingInv'
    BY <1>1, <1>5, <1>6, <2>1, <2>5, <2>6 DEF MarkingInv
  <2>8. queue' \in Seq(States(i)) /\ Len(queue') = 1 /\ queue'[1] = 0 /\ 1..1 = {1}
    BY <1>1, <2>6
  <2>9. QueueInv'
    BY <1>1, <1>5, <1>6, <2>1, <2>5, <2>8 DEF QueueInv
  <2> QED BY <1>1, <1>5, <1>6, <2>1, <2>2, <2>3, <2>4, <2>7, <2>9 DEF LayoutInv
<1>8. CASE dfa_no + 1 \notin Machines
  <2>1. dfa_no' = 0 /\ stage' = "map"
    BY <1>1, <1>8 DEF LaidOut, NextDfa
  <2>2. \A j \in Machines : AllPlaced(j)
    <3> TAKE j \in Machines
    <3>1. j < dfa_no \/ j = dfa_no
      BY <1>1, <1>4, <1>8
    <3> QED BY <1>2, <1>3, <3>1
  <2> QED BY <1>4, <1>5, <1>6, <2>1, <2>2 DEF LayoutInv
<1> QED BY <1>7, <1>8

(* Nothing is laid out later. *)
LEMMA LayoutInvLater ==
  ASSUME LayoutInv, stage # "layout", stage' # "layout", dfa_no' \in Machines,
         UNCHANGED <<hfa, state_address, size>>
  PROVE  LayoutInv'
<1>1. /\ \A i : AllPlaced(i)' <=> AllPlaced(i)
      /\ AddressInv' <=> AddressInv
  BY LayoutUnchanged
<1>2. Machines' = Machines
  BY AutomatonUnchanged
<1> QED BY <1>1, <1>2 DEF LayoutInv

-----------------------------------------------------------------------------
(* The words.  The DFAs before dfa_no are written, of dfa_no the states below *)
(* row, and no other state lies on their words.                            *)
Start(i, q) == state_address[i][q] + Len(Tails(i, q))

Written(i, q) ==
  /\ \A n \in 0..Len(Tails(i, q))-1 :
       state_address[i][q] + n \in DOMAIN fa[i] /\ fa[i][state_address[i][q] + n] = TailWord(Tails(i, q)[n + 1])
  /\ \A n \in 0..Words(i, q)-1 :
       Start(i, q) + n \in DOMAIN fa[i] /\ fa[i][Start(i, q) + n] = TxWord(i, q, n)

MapInv ==
  /\ DOMAIN fa = Machines
  /\ stage = "layout" => row = 0
  /\ stage = "map" =>
       /\ row \in 0..hfa.dfas[dfa_no].size
       /\ \A i \in Machines : i < dfa_no => \A q \in States(i) : Written(i, q)
       /\ \A q \in 0..row-1 : Written(dfa_no, q)
  /\ stage = "traverse" => \A i \in Machines : \A q \in States(i) : Written(i, q)
  /\ Sound => stage # "undefined"

(* Where the states of a DFA are when it has been laid out. *)
LEMMA RegionFacts ==
  ASSUME HfaAssumption, hfa \in Hfas, LayoutInv, stage # "layout", NEW i \in Machines
  PROVE  /\ size[i] \in Nat /\ state_address[i][0] = 0
         /\ \A q \in States(i) :
              /\ state_address[i][q] \in Nat /\ state_address[i][q] + Extent(i, q) <= size[i]
              /\ Extent(i, q) = Words(i, q) + Len(Tails(i, q))
              /\ Words(i, q) \in Nat \ {0} /\ Len(Tails(i, q)) \in Nat
         /\ \A p, q \in States(i) : p # q => Apart(i, p, q)
<1>1. AllPlaced(i) /\ AddressInv
  BY DEF LayoutInv
<1>2. Placed(i) = States(i) /\ state_address[i][0] = 0
  BY <1>1 DEF AllPlaced
<1>3. \A q \in States(i) : state_address[i][q] # NONE
  BY <1>2 DEF Placed
<1>4. /\ size[i] \in Nat /\ state_address[i] \in [States(i) -> Nat \cup {NONE}]
      /\ \A p \in Placed(i) : state_address[i][p] + Extent(i, p) <= size[i]
      /\ \A p, q \in Placed(i) : p # q => Apart(i, p, q)
  BY <1>1 DEF AddressInv
<1>5. \A q \in States(i) : state_address[i][q] \in Nat
  BY <1>3, <1>4
<1>6. \A q \in States(i) : Words(i, q) \in Nat \ {0}
  BY WordsFacts
<1>7. \A q \in States(i) : Len(Tails(i, q)) \in Nat
  BY TailsFacts
<1>8. \A q \in States(i) : Extent(i, q) = Words(i, q) + Len(Tails(i, q))
  BY DEF Extent
<1> QED BY <1>2, <1>4, <1>5, <1>6, <1>7, <1>8

LEMMA WordsOfFacts ==
  ASSUME NEW i, NEW q, state_address[i][q] \in Nat, Words(i, q) \in Nat, Len(Tails(i, q)) \in Nat
  PROVE  /\ DOMAIN WordsOf(i, q) = state_address[i][q]..state_address[i][q] + Extent(i, q) - 1
         /\ \A n \in 0..Len(Tails(i, q))-1 :
              /\ state_address[i][q] + n \in DOMAIN WordsOf(i, q)
              /\ WordsOf(i, q)[state_address[i][q] + n] = TailWord(Tails(i, q)[n + 1])
         /\ \A n \in 0..Words(i, q)-1 :
              /\ Start(i, q) + n \in DOMAIN WordsOf(i, q)
              /\ WordsOf(i, q)[Start(i, q) + n] = TxWord(i, q, n)
<1> DEFINE f == state_address[i][q]
           b == Len(Tails(i, q))
           k == Words(i, q)
<1>1. /\ WordsOf(i, q) = [a \in f..f + b + k - 1 |->
                            IF a < f + b THEN TailWord(Tails(i, q)[a - f + 1]) ELSE TxWord(i, q, a - f - b)]
      /\ Start(i, q) = f + b /\ Extent(i, q) = k + b
      /\ f \in Nat /\ b \in Nat /\ k \in Nat
  BY DEF WordsOf, Start, Extent
<1> HIDE DEF f, b, k
<1>2. f..f + b + k - 1 = f..f + Extent(i, q) - 1
  BY <1>1
<1>3. ASSUME NEW n \in 0..b-1
      PROVE  /\ f + n \in f..f + b + k - 1
             /\ f + n < f + b /\ (f + n) - f + 1 = n + 1
  BY <1>1
<1>4. ASSUME NEW n \in 0..k-1
      PROVE  /\ f + b + n \in f..f + b + k - 1
             /\ ~(f + b + n < f + b) /\ (f + b + n) - f - b = n
  BY <1>1
<1>5. \A n \in 0..b-1 : f + n \in DOMAIN WordsOf(i, q) /\ WordsOf(i, q)[f + n] = TailWord(Tails(i, q)[n + 1])
  BY <1>1, <1>3
<1>6. \A n \in 0..k-1 : f + b + n \in DOMAIN WordsOf(i, q) /\ WordsOf(i, q)[f + b + n] = TxWord(i, q, n)
  BY <1>1, <1>4
<1> QED BY <1>1, <1>2, <1>5, <1>6 DEF f, b, k

LEMMA WordsUnchanged ==
  ASSUME UNCHANGED <<hfa, state_address>>
  PROVE  /\ \A i, q, n : TxWord(i, q, n)' = TxWord(i, q, n)
         /\ \A i, q : Start(i, q)' = Start(i, q)
<1>1. /\ Symbol' = Symbol
      /\ \A i, q : /\ Labeled(i, q)' = Labeled(i, q) /\ Tx(i, q)' = Tx(i, q)
                   /\ IsCompressed(i, q)' = IsCompressed(i, q) /\ Default(i, q)' = Default(i, q)
                   /\ Tails(i, q)' = Tails(i, q)
                   /\ IsDead(i, q)' = IsDead(i, q) /\ Accepts(i, q)' = Accepts(i, q)
      /\ \A i, q, c : Next(i, q, c)' = Next(i, q, c)
  BY AutomatonUnchanged
<1>2. \A i, q : Flag(i, q)' = Flag(i, q)
  BY <1>1 DEF Flag
<1>3. \A i, q, c, l : Word(i, q, c, l)' = Word(i, q, c, l)
  BY <1>1, <1>2 DEF Word, NONE
<1>4. \A i, q : DefaultWord(i, q)' = DefaultWord(i, q)
  BY <1>1, <1>3 DEF DefaultWord
<1>5. \A i, q, n : LabeledWord(i, q, n)' = LabeledWord(i, q, n)
  BY <1>1, <1>3 DEF LabeledWord
<1>6. \A i, q, n : TxWord(i, q, n)' = TxWord(i, q, n)
  BY <1>1, <1>3, <1>4, <1>5 DEF TxWord
<1>7. \A i, q : Start(i, q)' = Start(i, q)
  BY <1>1 DEF Start
<1> QED BY <1>6, <1>7

LEMMA WrittenUnchanged ==
  ASSUME UNCHANGED <<hfa, state_address>>, NEW i, fa'[i] = fa[i]
  PROVE  \A q : Written(i, q)' <=> Written(i, q)
<1>1. /\ \A q : Tails(i, q)' = Tails(i, q) /\ Words(i, q)' = Words(i, q)
      /\ \A q, n : TxWord(i, q, n)' = TxWord(i, q, n)
      /\ \A q : Start(i, q)' = Start(i, q)
  BY AutomatonUnchanged, WordsUnchanged
<1>2. \A m : TailWord(m)' = TailWord(m)
  BY DEF TailWord
<1>3. state_address'[i] = state_address[i]
  OBVIOUS
<1> QED BY <1>1, <1>2, <1>3 DEF Written

(* One state is written. *)
LEMMA MapWrites ==
  ASSUME HfaAssumption, hfa \in Hfas, LayoutInv, DOMAIN fa = Machines, Map, UNCHANGED hfa,
         NEW i \in Machines, i = dfa_no, NEW r \in States(i), r = row
  PROVE  /\ DOMAIN fa' = Machines /\ \A j \in Machines : j # i => fa'[j] = fa[j]
         /\ Written(i, r)'
         /\ \A q \in States(i) : Written(i, q) => Written(i, q)'
<1>1. stage = "map" /\ UNCHANGED <<hfa, state_address>>
  BY DEF Map
<1> DEFINE w == WordsOf(i, r)
<1>2. fa' = [fa EXCEPT ![i] = [a \in DOMAIN w \cup DOMAIN fa[i] |-> IF a \in DOMAIN w THEN w[a] ELSE fa[i][a]]]
  BY DEF Map
<1> DEFINE g == fa'[i]
<1>3. /\ g = [a \in DOMAIN w \cup DOMAIN fa[i] |-> IF a \in DOMAIN w THEN w[a] ELSE fa[i][a]]
      /\ DOMAIN fa' = Machines /\ \A j \in Machines : j # i => fa'[j] = fa[j]
  BY <1>2
<1>4. /\ \A q \in States(i) :
           /\ state_address[i][q] \in Nat
           /\ Extent(i, q) = Words(i, q) + Len(Tails(i, q))
           /\ Words(i, q) \in Nat \ {0} /\ Len(Tails(i, q)) \in Nat
      /\ \A p, q \in States(i) : p # q => Apart(i, p, q)
  BY <1>1, RegionFacts
<1>5. /\ DOMAIN w = state_address[i][r]..state_address[i][r] + Extent(i, r) - 1
      /\ \A n \in 0..Len(Tails(i, r))-1 :
           /\ state_address[i][r] + n \in DOMAIN w
           /\ w[state_address[i][r] + n] = TailWord(Tails(i, r)[n + 1])
      /\ \A n \in 0..Words(i, r)-1 :
           Start(i, r) + n \in DOMAIN w /\ w[Start(i, r) + n] = TxWord(i, r, n)
  BY <1>2, <1>4, WordsOfFacts
<1> HIDE DEF w, g
<1>6. /\ \A q : Tails(i, q)' = Tails(i, q) /\ Words(i, q)' = Words(i, q)
      /\ \A q, n : TxWord(i, q, n)' = TxWord(i, q, n)
      /\ \A q : Start(i, q)' = Start(i, q)
  BY <1>1, AutomatonUnchanged, WordsUnchanged
<1>7. ASSUME NEW q,
             \A n \in 0..Len(Tails(i, q))-1 :
               state_address[i][q] + n \in DOMAIN g /\ g[state_address[i][q] + n] = TailWord(Tails(i, q)[n + 1]),
             \A n \in 0..Words(i, q)-1 : Start(i, q) + n \in DOMAIN g /\ g[Start(i, q) + n] = TxWord(i, q, n)
      PROVE  Written(i, q)'
  BY <1>1, <1>6, <1>7 DEF Written, g, TailWord
<1>8. Written(i, r)'
  <2>1. \A n \in 0..Len(Tails(i, r))-1 :
          /\ state_address[i][r] + n \in DOMAIN g
          /\ g[state_address[i][r] + n] = TailWord(Tails(i, r)[n + 1])
    BY <1>3, <1>5
  <2>2. \A n \in 0..Words(i, r)-1 : Start(i, r) + n \in DOMAIN g /\ g[Start(i, r) + n] = TxWord(i, r, n)
    BY <1>3, <1>5
  <2> QED BY <1>7, <2>1, <2>2
<1>9. ASSUME NEW q \in States(i), Written(i, q) PROVE Written(i, q)'
  <2>1. CASE q = r
    BY <1>8, <2>1
  <2>2. CASE q # r
    <3> DEFINE A == state_address[i][q]
               R == state_address[i][r]
               E == Extent(i, q)
               F == Extent(i, r)
               b == Len(Tails(i, q))
               k == Words(i, q)
    <3>1. A + E <= R \/ R + F <= A
      BY <1>2, <1>4, <2>2 DEF Apart
    <3>2. A \in Nat /\ R \in Nat /\ E = k + b /\ k \in Nat /\ b \in Nat /\ F \in Nat /\ Start(i, q) = A + b
      BY <1>2, <1>4 DEF Start
    <3>3. DOMAIN w = R..R + F - 1
      BY <1>5
    <3> HIDE DEF A, R, E, F, b, k
    <3>4. \A n \in 0..b-1 : A + n \notin DOMAIN w
      BY <3>1, <3>2, <3>3
    <3>5. \A n \in 0..k-1 : A + b + n \notin DOMAIN w
      BY <3>1, <3>2, <3>3
    <3>6. /\ \A n \in 0..b-1 : A + n \in DOMAIN fa[i] /\ fa[i][A + n] = TailWord(Tails(i, q)[n + 1])
          /\ \A n \in 0..k-1 : Start(i, q) + n \in DOMAIN fa[i] /\ fa[i][Start(i, q) + n] = TxWord(i, q, n)
      BY <1>9 DEF Written, A, b, k
    <3>7. \A n \in 0..b-1 : A + n \in DOMAIN g /\ g[A + n] = TailWord(Tails(i, q)[n + 1])
      BY <1>3, <3>4, <3>6
    <3>8. \A n \in 0..k-1 : Start(i, q) + n \in DOMAIN g /\ g[Start(i, q) + n] = TxWord(i, q, n)
      BY <1>3, <3>2, <3>5, <3>6
    <3> QED BY <1>7, <3>7, <3>8 DEF A, b, k
  <2> QED BY <2>1, <2>2
<1> QED BY <1>1, <1>3, <1>8, <1>9

LEMMA MapKeeps ==
  ASSUME HfaAssumption, hfa \in Hfas, LayoutInv, MapInv, Map, UNCHANGED hfa
  PROVE  MapInv'
<1>1. /\ stage = "map" /\ stage' = "map" /\ row \in States(dfa_no) /\ row' = row + 1
      /\ UNCHANGED <<hfa, state_address, dfa_no>> /\ dfa_no \in Machines
  BY DEF Map, LayoutInv
<1>2. /\ DOMAIN fa = Machines
      /\ \A i \in Machines : i < dfa_no => \A q \in States(i) : Written(i, q)
      /\ \A q \in 0..row-1 : Written(dfa_no, q)
  BY <1>1 DEF MapInv
<1>i. PICK n \in Machines : n = dfa_no
  BY <1>1
<1>r. PICK r \in States(n) : r = row
  BY <1>1, <1>i
<1>3. /\ DOMAIN fa' = Machines /\ \A j \in Machines : j # n => fa'[j] = fa[j]
      /\ Written(n, r)'
      /\ \A q \in States(n) : Written(n, q) => Written(n, q)'
  BY <1>2, <1>i, <1>r, MapWrites
<1>4. hfa.dfas[n].size \in Nat \ {0} /\ States(n) = 0..hfa.dfas[n].size-1
  BY DfaFacts
<1>5. /\ row' \in 0..hfa.dfas[n].size
      /\ \A q \in 0..row'-1 : q = r \/ (q \in 0..row-1 /\ q \in States(n))
  BY <1>1, <1>4, <1>r
<1>6. \A q \in 0..row'-1 : Written(n, q)'
  BY <1>2, <1>3, <1>5, <1>i
<1>7. Machines' = Machines /\ \A i : States(i)' = States(i)
  BY AutomatonUnchanged
<1>8. \A i \in Machines : i < dfa_no => \A q \in States(i) : Written(i, q)'
  <2> TAKE i \in Machines
  <2> HAVE i < dfa_no
  <2>1. i # n
    BY <1>i, DfaFacts
  <2>2. fa'[i] = fa[i]
    BY <1>3, <2>1
  <2>3. \A q : Written(i, q)' <=> Written(i, q)
    BY <1>1, <2>2, WrittenUnchanged
  <2> QED BY <1>2, <2>3
<1>9. dfa_no' = n /\ dfa_no = n
  BY <1>1, <1>i
<1>10. \A q \in 0..row'-1 : Written(dfa_no, q)'
  BY <1>6, <1>9
<1> QED BY <1>1, <1>3, <1>5, <1>7, <1>8, <1>9, <1>10 DEF MapInv

LEMMA MapInvInit ==
  ASSUME HfaImageInit
  PROVE  MapInv
BY DEF HfaImageInit, MapInv

LEMMA MapInvUnchanged ==
  ASSUME UNCHANGED <<hfa, state_address, fa>>
  PROVE  \A i, q : Written(i, q)' <=> Written(i, q)
BY WrittenUnchanged

LEMMA SoundUnchanged ==
  ASSUME UNCHANGED <<hfa, size>>
  PROVE  Sound' <=> Sound
<1>1. /\ Symbol' = Symbol /\ Machines' = Machines
      /\ \A i : States(i)' = States(i)
      /\ \A i, q : IsCompressed(i, q)' = IsCompressed(i, q)
      /\ \A i, q, c : Next(i, q, c)' = Next(i, q, c)
  BY AutomatonUnchanged
<1>2. \A i : DeadNumberRight(i)' <=> DeadNumberRight(i)
  BY <1>1, AutomatonUnchanged DEF DeadNumberRight
<1> QED BY <1>1, <1>2 DEF Sound

LEMMA MapInvLayout ==
  ASSUME HfaAssumption, hfa \in Hfas, LayoutInv, MapInv, Layout \/ LaidOut, UNCHANGED hfa
  PROVE  MapInv'
<1>1. stage = "layout" /\ UNCHANGED <<fa, row>> /\ stage' \in {"layout", "map"}
  BY DEF Layout, LaidOut, NextDfa
<1>2. row = 0 /\ DOMAIN fa = Machines
  BY <1>1 DEF MapInv
<1>3. Machines' = Machines /\ Machines \subseteq Nat /\ 0 \in Machines
  BY HfaFacts, AutomatonUnchanged
<1>4. hfa.dfas[0].size \in Nat
  BY <1>3, DfaFacts
<1>5. stage' = "map" => dfa_no' = 0
  BY <1>1 DEF Layout, LaidOut, NextDfa
<1>6. 0..row'-1 = {} /\ (stage' = "map" => row' \in 0..hfa.dfas[dfa_no'].size) /\ \A i \in Machines : ~(i < 0)
  BY <1>1, <1>2, <1>3, <1>4, <1>5
<1>7. stage' # "traverse" /\ stage' # "undefined"
  BY <1>1
<1> QED BY <1>1, <1>2, <1>3, <1>5, <1>6, <1>7 DEF MapInv

(* A state that is stored with its labeled transitions has a default one. *)
LEMMA NoUndefinedRow ==
  ASSUME HfaAssumption, hfa \in Hfas, LayoutInv, MapUndefined
  PROVE  ~Sound
<1>1. dfa_no \in Machines /\ row \in States(dfa_no) /\ IsCompressed(dfa_no, row) /\ Default(dfa_no, row) = NONE
  BY DEF MapUndefined, NoDefault, LayoutInv
<1>2. Labeled(dfa_no, row) = Symbol
  BY <1>1, DefaultFacts
<1> QED BY <1>1, <1>2, WordsFacts DEF Sound

LEMMA MapInvMapped ==
  ASSUME HfaAssumption, hfa \in Hfas, LayoutInv, MapInv, Mapped, UNCHANGED hfa
  PROVE  MapInv'
<1>1. /\ stage = "map" /\ row \notin States(dfa_no) /\ row' = 0 /\ dfa_no \in Machines
      /\ UNCHANGED <<state_address, fa>>
  BY DEF Mapped, LayoutInv
<1>2. /\ DOMAIN fa = Machines
      /\ row \in 0..hfa.dfas[dfa_no].size
      /\ \A i \in Machines : i < dfa_no => \A q \in States(i) : Written(i, q)
      /\ \A q \in 0..row-1 : Written(dfa_no, q)
  BY <1>1 DEF MapInv
<1>3. hfa.dfas[dfa_no].size \in Nat \ {0} /\ States(dfa_no) = 0..hfa.dfas[dfa_no].size-1
  BY <1>1, DfaFacts
<1>4. \A q \in States(dfa_no) : Written(dfa_no, q)
  BY <1>1, <1>2, <1>3
<1>5. Machines = 0..hfa.tails /\ hfa.tails \in Nat
  BY HfaFacts
<1>6. /\ \A i, q : Written(i, q)' <=> Written(i, q)
      /\ Machines' = Machines /\ \A i : States(i)' = States(i)
  BY <1>1, AutomatonUnchanged, MapInvUnchanged
<1>7. 0..row'-1 = {}
  BY <1>1
<1>8. CASE dfa_no + 1 \in Machines
  <2>1. dfa_no' = dfa_no + 1 /\ stage' = "map"
    BY <1>1, <1>8 DEF Mapped, NextDfa
  <2>2. ASSUME NEW i \in Machines, i < dfa_no + 1, NEW q \in States(i) PROVE Written(i, q)
    <3>1. i < dfa_no \/ i = dfa_no
      BY <1>1, <1>5, <2>2
    <3> QED BY <1>2, <1>4, <2>2, <3>1
  <2>3. row' \in 0..hfa.dfas[dfa_no'].size
    <3>1. hfa.dfas[dfa_no + 1].size \in Nat
      BY <1>8, DfaFacts
    <3> QED BY <1>1, <2>1, <3>1
  <2> QED BY <1>1, <1>2, <1>6, <1>7, <2>1, <2>2, <2>3 DEF MapInv
<1>9. CASE dfa_no + 1 \notin Machines
  <2>1. stage' = "traverse"
    BY <1>1, <1>9 DEF Mapped, NextDfa
  <2>2. ASSUME NEW i \in Machines, NEW q \in States(i) PROVE Written(i, q)
    <3>1. i < dfa_no \/ i = dfa_no
      BY <1>1, <1>5, <1>9
    <3> QED BY <1>2, <1>4, <2>2, <3>1
  <2> QED BY <1>1, <1>2, <1>6, <2>1, <2>2 DEF MapInv
<1> QED BY <1>8, <1>9

LEMMA MapInvLater ==
  ASSUME MapInv, UNCHANGED <<hfa, dfa_no, state_address, size, fa, row>>,
         stage' = stage \/ (stage' = "undefined" /\ ~Sound)
  PROVE  MapInv'
<1>1. /\ \A i, q : Written(i, q)' <=> Written(i, q)
      /\ Machines' = Machines /\ \A i : States(i)' = States(i)
      /\ Sound' <=> Sound
  BY AutomatonUnchanged, MapInvUnchanged, SoundUnchanged
<1> QED BY <1>1 DEF MapInv

-----------------------------------------------------------------------------
(* The traversal.  Between two characters a DFA is settled: it is at the     *)
(* words of the state it is in, or is not active.  Within one the DFAs      *)
(* before turn are settled again; the others are at the words of a state    *)
(* that the character leads to where it has led theirs.                    *)
Settled(i) ==
  IF dfa_state[i] = NONE THEN state[i] = NONE /\ ~compressed[i]
  ELSE /\ state[i] = state_address[i][dfa_state[i]] /\ ~IsDead(i, dfa_state[i])
       /\ compressed[i] = IsCompressed(i, dfa_state[i])

BorderRight == border <=> hfa.border[dfa_state[0]] # <<>>

Reaches(i, p) ==
  /\ dfa_state[i] = IF IsDead(i, p) THEN NONE ELSE p
  /\ i \in entered <=> Accepts(i, p)

At(i, q) ==
  /\ state[i] = Start(i, q) /\ compressed[i] = IsCompressed(i, q)
  /\ IsDead(i, q) => ~IsCompressed(i, q)
  /\ Reaches(i, Next(i, q, char))

Pending(i) ==
  /\ i \notin matches
  /\ IF state[i] = NONE THEN dfa_state[i] = NONE /\ i \notin entered /\ ~compressed[i]
     ELSE \E q \in States(i) : At(i, q)

WalkType ==
  /\ state \in [Machines -> Int] /\ compressed \in [Machines -> BOOLEAN] /\ border \in BOOLEAN
  /\ DOMAIN dfa_state = Machines /\ dfa_state[0] \in States(0)
  /\ \A i \in Machines : dfa_state[i] \in States(i) \cup {NONE}
  /\ matches \subseteq Machines /\ entered \subseteq Machines

AtRest ==
  /\ state = AtStart /\ dfa_state = AtStart /\ compressed = [i \in Machines |-> FALSE] /\ border = FALSE
  /\ char = NONE /\ matches = {} /\ entered = {}

BetweenChars == BorderRight /\ matches = entered /\ \A i \in Machines : Settled(i)

WithinChar ==
  /\ char \in Symbol /\ turn \in Nat
  /\ turn > 0 => BorderRight
  /\ \A i \in Machines : i < turn => Settled(i) /\ (i \in matches <=> i \in entered)
  /\ \A i \in Machines : i >= turn => Pending(i)

WalkInv ==
  /\ stage \in {"layout", "map"} => AtRest
  /\ stage = "traverse" /\ Sound => WalkType /\ IF char = NONE THEN BetweenChars ELSE WithinChar

HfaInv ==
  /\ hfa \in Hfas /\ stage \in {"layout", "map", "traverse", "undefined"}
  /\ LayoutInv /\ MapInv /\ WalkInv

(* What a word says in an image that is small enough. *)
LEMMA WordFields ==
  ASSUME HfaAssumption, hfa \in Hfas, LayoutInv, stage # "layout", Sound,
         NEW i \in Machines, NEW p \in States(i), NEW c, NEW l
  PROVE  LET w == Word(i, p, c, l) IN
           /\ w.tail = NONE /\ w.address = state_address[i][p] /\ w.compressed = IsCompressed(i, p)
           /\ w.match = Accepts(i, p) /\ w.flag = Flag(i, p) /\ w.symbol = c /\ w.last = l
<1>1. /\ state_address[i][p] \in Nat /\ state_address[i][p] + Extent(i, p) <= size[i] /\ size[i] \in Nat
      /\ Extent(i, p) \in Nat \ {0}
  BY RegionFacts, ExtentFacts
<1>2. size[i] <= AddressLimit /\ AddressLimit \in Nat \ {0}
  BY HfaFacts DEF Sound
<1>3. state_address[i][p] \in 0..AddressLimit-1
  BY <1>1, <1>2
<1>4. state_address[i][p] % AddressLimit = state_address[i][p]
  BY <1>2, <1>3
<1> QED BY <1>4 DEF Word

LEMMA DefaultWordFields ==
  ASSUME HfaAssumption, hfa \in Hfas, LayoutInv, stage # "layout", Sound,
         NEW i \in Machines, NEW q \in States(i), NEW t \in States(i), t = Default(i, q)
  PROVE  LET w == DefaultWord(i, q) IN
           /\ w.tail = NONE /\ w.address = Start(i, t) /\ w.compressed = IsCompressed(i, t)
           /\ ~w.match /\ w.flag = IsDead(i, t) /\ w.last = (Labeled(i, q) = {})
<1> DEFINE v == Word(i, t, 0, Labeled(i, q) = {})
<1>1. /\ v.tail = NONE /\ v.address = state_address[i][t] /\ v.compressed = IsCompressed(i, t)
      /\ v.last = (Labeled(i, q) = {})
  <2> DEFINE l == Labeled(i, q) = {}
  <2> HIDE DEF l
  <2>1. LET w == Word(i, t, 0, l) IN
          w.tail = NONE /\ w.address = state_address[i][t] /\ w.compressed = IsCompressed(i, t) /\ w.last = l
    BY WordFields
  <2> QED BY <2>1 DEF l
<1>2. v = [tail |-> v.tail, address |-> v.address, compressed |-> v.compressed, match |-> v.match, flag |-> v.flag,
           symbol |-> v.symbol, last |-> v.last]
  BY DEF Word
<1>3. DefaultWord(i, q) = [v EXCEPT !.address = @ + Len(Tails(i, t)), !.match = FALSE, !.flag = IsDead(i, t)]
  BY DEF DefaultWord
<1> HIDE DEF v
<1> QED BY <1>1, <1>2, <1>3 DEF Start

(* The words of a state, as the traversal reads them. *)
LEMMA WordRead ==
  ASSUME HfaAssumption, hfa \in Hfas, LayoutInv, MapInv, stage = "traverse",
         NEW i \in Machines, NEW q \in States(i), NEW n \in 0..Words(i, q)-1
  PROVE  /\ Start(i, q) + n \in DOMAIN fa[i] /\ fa[i][Start(i, q) + n] = TxWord(i, q, n)
         /\ Start(i, q) \in Nat /\ Start(i, q) + n < size[i] /\ size[i] \in Nat
<1>1. Written(i, q)
  BY DEF MapInv
<1>2. /\ state_address[i][q] \in Nat /\ state_address[i][q] + Extent(i, q) <= size[i] /\ size[i] \in Nat
      /\ Extent(i, q) = Words(i, q) + Len(Tails(i, q))
      /\ Words(i, q) \in Nat \ {0} /\ Len(Tails(i, q)) \in Nat
  BY RegionFacts
<1> QED BY <1>1, <1>2 DEF Written, Start

(* A state that is stored in full has a word for every symbol. *)
LEMMA FullWordRead ==
  ASSUME HfaAssumption, hfa \in Hfas, LayoutInv, MapInv, stage = "traverse",
         NEW i \in Machines, NEW q \in States(i), ~IsCompressed(i, q), NEW c \in Symbol
  PROVE  fa[i][Start(i, q) + c] = Word(i, Next(i, q, c), 0, FALSE) /\ Start(i, q) + c \in DOMAIN fa[i]
<1>1. c \in 0..Words(i, q)-1
  BY HfaFacts DEF Words
<1>2. TxWord(i, q, c) = Word(i, Next(i, q, c), 0, FALSE)
  BY DEF TxWord
<1> QED BY <1>1, <1>2, WordRead

(* The words of a state that is stored with its labeled transitions. *)
LEMMA CompressedWordsRead ==
  ASSUME HfaAssumption, hfa \in Hfas, LayoutInv, MapInv, stage = "traverse",
         NEW i \in Machines, NEW q \in States(i), IsCompressed(i, q)
  PROVE  /\ fa[i][Start(i, q)] = DefaultWord(i, q) /\ Start(i, q) \in DOMAIN fa[i]
         /\ \A n \in 1..Cardinality(Labeled(i, q)) :
              /\ fa[i][Start(i, q) + n] = LabeledWord(i, q, n) /\ Start(i, q) + n \in DOMAIN fa[i]
              /\ Start(i, q) + n \in Start(i, q) + 1..size[i]
         /\ Start(i, q) \in Nat /\ size[i] \in Nat
<1> DEFINE N == Cardinality(Labeled(i, q))
           S == Start(i, q)
<1>1. N \in Nat
  BY WordsFacts
<1>2. Words(i, q) = N + 1
  BY DEF Words
<1>3. /\ \A n \in 0..N : S + n \in DOMAIN fa[i] /\ fa[i][S + n] = TxWord(i, q, n) /\ S + n < size[i]
      /\ S \in Nat /\ size[i] \in Nat
  <2>1. 0..Words(i, q)-1 = 0..N /\ 0 \in 0..N
    BY <1>1, <1>2
  <2>2. \A n \in 0..Words(i, q)-1 :
          S + n \in DOMAIN fa[i] /\ fa[i][S + n] = TxWord(i, q, n) /\ S \in Nat /\ S + n < size[i] /\ size[i] \in Nat
    BY WordRead
  <2> QED BY <2>1, <2>2
<1>4. TxWord(i, q, 0) = DefaultWord(i, q) /\ \A n \in 1..N : TxWord(i, q, n) = LabeledWord(i, q, n)
  BY <1>1 DEF TxWord
<1> HIDE DEF N, S
<1>5. S + 0 = S /\ 0 \in 0..N /\ \A n \in 1..N : n \in 0..N /\ (S + n < size[i] => S + n \in S + 1..size[i])
  BY <1>1, <1>3
<1> QED BY <1>3, <1>4, <1>5 DEF N, S

LEMMA SearchEndIs ==
  ASSUME NEW b \in state[turn] + 1..size[turn], state[turn] \in Nat, size[turn] \in Nat,
         fa[turn][b].last \/ fa[turn][b].symbol = char,
         \A d \in state[turn] + 1..b - 1 : IsTx(turn, d) /\ ~fa[turn][d].last /\ fa[turn][d].symbol # char
  PROVE  SearchEnd = b
<1> DEFINE Ends(d) == ~IsTx(turn, d) \/ fa[turn][d].last \/ fa[turn][d].symbol = char
           First(d) == Ends(d) /\ \A e \in state[turn] + 1..d - 1 : ~Ends(e)
<1>1. SearchEnd = CHOOSE d \in state[turn] + 1..size[turn] : First(d)
  BY DEF SearchEnd
<1>2. Ends(b) /\ \A d \in state[turn] + 1..b - 1 : ~Ends(d)
  OBVIOUS
<1> HIDE DEF Ends
<1>3. First(b)
  BY <1>2
<1>4. \A d \in state[turn] + 1..size[turn] : First(d) => d = b
  <2> TAKE d \in state[turn] + 1..size[turn]
  <2> HAVE First(d)
  <2>1. d \in Int /\ b \in Int
    OBVIOUS
  <2>2. ~(d < b)
    <3> SUFFICES ASSUME d < b PROVE FALSE
      OBVIOUS
    <3>1. d \in state[turn] + 1..b - 1
      BY <2>1
    <3> QED BY <1>2, <3>1
  <2>3. ~(b < d)
    <3> SUFFICES ASSUME b < d PROVE FALSE
      OBVIOUS
    <3>1. b \in state[turn] + 1..d - 1
      BY <2>1
    <3> QED BY <1>2, <3>1
  <2> QED BY <2>1, <2>2, <2>3
<1> HIDE DEF First
<1> QED BY <1>1, <1>3, <1>4

(* At a state that is stored with its labeled transitions, and has one, the  *)
(* search ends at that for the character, or at the last one.              *)
LEMMA SearchFacts ==
  ASSUME HfaAssumption, hfa \in Hfas, LayoutInv, MapInv, stage = "traverse", Sound,
         NEW i \in Machines, i = turn, NEW q \in States(i), IsCompressed(i, q), state[i] = Start(i, q),
         NEW c \in Symbol, c = char
  PROVE  /\ IsTx(i, state[i]) /\ fa[i][state[i]] = DefaultWord(i, q)
         /\ fa[i][state[i]].last <=> Labeled(i, q) = {}
         /\ Labeled(i, q) # {} =>
              /\ IsTx(i, SearchEnd)
              /\ fa[i][SearchEnd].symbol = char <=> c \in Labeled(i, q)
              /\ c \in Labeled(i, q) => \E l : fa[i][SearchEnd] = Word(i, Next(i, q, c), c, l)
         /\ \E t \in States(i) : t = Default(i, q)
<1> DEFINE N == Cardinality(Labeled(i, q))
           S == Start(i, q)
           tx == Tx(i, q)
<1>1. /\ N \in Nat /\ Len(tx) = N
      /\ \A n \in 1..N : tx[n] \in Labeled(i, q)
      /\ \A m, n \in 1..N : m < n => tx[m] < tx[n]
      /\ \A k \in Labeled(i, q) : \E n \in 1..N : tx[n] = k
      /\ Labeled(i, q) = {} <=> N = 0
  BY WordsFacts
<1>2. /\ fa[i][S] = DefaultWord(i, q) /\ S \in DOMAIN fa[i]
      /\ \A n \in 1..N :
           /\ fa[i][S + n] = LabeledWord(i, q, n) /\ S + n \in DOMAIN fa[i]
           /\ S + n \in S + 1..size[i]
      /\ S \in Nat /\ size[i] \in Nat
  BY CompressedWordsRead
<1>3. Labeled(i, q) \subseteq Symbol /\ \A k \in Symbol : k \in Nat /\ Next(i, q, k) \in States(i)
  <2>1. Symbol \subseteq Nat
    BY HfaFacts
  <2> QED BY <2>1, DfaFacts
<1>4. Default(i, q) # NONE
  BY WordsFacts, DefaultFacts DEF Sound
<1>5. PICK t \in States(i) : t = Default(i, q)
  BY <1>4, DefaultFacts
<1>6. DefaultWord(i, q).tail = NONE /\ DefaultWord(i, q).last = (Labeled(i, q) = {})
  BY <1>5, DefaultWordFields
<1>7. ASSUME NEW n \in 1..N
      PROVE  /\ fa[i][S + n] = Word(i, Next(i, q, tx[n]), tx[n], n = N)
             /\ fa[i][S + n].symbol = tx[n] /\ fa[i][S + n].tail = NONE /\ fa[i][S + n].last = (n = N)
             /\ IsTx(i, S + n)
  <2> DEFINE p == Next(i, q, tx[n])
             k == tx[n]
             l == n = N
  <2>1. fa[i][S + n] = Word(i, p, k, l)
    BY <1>1, <1>2 DEF LabeledWord
  <2>2. p \in States(i)
    BY <1>1, <1>3
  <2> HIDE DEF p, k, l
  <2>3. Word(i, p, k, l).tail = NONE /\ Word(i, p, k, l).symbol = k /\ Word(i, p, k, l).last = l
    BY <2>2, WordFields
  <2>4. fa[i][S + n].tail = NONE /\ fa[i][S + n].symbol = k /\ fa[i][S + n].last = l
    BY <2>1, <2>3
  <2>5. IsTx(i, S + n)
    BY <1>2, <2>4 DEF IsTx
  <2> QED BY <2>1, <2>4, <2>5 DEF p, k, l
<1>8. IsTx(i, state[i]) /\ fa[i][state[i]] = DefaultWord(i, q) /\ (fa[i][state[i]].last <=> Labeled(i, q) = {})
  BY <1>2, <1>6 DEF IsTx
<1> HIDE DEF N, S, tx
<1>9. ASSUME NEW n \in 1..N, tx[n] = c \/ n = N, \A m \in 1..n-1 : tx[m] # c
      PROVE  SearchEnd = S + n
  <2> DEFINE b == S + n
  <2>1. b \in S + 1..size[i] /\ (fa[i][b].last \/ fa[i][b].symbol = char)
    BY <1>2, <1>7, <1>9
  <2>2. \A d \in S + 1..b - 1 : IsTx(i, d) /\ ~fa[i][d].last /\ fa[i][d].symbol # char
    <3> TAKE d \in S + 1..b - 1
    <3> DEFINE m == d - S
    <3>1. m \in 1..n-1 /\ m \in 1..N /\ d = S + m /\ m # N
      BY <1>1, <1>2
    <3> HIDE DEF m
    <3> QED BY <1>7, <1>9, <3>1
  <2> HIDE DEF b
  <2>3. state[turn] = S /\ S \in Nat /\ size[turn] \in Nat /\ i = turn
    BY <1>2 DEF S
  <2>4. /\ b \in state[turn] + 1..size[turn] /\ state[turn] \in Nat /\ size[turn] \in Nat
        /\ fa[turn][b].last \/ fa[turn][b].symbol = char
        /\ \A d \in state[turn] + 1..b - 1 : IsTx(turn, d) /\ ~fa[turn][d].last /\ fa[turn][d].symbol # char
    BY <2>1, <2>2, <2>3
  <2>5. SearchEnd = b
    BY <2>4, SearchEndIs
  <2> QED BY <2>5 DEF b
<1>10. ASSUME Labeled(i, q) # {}, c \in Labeled(i, q)
       PROVE  /\ IsTx(i, SearchEnd) /\ fa[i][SearchEnd].symbol = char
              /\ \E l : fa[i][SearchEnd] = Word(i, Next(i, q, c), c, l)
  <2>1. PICK n \in 1..N : tx[n] = c
    BY <1>1, <1>10
  <2>2. \A m \in 1..n-1 : tx[m] # c
    <3> TAKE m \in 1..n-1
    <3>1. m \in 1..N /\ m < n
      BY <1>1
    <3>2. tx[m] < c /\ tx[m] \in Nat /\ c \in Nat
      BY <1>1, <1>3, <2>1, <3>1
    <3> QED BY <3>2
  <2>3. SearchEnd = S + n
    BY <1>9, <2>1, <2>2
  <2>4. fa[i][S + n] = Word(i, Next(i, q, c), c, n = N)
    BY <1>7, <2>1
  <2> QED BY <1>7, <2>1, <2>3, <2>4
<1>11. ASSUME Labeled(i, q) # {}, c \notin Labeled(i, q)
       PROVE  IsTx(i, SearchEnd) /\ fa[i][SearchEnd].symbol # char
  <2>1. N \in 1..N /\ \A m \in 1..N-1 : m \in 1..N
    BY <1>1, <1>11
  <2>2. \A m \in 1..N : tx[m] # c
    BY <1>1, <1>11
  <2>3. SearchEnd = S + N
    BY <1>9, <2>1, <2>2
  <2> QED BY <1>7, <2>1, <2>2, <2>3
<1> QED BY <1>5, <1>8, <1>10, <1>11

-----------------------------------------------------------------------------
(* The steps of the traversal. *)
Walking == stage = "traverse" /\ Sound /\ LayoutInv /\ MapInv /\ WalkInv /\ hfa \in Hfas

LEMMA WithinCharFacts ==
  ASSUME HfaAssumption, Walking, Running
  PROVE  /\ WalkType /\ WithinChar /\ turn \in Machines /\ turn \in Nat /\ char \in Symbol
         /\ turn \notin matches
         /\ \E q \in States(turn) : At(turn, q)
<1>1. stage = "traverse" /\ Sound /\ char # NONE /\ turn \in Machines /\ state[turn] # NONE
  BY DEF Walking, Running
<1>2. WalkType /\ WithinChar
  BY <1>1 DEF Walking, WalkInv
<1>3. turn \in Nat /\ turn >= turn
  BY <1>1, <1>2 DEF WithinChar
<1>4. Pending(turn)
  BY <1>1, <1>2, <1>3 DEF WithinChar
<1> QED BY <1>1, <1>2, <1>3, <1>4 DEF Pending, WithinChar

(* What the invariant of the traversal says of a DFA does not change when    *)
(* the DFA is not the one that takes the step.                             *)
LEMMA OthersKeep ==
  ASSUME UNCHANGED <<hfa, state_address, char, dfa_state, entered>>, NEW i,
         state'[i] = state[i], compressed'[i] = compressed[i], i \in matches' <=> i \in matches
  PROVE  /\ Settled(i)' <=> Settled(i)
         /\ Pending(i)' <=> Pending(i)
<1>1. /\ \A q : /\ IsCompressed(i, q)' = IsCompressed(i, q) /\ IsDead(i, q)' = IsDead(i, q)
                /\ Start(i, q)' = Start(i, q) /\ Accepts(i, q)' = Accepts(i, q)
      /\ States(i)' = States(i)
      /\ \A q, c : Next(i, q, c)' = Next(i, q, c)
  BY AutomatonUnchanged, WordsUnchanged
<1>2. Settled(i)' <=> Settled(i)
  BY <1>1 DEF Settled, NONE
<1>3. \A p : Reaches(i, p)' <=> Reaches(i, p)
  BY <1>1 DEF Reaches, NONE
<1>4. \A q : At(i, q)' <=> At(i, q)
  <2> TAKE q
  <2>1. Next(i, q, char)' = Next(i, q, char)
    BY <1>1 DEF Next
  <2>2. Reaches(i, Next(i, q, char))' <=> Reaches(i, Next(i, q, char))
    BY <2>1, <1>1 DEF Reaches, NONE
  <2> QED BY <1>1, <2>2 DEF At
<1>5. Pending(i)' <=> Pending(i)
  BY <1>1, <1>4 DEF Pending, NONE
<1> QED BY <1>2, <1>5

(* After a DFA is done with the character the next one is to process it. *)
LEMMA TurnPasses ==
  ASSUME HfaAssumption, Walking, WalkType, WithinChar, NEW i \in Machines, i = turn,
         UNCHANGED <<hfa, stage, state_address, size, char, dfa_state, entered>>,
         turn' = turn + 1, WalkType',
         \A j \in Machines \ {i} : state'[j] = state[j] /\ compressed'[j] = compressed[j] /\ (j \in matches' <=> j \in matches),
         Settled(i)', i \in matches' <=> i \in entered,
         BorderRight'
  PROVE  WalkInv'
<1>0. hfa \in Hfas /\ turn \in Nat
  BY DEF Walking, WithinChar
<1>1. Machines' = Machines /\ Symbol' = Symbol /\ \A j \in Machines : j \in Nat
  BY <1>0, DfaFacts, AutomatonUnchanged
<1>2. char' \in Symbol /\ turn' \in Nat /\ turn' > 0 /\ char # NONE
  <2>1. Symbol = 0..hfa.alphabet-1
    BY DEF Symbol
  <2>2. \A k \in Symbol : k # NONE
    BY <2>1 DEF NONE
  <2>3. char \in Symbol
    BY DEF WithinChar
  <2> QED BY <1>0, <1>1, <2>2, <2>3
<1>3. ASSUME NEW j \in Machines, j < turn' PROVE Settled(j)' /\ (j \in matches' <=> j \in entered')
  <2>1. CASE j = i
    BY <2>1
  <2>2. CASE j # i
    <3>1. j < turn
      BY <1>0, <1>1, <1>3, <2>2
    <3>2. Settled(j) /\ (j \in matches <=> j \in entered)
      BY <3>1 DEF WithinChar
    <3> QED BY <2>2, <3>2, OthersKeep
  <2> QED BY <2>1, <2>2
<1>4. ASSUME NEW j \in Machines, j >= turn' PROVE Pending(j)'
  <2>1. j >= turn /\ j # i
    BY <1>0, <1>1, <1>4
  <2>2. Pending(j)
    BY <2>1 DEF WithinChar
  <2> QED BY <2>1, <2>2, OthersKeep
<1>5. WithinChar'
  BY <1>1, <1>2, <1>3, <1>4 DEF WithinChar
<1>6. char' # NONE /\ stage' = "traverse"
  BY <1>2 DEF Walking
<1> QED BY <1>5, <1>6 DEF WalkInv, NONE

(* A word that leads to where the character leads settles the DFA. *)
LEMMA ConsumeSettles ==
  ASSUME HfaAssumption, Walking, WalkType, WithinChar,
         NEW i \in Machines, i = turn, NEW p \in States(i), Reaches(i, p), i \notin matches,
         IsDead(i, p) => ~compressed[i],
         NEW c, NEW l, Consume(Word(i, p, c, l)),
         UNCHANGED <<hfa, stage, state_address, size, char, dfa_state, entered>>
  PROVE  WalkInv'
<1> DEFINE w == Word(i, p, c, l)
<1>1. /\ w.address = state_address[i][p] /\ w.compressed = IsCompressed(i, p)
      /\ w.match = Accepts(i, p) /\ w.flag = Flag(i, p)
  <2>1. LayoutInv /\ stage # "layout" /\ Sound /\ hfa \in Hfas
    BY DEF Walking
  <2> QED BY <2>1, WordFields
<1>2. /\ Goto(w) /\ matches' = (IF w.match THEN matches \cup {i} ELSE matches)
      /\ border' = (IF i = 0 THEN w.flag ELSE border) /\ turn' = turn + 1
  BY DEF Consume
<1> HIDE DEF w
<1>3. IF i # 0 /\ Flag(i, p)
      THEN state' = [state EXCEPT ![i] = NONE] /\ compressed' = compressed
      ELSE state' = [state EXCEPT ![i] = state_address[i][p]] /\ compressed' = [compressed EXCEPT ![i] = IsCompressed(i, p)]
  BY <1>1, <1>2 DEF Goto
<1>4. hfa \in Hfas /\ LayoutInv /\ stage # "layout"
  BY DEF Walking
<1>5. /\ i # 0 => (Flag(i, p) <=> IsDead(i, p))
      /\ i = 0 => (Flag(i, p) <=> hfa.border[p] # <<>>) /\ ~IsDead(i, p)
  <2>1. i # 0 => Tails(i, p) = <<>>
    BY <1>4, TailsFacts
  <2>2. i = 0 => Tails(i, p) = hfa.border[p]
    BY <1>4, TailsFacts
  <2> QED BY <2>1, <2>2 DEF Flag, IsDead
<1>6. /\ state \in [Machines -> Int] /\ compressed \in [Machines -> BOOLEAN] /\ border \in BOOLEAN
      /\ DOMAIN dfa_state = Machines /\ dfa_state[0] \in States(0)
      /\ \A j \in Machines : dfa_state[j] \in States(j) \cup {NONE}
      /\ matches \subseteq Machines /\ entered \subseteq Machines
  BY DEF WalkType
<1>7. /\ dfa_state[i] = IF IsDead(i, p) THEN NONE ELSE p
      /\ i \in entered <=> Accepts(i, p)
  BY DEF Reaches
<1>8. state_address[i][p] \in Int
  BY <1>4, RegionFacts
<1>9. IsCompressed(i, p) \in BOOLEAN /\ NONE \in Int /\ p # NONE
  BY <1>4, DfaFacts DEF IsCompressed, NONE
<1>10. /\ Machines' = Machines /\ \A j : States(j)' = States(j)
       /\ \A j, q : IsDead(j, q)' = IsDead(j, q) /\ IsCompressed(j, q)' = IsCompressed(j, q)
  BY AutomatonUnchanged
<1>11. /\ state' \in [Machines -> Int] /\ compressed' \in [Machines -> BOOLEAN]
       /\ \A j \in Machines \ {i} : state'[j] = state[j] /\ compressed'[j] = compressed[j]
  BY <1>3, <1>6, <1>8, <1>9
<1>12. /\ IsDead(i, p) => state'[i] = NONE /\ ~compressed'[i]
       /\ ~IsDead(i, p) => state'[i] = state_address[i][p] /\ compressed'[i] = IsCompressed(i, p)
  <2>1. CASE IsDead(i, p)
    <3>1. i # 0 /\ Flag(i, p)
      BY <1>5, <2>1
    <3> QED BY <1>3, <1>6, <2>1, <3>1
  <2>2. CASE ~IsDead(i, p)
    <3>1. ~(i # 0 /\ Flag(i, p))
      BY <1>5, <2>2
    <3> QED BY <1>3, <1>6, <2>2, <3>1
  <2> QED BY <2>1, <2>2
<1>13. Settled(i)'
  <2>1. CASE IsDead(i, p)
    BY <1>7, <1>12, <2>1 DEF Settled, NONE
  <2>2. CASE ~IsDead(i, p)
    <3>1. dfa_state[i] = p
      BY <1>7, <2>2
    <3>2. state'[i] = state_address'[i][dfa_state'[i]]
      BY <1>12, <2>2, <3>1
    <3>3. ~IsDead(i, dfa_state[i])' /\ IsCompressed(i, dfa_state[i])' = IsCompressed(i, p)
      BY <1>10, <2>2, <3>1
    <3>4. compressed'[i] = IsCompressed(i, dfa_state[i])'
      BY <1>12, <2>2, <3>3
    <3>5. dfa_state'[i] # NONE
      BY <1>9, <3>1
    <3> QED BY <3>2, <3>3, <3>4, <3>5 DEF Settled, NONE
  <2> QED BY <2>1, <2>2
<1>14. /\ i \in matches' <=> i \in entered
       /\ \A j \in Machines \ {i} : j \in matches' <=> j \in matches
       /\ matches' \subseteq Machines
  BY <1>1, <1>2, <1>6, <1>7
<1>15. border' \in BOOLEAN /\ BorderRight'
  <2>1. CASE i = 0
    <3>1. dfa_state[0] = p
      BY <1>5, <1>7, <2>1
    <3>2. border' = Flag(i, p)
      BY <1>1, <1>2, <2>1
    <3>3. Flag(i, p) \in BOOLEAN
      BY DEF Flag, IsDead
    <3> QED BY <1>5, <2>1, <3>1, <3>2, <3>3 DEF BorderRight
  <2>2. CASE i # 0
    <3>1. border' = border /\ turn > 0
      BY <1>2, <1>4, <2>2, DfaFacts
    <3>2. BorderRight
      BY <3>1 DEF WithinChar
    <3> QED BY <1>6, <3>1, <3>2 DEF BorderRight
  <2> QED BY <2>1, <2>2
<1>16. WalkType'
  BY <1>6, <1>10, <1>11, <1>14, <1>15 DEF WalkType, NONE
<1>17. i \in matches' <=> i \in entered
  BY <1>14
<1> QED BY <1>2, <1>11, <1>13, <1>14, <1>15, <1>16, <1>17, TurnPasses

LEMMA FullStepKeeps ==
  ASSUME HfaAssumption, Walking, FullStep,
         UNCHANGED <<hfa, stage, state_address, size, char, dfa_state, entered>>
  PROVE  WalkInv'
<1>1. Running /\ ~compressed[turn] /\ Consume(fa[turn][state[turn] + char])
  BY DEF FullStep
<1>2. /\ WalkType /\ WithinChar /\ turn \in Machines /\ char \in Symbol /\ turn \notin matches
      /\ \E q \in States(turn) : At(turn, q)
  BY <1>1, WithinCharFacts
<1>i. PICK i \in Machines : i = turn
  BY <1>2
<1>c. PICK c \in Symbol : c = char
  BY <1>2
<1>3. PICK q \in States(i) : At(i, q)
  BY <1>2, <1>i
<1>4. state[i] = Start(i, q) /\ ~IsCompressed(i, q) /\ Reaches(i, Next(i, q, c))
  BY <1>1, <1>3, <1>c, <1>i DEF At
<1>5. hfa \in Hfas /\ LayoutInv /\ MapInv /\ stage = "traverse"
  BY DEF Walking
<1>6. fa[i][Start(i, q) + c] = Word(i, Next(i, q, c), 0, FALSE)
  BY <1>4, <1>5, FullWordRead
<1>7. PICK p \in States(i) : p = Next(i, q, c)
  BY <1>5, DfaFacts
<1>8. Consume(Word(i, p, 0, FALSE)) /\ Reaches(i, p) /\ i \notin matches /\ ~compressed[i]
  BY <1>1, <1>2, <1>4, <1>6, <1>7, <1>c, <1>i
<1> QED BY <1>2, <1>8, <1>i, ConsumeSettles

(* A tail does not die in a state that is stored with its labeled           *)
(* transitions.                                                            *)
LEMMA DiesInFull ==
  ASSUME HfaAssumption, hfa \in Hfas, Sound, NEW i \in Machines, NEW q \in States(i), NEW c \in Symbol,
         IsCompressed(i, q), IsDead(i, q) => ~IsCompressed(i, q)
  PROVE  ~IsDead(i, Next(i, q, c))
<1>1. SUFFICES ASSUME IsDead(i, Next(i, q, c)) PROVE FALSE
  OBVIOUS
<1>2. i # 0 /\ Next(i, q, c) = hfa.dfas[i].dead_state
  BY <1>1 DEF IsDead
<1>3. q # hfa.dfas[i].dead_state
  BY <1>2 DEF IsDead
<1> QED BY <1>2, <1>3 DEF Sound

LEMMA LabeledStepKeeps ==
  ASSUME HfaAssumption, Walking, LabeledStep,
         UNCHANGED <<hfa, stage, state_address, size, char, dfa_state, entered>>
  PROVE  WalkInv'
<1>1. /\ Running /\ compressed[turn] /\ ~fa[turn][state[turn]].last /\ fa[turn][SearchEnd].symbol = char
      /\ Consume(fa[turn][SearchEnd])
  BY DEF LabeledStep
<1>2. /\ WalkType /\ WithinChar /\ turn \in Machines /\ char \in Symbol /\ turn \notin matches
      /\ \E q \in States(turn) : At(turn, q)
  BY <1>1, WithinCharFacts
<1>i. PICK i \in Machines : i = turn
  BY <1>2
<1>c. PICK c \in Symbol : c = char
  BY <1>2
<1>3. PICK q \in States(i) : At(i, q)
  BY <1>2, <1>i
<1>4. /\ state[i] = Start(i, q) /\ IsCompressed(i, q) /\ Reaches(i, Next(i, q, c))
      /\ IsDead(i, q) => ~IsCompressed(i, q)
  BY <1>1, <1>3, <1>c, <1>i DEF At
<1>5. hfa \in Hfas /\ LayoutInv /\ MapInv /\ stage = "traverse" /\ Sound
  BY DEF Walking
<1>6. /\ fa[i][state[i]].last <=> Labeled(i, q) = {}
      /\ Labeled(i, q) # {} =>
           /\ fa[i][SearchEnd].symbol = char <=> c \in Labeled(i, q)
           /\ c \in Labeled(i, q) => \E l : fa[i][SearchEnd] = Word(i, Next(i, q, c), c, l)
  BY <1>4, <1>5, <1>c, <1>i, SearchFacts
<1>7. PICK l : fa[i][SearchEnd] = Word(i, Next(i, q, c), c, l)
  BY <1>1, <1>6, <1>i
<1>8. PICK p \in States(i) : p = Next(i, q, c)
  BY <1>5, DfaFacts
<1>9. ~IsDead(i, p)
  BY <1>4, <1>5, <1>8, DiesInFull
<1>10. Consume(Word(i, p, c, l)) /\ Reaches(i, p) /\ i \notin matches
  BY <1>1, <1>2, <1>4, <1>7, <1>8, <1>i
<1> QED BY <1>2, <1>9, <1>10, <1>i, ConsumeSettles

(* Without a labeled transition for the character the DFA goes on to where  *)
(* the default transition leads, and the character is processed there.     *)
LEMMA DefaultStepKeeps ==
  ASSUME HfaAssumption, Walking, DefaultStep,
         UNCHANGED <<hfa, stage, state_address, size, char, dfa_state, entered>>
  PROVE  WalkInv'
<1>1. /\ Running /\ compressed[turn]
      /\ fa[turn][state[turn]].last \/ (IsTx(turn, SearchEnd) /\ fa[turn][SearchEnd].symbol # char)
      /\ Goto(fa[turn][state[turn]]) /\ UNCHANGED <<border, turn, matches>>
  BY DEF DefaultStep, Follow
<1>2. /\ WalkType /\ WithinChar /\ turn \in Machines /\ turn \in Nat /\ char \in Symbol /\ turn \notin matches
      /\ \E q \in States(turn) : At(turn, q)
  BY <1>1, WithinCharFacts
<1>i. PICK i \in Machines : i = turn
  BY <1>2
<1>c. PICK c \in Symbol : c = char
  BY <1>2
<1>3. PICK q \in States(i) : At(i, q)
  BY <1>2, <1>i
<1>4. /\ state[i] = Start(i, q) /\ IsCompressed(i, q) /\ Reaches(i, Next(i, q, c))
      /\ IsDead(i, q) => ~IsCompressed(i, q)
  BY <1>1, <1>3, <1>c, <1>i DEF At
<1>5. hfa \in Hfas /\ LayoutInv /\ MapInv /\ stage = "traverse" /\ stage # "layout" /\ Sound
  BY DEF Walking
<1>6. /\ fa[i][state[i]] = DefaultWord(i, q)
      /\ fa[i][state[i]].last <=> Labeled(i, q) = {}
      /\ Labeled(i, q) # {} => (fa[i][SearchEnd].symbol = char <=> c \in Labeled(i, q))
      /\ \E t \in States(i) : t = Default(i, q)
  BY <1>4, <1>5, <1>c, <1>i, SearchFacts
<1>7. c \notin Labeled(i, q)
  BY <1>1, <1>6, <1>i
<1>8. PICK t \in States(i) : t = Default(i, q)
  BY <1>6
<1>9. Next(i, t, c) = Next(i, q, c)
  <2>1. t # NONE
    BY <1>5, DfaFacts DEF NONE
  <2> QED BY <1>5, <1>7, <1>8, <2>1, DefaultFacts
<1>10. ~IsDead(i, t)
  <2> SUFFICES ASSUME IsDead(i, t) PROVE FALSE
    OBVIOUS
  <2>1. Next(i, t, c) = t
    BY <1>5, DeadFacts
  <2> QED BY <1>4, <1>5, <1>9, <2>1, DiesInFull
<1> DEFINE w == DefaultWord(i, q)
<1>11. w.address = Start(i, t) /\ w.compressed = IsCompressed(i, t) /\ ~w.flag
  BY <1>5, <1>8, <1>10, DefaultWordFields
<1>12. Goto(w)
  BY <1>1, <1>6, <1>i
<1> HIDE DEF w
<1>13. state' = [state EXCEPT ![i] = Start(i, t)] /\ compressed' = [compressed EXCEPT ![i] = IsCompressed(i, t)]
  BY <1>11, <1>12, <1>i DEF Goto
<1>14. /\ state \in [Machines -> Int] /\ compressed \in [Machines -> BOOLEAN]
       /\ Start(i, t) \in Nat /\ IsCompressed(i, t) \in BOOLEAN
  <2>1. state_address[i][t] \in Nat /\ Len(Tails(i, t)) \in Nat
    BY <1>5, RegionFacts
  <2>2. Start(i, t) \in Nat
    BY <2>1 DEF Start
  <2>3. IsCompressed(i, t) \in BOOLEAN
    BY DEF IsCompressed
  <2> QED BY <1>2, <2>2, <2>3 DEF WalkType
<1>15. /\ state' \in [Machines -> Int] /\ compressed' \in [Machines -> BOOLEAN]
       /\ state'[i] = Start(i, t) /\ compressed'[i] = IsCompressed(i, t)
       /\ \A j \in Machines \ {i} : state'[j] = state[j] /\ compressed'[j] = compressed[j]
  BY <1>13, <1>14
<1>16. /\ Machines' = Machines /\ Symbol' = Symbol /\ \A j : States(j)' = States(j)
       /\ \A j, p : /\ IsDead(j, p)' = IsDead(j, p) /\ IsCompressed(j, p)' = IsCompressed(j, p)
                    /\ Accepts(j, p)' = Accepts(j, p)
       /\ \A j, p : Start(j, p)' = Start(j, p)
       /\ \A j, p, d : Next(j, p, d)' = Next(j, p, d)
  BY AutomatonUnchanged, WordsUnchanged
<1>17. Pending(i)'
  <2>1. state'[i] # NONE
    BY <1>14, <1>15 DEF NONE
  <2>2. Next(i, t, char)' = Next(i, q, c)
    BY <1>9, <1>16, <1>c DEF Next
  <2>3. PICK p : p = Next(i, q, c)
    OBVIOUS
  <2>4. Reaches(i, p)
    BY <1>4, <2>3
  <2>5. Reaches(i, p)'
    BY <1>16, <2>4 DEF Reaches, NONE
  <2>6. Reaches(i, Next(i, t, char))'
    BY <2>2, <2>3, <2>5 DEF Reaches
  <2>7. At(i, t)'
    BY <1>10, <1>15, <1>16, <2>6 DEF At
  <2>8. t \in States(i)' /\ i \notin matches'
    BY <1>1, <1>2, <1>16, <1>i
  <2> QED BY <2>1, <2>7, <2>8 DEF Pending, NONE
<1>18. WalkType'
  BY <1>1, <1>2, <1>15, <1>16 DEF WalkType, NONE
<1>19. WithinChar'
  <2>1. \A j \in Machines : j < turn => Settled(j)' /\ (j \in matches' <=> j \in entered')
    <3> TAKE j \in Machines
    <3> HAVE j < turn
    <3>1. j # i
      BY <1>2, <1>i
    <3>2. Settled(j) /\ (j \in matches <=> j \in entered)
      BY <1>2 DEF WithinChar
    <3> QED BY <1>1, <1>15, <3>1, <3>2, OthersKeep
  <2>2. \A j \in Machines : j >= turn => Pending(j)'
    <3> TAKE j \in Machines
    <3> HAVE j >= turn
    <3>1. CASE j = i
      BY <1>17, <3>1
    <3>2. CASE j # i
      <4>1. Pending(j)
        BY <1>2 DEF WithinChar
      <4> QED BY <1>1, <1>15, <3>2, <4>1, OthersKeep
    <3> QED BY <3>1, <3>2
  <2>3. turn > 0 => BorderRight'
    BY <1>1, <1>2 DEF WithinChar, BorderRight
  <2> QED BY <1>1, <1>2, <1>16, <2>1, <2>2, <2>3 DEF WithinChar
<1>20. char' # NONE /\ stage' = "traverse"
  BY <1>1, <1>5 DEF Running
<1> QED BY <1>18, <1>19, <1>20 DEF WalkInv, NONE

LEMMA InactiveKeeps ==
  ASSUME HfaAssumption, Walking, Inactive,
         UNCHANGED <<hfa, stage, state_address, size, char, dfa_state, entered>>
  PROVE  WalkInv'
<1>1. /\ stage = "traverse" /\ char # NONE /\ turn \in Machines /\ state[turn] = NONE
      /\ turn' = turn + 1 /\ UNCHANGED <<state, compressed, border, matches>>
  BY DEF Inactive
<1>2. WalkType /\ WithinChar /\ hfa \in Hfas
  BY <1>1 DEF Walking, WalkInv
<1>i. PICK i \in Machines : i = turn
  BY <1>1
<1>3. i \in Nat /\ i >= turn
  BY <1>2, <1>i, DfaFacts
<1>4. Pending(i)
  BY <1>2, <1>3 DEF WithinChar
<1>5. dfa_state[i] = NONE /\ i \notin entered /\ ~compressed[i] /\ i \notin matches
  BY <1>1, <1>4, <1>i DEF Pending
<1>6. i # 0
  <2>1. dfa_state[0] \in States(0) /\ NONE \notin States(0)
    <3>1. 0 \in Machines
      BY <1>2, HfaFacts
    <3> QED BY <1>2, <3>1, DfaFacts DEF WalkType, NONE
  <2> QED BY <1>5, <2>1
<1>7. Settled(i)'
  BY <1>1, <1>5, <1>i DEF Settled, NONE
<1>8. BorderRight'
  <2>1. BorderRight
    BY <1>2, <1>3, <1>6, <1>i DEF WithinChar
  <2> QED BY <1>1, <2>1 DEF BorderRight
<1>9. WalkType'
  <2>1. Machines' = Machines /\ \A j : States(j)' = States(j)
    BY AutomatonUnchanged
  <2> QED BY <1>1, <1>2, <2>1 DEF WalkType, NONE
<1>10. i \in matches' <=> i \in entered
  BY <1>1, <1>5
<1>11. \A j \in Machines \ {i} : state'[j] = state[j] /\ compressed'[j] = compressed[j] /\ (j \in matches' <=> j \in matches)
  BY <1>1
<1> QED BY <1>1, <1>2, <1>7, <1>8, <1>9, <1>10, <1>11, <1>i, TurnPasses

LEMMA EndOfCharKeeps ==
  ASSUME HfaAssumption, Walking, EndOfChar,
         UNCHANGED <<hfa, stage, state_address, size, dfa_state, entered>>
  PROVE  WalkInv'
<1>1. /\ stage = "traverse" /\ char # NONE /\ turn \notin Machines
      /\ char' = NONE /\ UNCHANGED <<state, compressed, border, turn, matches>>
  BY DEF EndOfChar
<1>2. WalkType /\ WithinChar /\ hfa \in Hfas
  BY <1>1 DEF Walking, WalkInv
<1>3. Machines = 0..hfa.tails /\ hfa.tails \in Nat /\ turn \in Nat
  BY <1>2, HfaFacts DEF WithinChar
<1>4. turn > 0 /\ \A i \in Machines : i < turn
  BY <1>1, <1>3
<1>5. BorderRight /\ \A i \in Machines : Settled(i) /\ (i \in matches <=> i \in entered)
  BY <1>2, <1>4 DEF WithinChar
<1>6. matches \subseteq Machines /\ entered \subseteq Machines
  BY <1>2 DEF WalkType
<1>7. matches = entered
  BY <1>5, <1>6
<1>8. /\ Machines' = Machines /\ \A j : States(j)' = States(j)
      /\ \A j, p : IsDead(j, p)' = IsDead(j, p) /\ IsCompressed(j, p)' = IsCompressed(j, p)
  BY AutomatonUnchanged
<1>9. WalkType'
  BY <1>1, <1>2, <1>8 DEF WalkType, NONE
<1>10. \A i \in Machines : Settled(i)'
  <2> TAKE i \in Machines
  <2>1. Settled(i)
    BY <1>5
  <2> QED BY <1>1, <1>8, <2>1 DEF Settled, NONE
<1>11. BorderRight'
  BY <1>1, <1>5 DEF BorderRight
<1>12. BetweenChars'
  BY <1>1, <1>7, <1>8, <1>10, <1>11 DEF BetweenChars
<1>13. char' = NONE' /\ stage' = "traverse"
  BY <1>1 DEF NONE
<1> QED BY <1>9, <1>12, <1>13 DEF WalkInv

(* Every packet starts with the head alone, at the words of its state 0. *)
LEMMA StartIsSettled ==
  ASSUME HfaAssumption, hfa' \in Hfas, hfa' = hfa, LayoutInv', stage' = "traverse", Sound',
         state' = AtStart, dfa_state' = AtStart, compressed' = [i \in Machines |-> FALSE],
         border' = FALSE, char' = NONE, matches' = {}, entered' = {}
  PROVE  WalkInv'
<1>1. hfa \in Hfas /\ stage' # "layout"
  OBVIOUS
<1>2. Machines' = Machines /\ 0 \in Machines /\ hfa.border[0] = <<>> /\ Machines \subseteq Nat
  BY <1>1, AutomatonUnchanged, HfaFacts
<1>3. \A i : States(i)' = States(i)
  BY AutomatonUnchanged
<1>4. 0 \in States(0)
  BY <1>1, <1>2, DfaFacts
<1>5. /\ state'[0] = 0 /\ dfa_state'[0] = 0
      /\ \A i \in Machines : i # 0 => state'[i] = NONE /\ dfa_state'[i] = NONE
      /\ \A i \in Machines : ~compressed'[i]
  BY <1>2 DEF AtStart
<1>6. WalkType'
  <2>1. state' \in [Machines -> Int] /\ compressed' \in [Machines -> BOOLEAN] /\ DOMAIN dfa_state' = Machines
    BY DEF AtStart, NONE
  <2>2. \A i \in Machines : dfa_state'[i] \in States(i) \cup {NONE}
    BY <1>4, <1>5
  <2> QED BY <1>2, <1>3, <1>4, <1>5, <2>1, <2>2 DEF WalkType, NONE
<1>7. Settled(0)'
  <2>1. state_address'[0][0] = 0
    <3>1. AllPlaced(0)'
      BY <1>1, <1>2 DEF LayoutInv
    <3> QED BY <3>1 DEF AllPlaced
  <2>2. ~IsCompressed(0, 0)
    <3>1. Labeled(0, 0) = Symbol
      BY <1>1, <1>2, DfaFacts
    <3>2. hfa.alphabet > TX_THRESHOLD
      BY DEF Sound
    <3> QED BY <1>1, <1>2, <1>4, <3>1, <3>2, WordsFacts
  <2>3. ~IsCompressed(0, dfa_state[0])' /\ ~IsDead(0, dfa_state[0])'
    <3>1. \A q : IsCompressed(0, q)' = IsCompressed(0, q)
      BY AutomatonUnchanged
    <3>2. IsCompressed(0, dfa_state[0])' = IsCompressed(0, 0)
      BY <1>5, <3>1
    <3> QED BY <2>2, <3>2 DEF IsDead
  <2>4. IsCompressed(0, dfa_state[0])' \in BOOLEAN /\ compressed'[0] = FALSE
    BY <1>2 DEF IsCompressed
  <2>5. dfa_state'[0] # NONE
    BY <1>5 DEF NONE
  <2>6. compressed'[0] = IsCompressed(0, dfa_state[0])'
    BY <2>3, <2>4
  <2> QED BY <1>5, <2>1, <2>3, <2>5, <2>6 DEF Settled, NONE
<1>8. \A i \in Machines : i # 0 => Settled(i)'
  BY <1>5 DEF Settled, NONE
<1>9. BorderRight'
  BY <1>2, <1>5 DEF BorderRight
<1>10. BetweenChars'
  BY <1>2, <1>7, <1>8, <1>9 DEF BetweenChars
<1> QED BY <1>6, <1>10 DEF WalkInv, NONE

(* A head state with tails starts them with the next character. *)
StartsTail(i) == \E n \in DOMAIN hfa.border[dfa_state[0]] : hfa.border[dfa_state[0]][n] = i

LEMMA EnteredFacts ==
  ASSUME HfaAssumption, Walking, char = NONE, WalkType, BetweenChars
  PROVE  /\ border => IsTail(state[0])
         /\ Entered \in [Machines -> Int]
         /\ Entered[0] = Start(0, dfa_state[0])
         /\ \A i \in Machines \ {0} : Entered[i] = IF state[i] = NONE /\ StartsTail(i) THEN 0 ELSE state[i]
<1>1. hfa \in Hfas /\ LayoutInv /\ MapInv /\ stage = "traverse" /\ stage # "layout" /\ Sound
  BY DEF Walking
<1>2. 0 \in Machines /\ Machines \subseteq Nat
  BY <1>1, HfaFacts
<1>q. PICK q \in States(0) : q = dfa_state[0]
  BY DEF WalkType
<1>3. q # NONE
  BY <1>1, <1>2, DfaFacts DEF NONE
<1>4. state[0] = state_address[0][q]
  BY <1>2, <1>3, <1>q DEF BetweenChars, Settled
<1>5. /\ Tails(0, q) = hfa.border[q] /\ Tails(0, q) \in Seq(Machines \ {0}) /\ Len(Tails(0, q)) \in Nat
  BY <1>1, <1>2, TailsFacts
<1>6. Len(Tails(0, q)) <= 1
  BY <1>1, <1>5 DEF Sound
<1>7. state \in [Machines -> Int] /\ border \in BOOLEAN /\ (border <=> hfa.border[q] # <<>>)
  BY <1>q DEF WalkType, BetweenChars, BorderRight
<1>8. state_address[0][q] \in Nat /\ Start(0, q) = state_address[0][q] + Len(Tails(0, q))
  BY <1>1, <1>2, RegionFacts DEF Start
<1>9. CASE ~border
  <2>1. hfa.border[q] = <<>>
    BY <1>7, <1>9
  <2>2. Len(Tails(0, q)) = 0
    BY <1>5, <2>1
  <2>3. Start(0, q) = state_address[0][q]
    BY <1>8, <2>2
  <2>4. \A i : ~StartsTail(i)
    <3>1. DOMAIN hfa.border[dfa_state[0]] = {}
      BY <1>q, <2>1
    <3> QED BY <3>1 DEF StartsTail
  <2>5. Entered = state
    BY <1>9 DEF Entered
  <2> QED BY <1>4, <1>7, <1>9, <1>q, <2>3, <2>4, <2>5
<1>10. CASE border
  <2>1. hfa.border[q] # <<>>
    BY <1>7, <1>10
  <2>2. Len(Tails(0, q)) = 1
    <3> DEFINE n == Len(Tails(0, q))
    <3>1. n # 0
      BY <1>5, <2>1, EmptySeq
    <3>2. n \in Nat /\ n <= 1
      BY <1>5, <1>6
    <3> HIDE DEF n
    <3>3. n = 1
      BY <3>1, <3>2
    <3> QED BY <3>3 DEF n
  <2> DEFINE t == Tails(0, q)[1]
  <2>3. t \in Machines \ {0} /\ DOMAIN hfa.border[q] = {1} /\ hfa.border[q][1] = t
    BY <1>5, <2>2
  <2>4. state[0] \in DOMAIN fa[0] /\ fa[0][state[0]] = TailWord(t)
    <3>1. Written(0, q)
      BY <1>1, <1>2 DEF MapInv
    <3>2. 0 \in 0..Len(Tails(0, q))-1 /\ state_address[0][q] + 0 = state_address[0][q] /\ 0 + 1 = 1
      <4>1. 0 \in 0..1-1
        OBVIOUS
      <4>2. state_address[0][q] \in Nat
        BY <1>8
      <4>3. state_address[0][q] + 0 = state_address[0][q]
        BY <4>2
      <4> QED BY <2>2, <4>1, <4>3
    <3>3. state_address[0][q] + 0 \in DOMAIN fa[0] /\ fa[0][state_address[0][q] + 0] = TailWord(Tails(0, q)[0 + 1])
      BY <3>1, <3>2 DEF Written
    <3> QED BY <1>4, <3>2, <3>3
  <2> HIDE DEF t
  <2>5. fa[0][state[0]].tail = t
    BY <2>4 DEF TailWord
  <2>6. t # NONE /\ t # 0
    BY <1>2, <2>3 DEF NONE
  <2>7. IsTail(state[0])
    BY <2>4, <2>5, <2>6 DEF IsTail
  <2>8. Entered = [state EXCEPT ![t] = IF state[t] = NONE THEN 0 ELSE state[t], ![0] = state[0] + 1]
    BY <1>2, <1>7, <1>10, <2>3, <2>5 DEF Entered
  <2>9. /\ Entered \in [Machines -> Int] /\ Entered[0] = state[0] + 1
        /\ Entered[t] = (IF state[t] = NONE THEN 0 ELSE state[t])
        /\ \A i \in Machines \ {0} : i # t => Entered[i] = state[i]
    BY <1>2, <1>7, <2>3, <2>8
  <2>10. \A i : StartsTail(i) <=> i = t
    BY <1>q, <2>3 DEF StartsTail
  <2>11. Entered[0] = Start(0, q)
    BY <1>4, <1>8, <2>2, <2>9
  <2> QED BY <1>q, <2>7, <2>9, <2>10, <2>11
<1> QED BY <1>7, <1>9, <1>10

LEMMA NextCharKeeps ==
  ASSUME HfaAssumption, Walking, NEW c \in Symbol, NextChar(c), UNCHANGED <<hfa, state_address, size>>
  PROVE  WalkInv'
<1>1. /\ stage = "traverse" /\ char = NONE /\ char' = c /\ turn' = 0 /\ state' = Entered /\ matches' = {} /\ DfaSteps(c)
      /\ UNCHANGED <<stage, compressed, border>>
  BY DEF NextChar
<1>2. WalkType /\ BetweenChars /\ hfa \in Hfas /\ LayoutInv /\ Sound /\ stage # "layout"
  BY <1>1 DEF Walking, WalkInv
<1>3. /\ Entered \in [Machines -> Int]
      /\ Entered[0] = Start(0, dfa_state[0])
      /\ \A i \in Machines \ {0} : Entered[i] = IF state[i] = NONE /\ StartsTail(i) THEN 0 ELSE state[i]
  BY <1>1, <1>2, EnteredFacts
<1> DEFINE started == [i \in Machines |-> IF dfa_state[i] = NONE /\ StartsTail(i) THEN 0 ELSE dfa_state[i]]
           next == [i \in Machines |-> IF started[i] = NONE THEN NONE ELSE Next(i, started[i], c)]
<1>4. /\ dfa_state' = [i \in Machines |-> IF next[i] # NONE /\ IsDead(i, next[i]) THEN NONE ELSE next[i]]
      /\ entered' = {i \in Machines : next[i] # NONE /\ Accepts(i, next[i])}
  BY <1>1 DEF DfaSteps, StartsTail
<1>5. \A i \in Machines : started[i] = IF dfa_state[i] = NONE /\ StartsTail(i) THEN 0 ELSE dfa_state[i]
  OBVIOUS
<1> HIDE DEF started
<1>6. \A i \in Machines : next[i] = IF started[i] = NONE THEN NONE ELSE Next(i, started[i], c)
  OBVIOUS
<1> HIDE DEF next
<1>7. \A i \in Machines : dfa_state[i] \in States(i) \cup {NONE} /\ 0 \in States(i) /\ NONE \notin States(i)
  BY <1>2, DfaFacts DEF WalkType, NONE
<1>8. \A i \in Machines : \A q \in States(i) : Next(i, q, c) \in States(i)
  BY <1>2, DfaFacts
<1>9. \A i \in Machines : started[i] \in States(i) \cup {NONE} /\ next[i] \in States(i) \cup {NONE}
  BY <1>5, <1>6, <1>7, <1>8
<1>10. 0 \in Machines /\ Machines \subseteq Nat
  BY <1>2, HfaFacts
<1>11. dfa_state[0] \in States(0) /\ started[0] = dfa_state[0] /\ next[0] \in States(0)
  <2>1. dfa_state[0] \in States(0) /\ dfa_state[0] # NONE
    BY <1>2, <1>7, <1>10 DEF WalkType
  <2> QED BY <1>5, <1>6, <1>7, <1>8, <1>10, <2>1
<1>12. /\ Machines' = Machines /\ Symbol' = Symbol /\ \A j : States(j)' = States(j)
       /\ \A j, p : /\ IsDead(j, p)' = IsDead(j, p) /\ IsCompressed(j, p)' = IsCompressed(j, p)
                    /\ Accepts(j, p)' = Accepts(j, p)
       /\ \A j, p : Start(j, p)' = Start(j, p)
       /\ \A j, p, d : Next(j, p, d)' = Next(j, p, d)
  BY AutomatonUnchanged, WordsUnchanged
<1>13. WalkType'
  <2>1. DOMAIN dfa_state' = Machines /\ \A i \in Machines : dfa_state'[i] \in States(i) \cup {NONE}
    BY <1>4, <1>9
  <2>2. dfa_state'[0] \in States(0)
    BY <1>4, <1>10, <1>11 DEF IsDead
  <2>3. matches' \subseteq Machines /\ entered' \subseteq Machines
    BY <1>1, <1>4
  <2> QED BY <1>1, <1>2, <1>3, <1>12, <2>1, <2>2, <2>3 DEF WalkType, NONE
<1>14. ASSUME NEW i \in Machines, NEW q \in States(i), started[i] = q, state'[i] = Start(i, q),
              compressed[i] = IsCompressed(i, q), IsDead(i, q) => ~IsCompressed(i, q)
       PROVE  Pending(i)'
  <2>1. PICK p \in States(i) : p = Next(i, q, c)
    BY <1>8
  <2>2. next[i] = p /\ p # NONE
    BY <1>6, <1>7, <1>14, <2>1
  <2>3. /\ dfa_state'[i] = IF IsDead(i, p) THEN NONE ELSE p
        /\ i \in entered' <=> Accepts(i, p)
    BY <1>4, <2>2
  <2>4. Reaches(i, p)'
    BY <1>12, <2>3 DEF Reaches, NONE
  <2>5. Next(i, q, char)' = p
    BY <1>1, <1>12, <2>1 DEF Next
  <2>6. Reaches(i, Next(i, q, char))'
    BY <2>4, <2>5 DEF Reaches
  <2>7. At(i, q)'
    BY <1>1, <1>12, <1>14, <2>6 DEF At
  <2>8. state'[i] # NONE
    <3>1. state_address[i][q] \in Nat /\ Len(Tails(i, q)) \in Nat
      BY <1>2, RegionFacts
    <3> QED BY <1>14, <3>1 DEF Start, NONE
  <2>9. i \notin matches'
    BY <1>1
  <2> QED BY <1>12, <2>7, <2>8, <2>9 DEF Pending, NONE
<1>15. ASSUME NEW i \in Machines PROVE Pending(i)'
  <2>1. Settled(i)
    BY <1>2 DEF BetweenChars
  <2>2. CASE i = 0
    <3>1. PICK q \in States(i) : q = dfa_state[0]
      BY <1>11, <2>2
    <3>2. q # NONE
      BY <1>7
    <3>3. compressed[i] = IsCompressed(i, q) /\ ~IsDead(i, q)
      BY <2>1, <2>2, <3>1, <3>2 DEF Settled
    <3> QED BY <1>1, <1>3, <1>11, <1>14, <2>2, <3>1, <3>3
  <2>3. CASE i # 0 /\ dfa_state[i] # NONE
    <3>1. PICK q \in States(i) : q = dfa_state[i]
      BY <1>7, <2>3
    <3>2. state[i] = state_address[i][q] /\ ~IsDead(i, q) /\ compressed[i] = IsCompressed(i, q)
      BY <2>1, <2>3, <3>1 DEF Settled
    <3>3. state_address[i][q] \in Nat /\ Len(Tails(i, q)) = 0
      BY <1>2, <2>3, RegionFacts, TailsFacts
    <3>4. state[i] # NONE /\ Start(i, q) = state[i]
      BY <3>2, <3>3 DEF Start, NONE
    <3>5. state'[i] = Start(i, q) /\ started[i] = q
      BY <1>1, <1>3, <1>5, <2>3, <3>1, <3>4
    <3> QED BY <1>14, <3>2, <3>5
  <2>4. CASE i # 0 /\ dfa_state[i] = NONE /\ StartsTail(i)
    <3>1. state[i] = NONE /\ ~compressed[i]
      BY <2>1, <2>4 DEF Settled
    <3>2. state_address[i][0] = 0 /\ Len(Tails(i, 0)) = 0 /\ 0 \in States(i)
      BY <1>2, <1>7, <2>4, RegionFacts, TailsFacts
    <3>3. state'[i] = Start(i, 0) /\ started[i] = 0
      BY <1>1, <1>3, <1>5, <2>4, <3>1, <3>2 DEF Start
    <3>4. ~IsCompressed(i, 0)
      <4>1. Labeled(i, 0) = Symbol /\ hfa.alphabet > TX_THRESHOLD
        BY <1>2, DfaFacts DEF Sound
      <4> QED BY <1>2, <3>2, <4>1, WordsFacts
    <3>5. compressed[i] = IsCompressed(i, 0)
      <4>1. compressed[i] \in BOOLEAN /\ IsCompressed(i, 0) \in BOOLEAN
        BY <1>2 DEF WalkType, IsCompressed
      <4> QED BY <3>1, <3>4, <4>1
    <3> QED BY <1>14, <3>2, <3>3, <3>4, <3>5
  <2>5. CASE i # 0 /\ dfa_state[i] = NONE /\ ~StartsTail(i)
    <3>1. state[i] = NONE /\ ~compressed[i]
      BY <2>1, <2>5 DEF Settled
    <3>2. state'[i] = NONE /\ started[i] = NONE
      BY <1>1, <1>3, <1>5, <2>5, <3>1
    <3>3. next[i] = NONE
      BY <1>6, <3>2
    <3>4. dfa_state'[i] = NONE /\ i \notin entered' /\ i \notin matches' /\ ~compressed'[i]
      BY <1>1, <1>4, <3>1, <3>3
    <3> QED BY <3>2, <3>4 DEF Pending, NONE
  <2> QED BY <2>2, <2>3, <2>4, <2>5
<1>16. WithinChar'
  <2>1. char' \in Symbol /\ turn' \in Nat /\ ~(turn' > 0) /\ \A i \in Machines : ~(i < turn')
    BY <1>1, <1>10
  <2> QED BY <1>12, <1>15, <2>1 DEF WithinChar
<1>17. char' # NONE
  <2>1. Symbol = 0..hfa.alphabet-1
    BY DEF Symbol
  <2>2. c # NONE
    BY <2>1 DEF NONE
  <2> QED BY <1>1, <2>2
<1>18. stage' = "traverse"
  BY <1>1
<1> QED BY <1>13, <1>16, <1>17, <1>18 DEF WalkInv, NONE

(* No word is read as what it is not. *)
LEMMA NoReadUndefined ==
  ASSUME HfaAssumption, HfaInv, ReadUndefined
  PROVE  ~Sound
<1> SUFFICES ASSUME Sound PROVE FALSE
  OBVIOUS
<1>1. stage = "traverse"
  BY DEF ReadUndefined, Running
<1>2. Walking /\ WalkType /\ hfa \in Hfas /\ LayoutInv /\ MapInv
  BY <1>1 DEF HfaInv, Walking, WalkInv
<1>3. CASE char = NONE
  <2>1. BetweenChars
    BY <1>1, <1>3 DEF HfaInv, WalkInv
  <2>2. border => IsTail(state[0])
    BY <1>2, <1>3, <2>1, EnteredFacts
  <2> QED BY <1>3, <2>2 DEF ReadUndefined, Running
<1>4. CASE char # NONE
  <2>1. Running
    BY <1>4 DEF ReadUndefined
  <2>2. /\ turn \in Machines /\ char \in Symbol
        /\ \E q \in States(turn) : At(turn, q)
    BY <1>2, <2>1, WithinCharFacts
  <2>i. PICK i \in Machines : i = turn
    BY <2>2
  <2>c. PICK c \in Symbol : c = char
    BY <2>2
  <2>3. PICK q \in States(i) : At(i, q)
    BY <2>2, <2>i
  <2>4. state[i] = Start(i, q) /\ compressed[i] = IsCompressed(i, q)
    BY <2>3 DEF At
  <2>5. CASE ~compressed[i]
    <3>1. fa[i][Start(i, q) + c] = Word(i, Next(i, q, c), 0, FALSE) /\ Start(i, q) + c \in DOMAIN fa[i]
      BY <1>1, <1>2, <2>4, <2>5, FullWordRead
    <3>2. Word(i, Next(i, q, c), 0, FALSE).tail = NONE
      BY DEF Word
    <3>3. IsTx(i, state[i] + c)
      BY <2>4, <3>1, <3>2 DEF IsTx
    <3> QED BY <1>4, <2>5, <2>c, <2>i, <3>3 DEF ReadUndefined
  <2>6. CASE compressed[i]
    <3>1. /\ IsTx(i, state[i])
          /\ fa[i][state[i]].last <=> Labeled(i, q) = {}
          /\ Labeled(i, q) # {} => IsTx(i, SearchEnd)
      BY <1>1, <1>2, <2>4, <2>6, <2>c, <2>i, SearchFacts
    <3> QED BY <1>4, <2>6, <2>i, <3>1 DEF ReadUndefined
  <2> QED BY <2>5, <2>6
<1> QED BY <1>3, <1>4

-----------------------------------------------------------------------------
(* The invariant holds at the start, and every step keeps it. *)
LEMMA HfaInvInit ==
  ASSUME HfaAssumption, HfaImageInit
  PROVE  HfaInv
<1>1. hfa \in Hfas /\ stage = "layout"
  BY DEF HfaImageInit
<1>2. AtRest
  BY DEF HfaImageInit, AtRest
<1>3. WalkInv
  BY <1>1, <1>2 DEF WalkInv
<1> QED BY <1>1, <1>3, LayoutInvInit, MapInvInit DEF HfaInv

LEMMA BuildKeeps ==
  ASSUME HfaAssumption, HfaInv, Layout \/ LaidOut \/ Map \/ MapUndefined \/ Mapped, UNCHANGED <<hfa, walkVars>>
  PROVE  HfaInv'
<1>1. /\ hfa \in Hfas /\ LayoutInv /\ MapInv /\ WalkInv
      /\ stage \in {"layout", "map"} /\ stage' \in {"layout", "map", "traverse", "undefined"}
  BY DEF HfaInv, Layout, LaidOut, Map, MapUndefined, Mapped, NextDfa
<1>2. AtRest
  BY <1>1 DEF WalkInv
<1>3. UNCHANGED <<state, compressed, border, char, turn, matches, dfa_state, entered>>
  BY DEF walkVars
<1>4. Machines' = Machines
  BY AutomatonUnchanged
<1>5. AtRest'
  <2>1. AtStart' = AtStart
    BY <1>4 DEF AtStart, NONE
  <2> QED BY <1>2, <1>3, <1>4, <2>1 DEF AtRest, NONE
<1>6. LayoutInv'
  <2>1. CASE Layout
    BY <1>1, <2>1, LayoutKeeps
  <2>2. CASE LaidOut
    BY <1>1, <2>2, LaidOutKeeps
  <2>3. CASE Map \/ MapUndefined \/ Mapped
    <3>1. stage = "map" /\ UNCHANGED <<state_address, size>>
      BY <2>3 DEF Map, MapUndefined, Mapped, imageVars
    <3>2. stage' # "layout"
      BY <2>3, <3>1 DEF Map, MapUndefined, Mapped, NextDfa
    <3>3. dfa_no' \in Machines
      <4>1. dfa_no \in Machines /\ 0 \in Machines
        BY <1>1, HfaFacts DEF LayoutInv
      <4> QED BY <2>3, <4>1 DEF Map, MapUndefined, Mapped, NextDfa, imageVars
    <3> QED BY <1>1, <3>1, <3>2, <3>3, LayoutInvLater
  <2> QED BY <2>1, <2>2, <2>3
<1>7. MapInv'
  <2>1. CASE Layout \/ LaidOut
    BY <1>1, <2>1, MapInvLayout
  <2>2. CASE Map
    BY <1>1, <2>2, MapKeeps
  <2>3. CASE MapUndefined
    <3>1. ~Sound
      BY <1>1, <2>3, NoUndefinedRow
    <3>2. UNCHANGED <<dfa_no, state_address, size, fa, row>> /\ stage' = "undefined"
      BY <2>3 DEF MapUndefined, imageVars
    <3> QED BY <1>1, <3>1, <3>2, MapInvLater
  <2>4. CASE Mapped
    BY <1>1, <2>4, MapInvMapped
  <2> QED BY <2>1, <2>2, <2>3, <2>4
<1>8. WalkInv'
  <2>1. CASE stage' = "traverse" /\ Sound'
    <3>1. hfa' \in Hfas /\ hfa' = hfa
      BY <1>1
    <3>2. /\ state' = AtStart /\ dfa_state' = AtStart /\ compressed' = [i \in Machines |-> FALSE]
          /\ border' = FALSE /\ char' = NONE /\ matches' = {} /\ entered' = {}
      BY <1>2, <1>3 DEF AtRest
    <3> QED BY <1>6, <2>1, <3>1, <3>2, StartIsSettled
  <2>2. CASE ~(stage' = "traverse" /\ Sound')
    BY <1>5, <2>2 DEF WalkInv
  <2> QED BY <2>1, <2>2
<1> QED BY <1>1, <1>6, <1>7, <1>8 DEF HfaInv

LEMMA TraverseKeeps ==
  ASSUME HfaAssumption, HfaInv, Traverse, UNCHANGED <<hfa, imageVars>>
  PROVE  HfaInv'
<1>1. /\ hfa \in Hfas /\ LayoutInv /\ MapInv /\ WalkInv /\ stage = "traverse"
      /\ stage' = stage \/ (ReadUndefined /\ stage' = "undefined")
  BY DEF HfaInv, Traverse, NewPacket, NextChar, ReadUndefined, EndOfChar, Inactive, Running, FullStep, DefaultStep, LabeledStep
<1>2. UNCHANGED <<dfa_no, queue, marking, state_address, size, fa, row>>
  BY DEF imageVars
<1>3. stage' = stage \/ (stage' = "undefined" /\ ~Sound)
  BY <1>1, NoReadUndefined
<1>4. LayoutInv'
  <2>1. stage' # "layout" /\ dfa_no' \in Machines
    BY <1>1, <1>2 DEF LayoutInv
  <2> QED BY <1>1, <1>2, <2>1, LayoutInvLater
<1>5. MapInv'
  BY <1>1, <1>2, <1>3, MapInvLater
<1>6. WalkInv'
  <2>1. CASE stage' = "traverse" /\ Sound
    <3>1. Walking /\ stage' = stage /\ stage' # "undefined"
      BY <1>1, <2>1 DEF Walking
    <3>2. CASE NewPacket
      <4>1. hfa' \in Hfas /\ hfa' = hfa /\ Sound'
        BY <1>1, <1>2, <2>1, SoundUnchanged
      <4>2. /\ state' = AtStart /\ dfa_state' = AtStart /\ compressed' = [i \in Machines |-> FALSE]
            /\ border' = FALSE /\ char' = NONE /\ matches' = {} /\ entered' = {}
        BY <3>2 DEF NewPacket
      <4> QED BY <1>4, <2>1, <4>1, <4>2, StartIsSettled
    <3>3. CASE \E c \in Symbol : NextChar(c)
      <4>1. PICK c \in Symbol : NextChar(c)
        BY <3>3
      <4> QED BY <1>2, <3>1, <4>1, NextCharKeeps
    <3>4. CASE EndOfChar /\ UNCHANGED <<stage, dfa_state, entered>>
      BY <1>2, <3>1, <3>4, EndOfCharKeeps
    <3>5. CASE (FullStep \/ DefaultStep \/ LabeledStep \/ Inactive) /\ UNCHANGED <<stage, char, dfa_state, entered>>
      BY <1>2, <3>1, <3>5, FullStepKeeps, DefaultStepKeeps, LabeledStepKeeps, InactiveKeeps
    <3>6. CASE ReadUndefined
      BY <3>1, <3>6 DEF ReadUndefined
    <3> QED BY <3>2, <3>3, <3>4, <3>5, <3>6 DEF Traverse
  <2>2. CASE ~(stage' = "traverse" /\ Sound)
    <3>1. Sound' <=> Sound
      BY <1>2, SoundUnchanged
    <3>2. stage' \notin {"layout", "map"}
      BY <1>1
    <3> QED BY <2>2, <3>1, <3>2 DEF WalkInv
  <2> QED BY <2>1, <2>2
<1> QED BY <1>1, <1>4, <1>5, <1>6 DEF HfaInv

LEMMA HfaInvStutters ==
  ASSUME HfaInv, UNCHANGED hfaVars
  PROVE  HfaInv'
<1>1. /\ UNCHANGED <<hfa, stage, dfa_no, queue, marking, state_address, size, fa, row>>
      /\ UNCHANGED <<state, compressed, border, char, turn, matches, dfa_state, entered>>
  BY DEF hfaVars, imageVars, walkVars
<1>2. /\ Machines' = Machines /\ Symbol' = Symbol /\ \A j : States(j)' = States(j)
      /\ \A j, p : /\ IsDead(j, p)' = IsDead(j, p) /\ IsCompressed(j, p)' = IsCompressed(j, p)
                   /\ Accepts(j, p)' = Accepts(j, p) /\ Labeled(j, p)' = Labeled(j, p)
      /\ \A j, p, d : Next(j, p, d)' = Next(j, p, d)
  BY <1>1, AutomatonUnchanged
<1>3. LayoutInv'
  <2>1. /\ \A i : Placed(i)' = Placed(i) /\ (AllPlaced(i)' <=> AllPlaced(i))
        /\ AddressInv' <=> AddressInv
    BY <1>1, LayoutUnchanged
  <2>2. MarkingInv' <=> MarkingInv
    BY <1>1, <1>2, <2>1 DEF MarkingInv
  <2>3. QueueInv' <=> QueueInv
    BY <1>1, <1>2, <2>1 DEF QueueInv
  <2> QED BY <1>1, <1>2, <2>1, <2>2, <2>3 DEF LayoutInv, HfaInv
<1>4. MapInv'
  BY <1>1, MapInvLater DEF HfaInv
<1>5. \A i : (Settled(i)' <=> Settled(i)) /\ (Pending(i)' <=> Pending(i))
  BY <1>1, OthersKeep
<1>6. WalkInv'
  <2>1. AtStart' = AtStart
    BY <1>2 DEF AtStart, NONE
  <2>2. AtRest' <=> AtRest
    BY <1>1, <1>2, <2>1 DEF AtRest, NONE
  <2>3. WalkType' <=> WalkType
    BY <1>1, <1>2 DEF WalkType, NONE
  <2>4. BorderRight' <=> BorderRight
    BY <1>1 DEF BorderRight
  <2>5. BetweenChars' <=> BetweenChars
    BY <1>1, <1>2, <1>5, <2>4 DEF BetweenChars
  <2>6. WithinChar' <=> WithinChar
    BY <1>1, <1>2, <1>5, <2>4 DEF WithinChar
  <2>7. Sound' <=> Sound
    BY <1>1, SoundUnchanged
  <2> QED BY <1>1, <2>2, <2>3, <2>5, <2>6, <2>7 DEF WalkInv, NONE, HfaInv
<1> QED BY <1>1, <1>3, <1>4, <1>6 DEF HfaInv

LEMMA HfaInvKeeps ==
  ASSUME HfaAssumption, HfaInv, [HfaImageNext]_hfaVars
  PROVE  HfaInv'
BY BuildKeeps, TraverseKeeps, HfaInvStutters DEF HfaImageNext

LEMMA HfaInvRuns ==
  ASSUME HfaAssumption, HfaInv
  PROVE  RunsAsHybrid
<1> SUFFICES ASSUME Sound PROVE stage # "undefined" /\ (stage = "traverse" /\ char = NONE =>
         /\ matches = entered
         /\ \A i \in Machines : state[i] = (IF dfa_state[i] = NONE THEN NONE ELSE state_address[i][dfa_state[i]]))
  BY DEF RunsAsHybrid
<1>1. stage # "undefined"
  BY DEF HfaInv, MapInv
<1>2. ASSUME stage = "traverse", char = NONE
      PROVE  /\ matches = entered
             /\ \A i \in Machines : state[i] = IF dfa_state[i] = NONE THEN NONE ELSE state_address[i][dfa_state[i]]
  <2>1. BetweenChars
    BY <1>2 DEF HfaInv, WalkInv
  <2> QED BY <2>1 DEF BetweenChars, Settled
<1> QED BY <1>1, <1>2

(* memory::traverse_hfa on the image of memory.c: between two characters     *)
(* the DFAs that are active are those of the hybrid automaton, at the words *)
(* of the states they are in, the same ones have counted a match, and no    *)
(* word has been read as what it is not.                                   *)
THEOREM HybridImageRuns == HfaAssumption /\ HfaImageSpec => []RunsAsHybrid
<1>1. HfaAssumption /\ HfaImageInit => HfaInv
  BY HfaInvInit
<1>2. HfaAssumption /\ HfaInv /\ [HfaImageNext]_hfaVars => HfaInv'
  BY HfaInvKeeps
<1>3. HfaAssumption /\ HfaInv => RunsAsHybrid
  BY HfaInvRuns
<1>4. HfaAssumption => HfaAssumption'
  BY DEF HfaAssumption, CompressedDfa, NONE
<1> QED BY <1>1, <1>2, <1>3, <1>4, PTL DEF HfaImageSpec
=============================================================================
