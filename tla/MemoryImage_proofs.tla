-------------------------- MODULE MemoryImage_proofs --------------------------
(***************************************************************************)
(* Proofs from a DFA's table to the words in memory: the classes of the     *)
(* reduced alphabet are the columns of the table, following default         *)
(* transitions finds what the table holds, and the memory image runs as the *)
(* DFA does - its words are laid out apart, every state has its words, and  *)
(* a traversal of them is where the DFA is and reports its matches.  The    *)
(* image of an NFA is laid out in the same way, and its traversal keeps the *)
(* lists of the states that are active in the NFA.                         *)
(***************************************************************************)
EXTENDS MCMemoryImage, ArithmeticLemmas, SequenceTheorems

-----------------------------------------------------------------------------
(* The alphabet reduction.  The pairs of states that have been examined. *)
Done(q, p) == q < s \/ (q = s /\ p < t)

(* Symbols have the same class when they had it before and no pair that has *)
(* been examined tells them apart.                                         *)
ClassesInv ==
  \A c, d \in Symbol :
    alphabet_tx[c] = alphabet_tx[d] <=>
      /\ given[c] = given[d]
      /\ \A q, p \in StatesOf(dfa) :
           Done(q, p) => (dfa.state_table[q][c] = p <=> dfa.state_table[q][d] = p)

AlphabetTypeOK ==
  /\ dfa \in Dfas /\ given \in Alphabets
  /\ max_class \in Nat /\ alphabet_tx \in [Symbol -> 0..max_class]
  /\ \A k \in 0..max_class : \E c \in Symbol : alphabet_tx[c] = k
  /\ s \in 0..dfa.size /\ t \in StatesOf(dfa)
  /\ s = dfa.size => t = 0
  /\ stage # "reduce" => s = dfa.size

AlphabetInv == AlphabetTypeOK /\ ClassesInv

(* What the assumption says of the DFA. *)
LEMMA TableFacts ==
  ASSUME NEW d \in Dfas
  PROVE  /\ d.size \in Nat \ {0} /\ StatesOf(d) = 0..d.size-1 /\ 0 \in StatesOf(d)
         /\ d.state_table \in [StatesOf(d) -> [Symbol -> StatesOf(d)]]
         /\ Symbol = 0..CSize-1 /\ CSize \in Nat \ {0} /\ Symbol \in SUBSET Nat /\ Symbol \in SUBSET Int
         /\ 0 \in Symbol /\ IsFiniteSet(Symbol)
<1>1. /\ d.size \in Nat \ {0} /\ CSize \in Nat \ {0}
      /\ d.state_table \in [StatesOf(d) -> [Symbol -> StatesOf(d)]]
  BY AlphabetAssumption
<1>2. StatesOf(d) = 0..d.size-1 /\ Symbol = 0..CSize-1
  BY DEF StatesOf, Symbol
<1>3. IsFiniteSet(0..CSize-1)
  <2>1. 0 \in Int /\ CSize - 1 \in Int
    BY <1>1
  <2>2. \A a, b \in Int : IsFiniteSet(a..b)
    BY FS_Interval
  <2> QED BY <2>1, <2>2
<1>4. 0 \in 0..d.size-1 /\ 0 \in 0..CSize-1 /\ 0..CSize-1 \in SUBSET Nat /\ 0..CSize-1 \in SUBSET Int
  BY <1>1
<1> QED BY <1>1, <1>2, <1>3, <1>4

(* At first no pair has been examined. *)
LEMMA AlphabetInvInit == AlphabetInit => AlphabetInv
<1> SUFFICES ASSUME AlphabetInit PROVE AlphabetInv
  OBVIOUS
<1>1. /\ dfa \in Dfas /\ given \in Alphabets /\ stage = "reduce" /\ alphabet_tx = given
      /\ s = 0 /\ t = 0
  BY DEF AlphabetInit
<1>2. PICK m \in Symbol : given \in [Symbol -> 0..m] /\ \A k \in 0..m : \E c \in Symbol : given[c] = k
  BY <1>1, AlphabetAssumption DEF IsAlphabet
<1>3. PICK c \in Symbol : max_class = given[c] /\ \A d \in Symbol : given[d] <= given[c]
  BY DEF AlphabetInit
<1>4. dfa.size \in Nat \ {0} /\ StatesOf(dfa) = 0..dfa.size-1 /\ Symbol \in SUBSET Nat
  BY <1>1, TableFacts
<1>5. max_class = m
  <2>1. m \in Nat
    BY <1>2, <1>4
  <2>2. given[c] \in 0..m
    BY <1>2, <1>3
  <2>3. \E d \in Symbol : given[d] = m
    BY <1>2, <2>1
  <2> QED BY <1>3, <2>1, <2>2, <2>3
<1>6. AlphabetTypeOK
  BY <1>1, <1>2, <1>4, <1>5 DEF AlphabetTypeOK
<1>7. \A q, p \in StatesOf(dfa) : ~Done(q, p)
  BY <1>1, <1>4 DEF Done
<1>8. ClassesInv
  BY <1>1, <1>7 DEF ClassesInv
<1> QED BY <1>6, <1>8 DEF AlphabetInv

(* Every symbol that leaves a class has one leader, the first one of the    *)
(* class that does.                                                        *)
LEMMA LeaderFacts ==
  ASSUME AlphabetTypeOK
  PROVE  /\ Leaders \subseteq Leaving /\ Leaving \subseteq Symbol /\ IsFiniteSet(Leaders)
         /\ \A c \in Leaving : Leader(c) \in Leaders /\ alphabet_tx[Leader(c)] = alphabet_tx[c]
         /\ \A c, d \in Leaders : alphabet_tx[c] = alphabet_tx[d] => c = d
<1>1. Symbol \in SUBSET Nat /\ IsFiniteSet(Symbol)
  BY TableFacts DEF AlphabetTypeOK
<1>2. Leaders \subseteq Leaving /\ Leaving \subseteq Symbol
  BY DEF Leaders, Leaving
<1>3. IsFiniteSet(Leaders)
  BY <1>1, <1>2, FS_Subset
<1>4. ASSUME NEW c \in Leaving
      PROVE  \E d \in Leaders : alphabet_tx[d] = alphabet_tx[c]
  <2> DEFINE T == {d \in Leaving : alphabet_tx[d] = alphabet_tx[c]}
  <2>1. T \in SUBSET Nat /\ T # {}
    BY <1>1, <1>2, <1>4
  <2>2. PICK d \in T : \A e \in T : d <= e
    BY <2>1, LeastElement
  <2>3. d \in Leaders
    BY <2>2 DEF Leaders
  <2> QED BY <2>2, <2>3
<1>5. \A c \in Leaving : Leader(c) \in Leaders /\ alphabet_tx[Leader(c)] = alphabet_tx[c]
  BY <1>4 DEF Leader
<1>6. \A c, d \in Leaders : alphabet_tx[c] = alphabet_tx[d] => c = d
  <2> TAKE c, d \in Leaders
  <2> HAVE alphabet_tx[c] = alphabet_tx[d]
  <2>1. c <= d /\ d <= c
    BY <1>2 DEF Leaders
  <2> QED BY <1>1, <1>2, <2>1
<1> QED BY <1>2, <1>3, <1>5, <1>6

(* One pair: symbols keep a common class when the pair does not tell them   *)
(* apart, and the classes stay numbered without gaps.                      *)
LEMMA PairSplits ==
  ASSUME AlphabetTypeOK, ReducePair
  PROVE  /\ max_class' \in Nat /\ alphabet_tx' \in [Symbol -> 0..max_class']
         /\ \A k \in 0..max_class' : \E c \in Symbol : alphabet_tx'[c] = k
         /\ \A c, d \in Symbol :
              alphabet_tx'[c] = alphabet_tx'[d] <=>
                alphabet_tx[c] = alphabet_tx[d] /\ (c \in Covered <=> d \in Covered)
<1> DEFINE n == Cardinality(Leaders)
<1>1. /\ max_class \in Nat /\ alphabet_tx \in [Symbol -> 0..max_class]
      /\ \A k \in 0..max_class : \E c \in Symbol : alphabet_tx[c] = k
      /\ Symbol \in SUBSET Int
  BY TableFacts DEF AlphabetTypeOK
<1>2. /\ Leaders \subseteq Leaving /\ Leaving \subseteq Symbol /\ IsFiniteSet(Leaders)
      /\ \A c \in Leaving : Leader(c) \in Leaders /\ alphabet_tx[Leader(c)] = alphabet_tx[c]
      /\ \A c, d \in Leaders : alphabet_tx[c] = alphabet_tx[d] => c = d
  BY LeaderFacts
<1>3. /\ n \in Nat
      /\ \A x \in Leaders : Rank(Leaders, x) \in 1..n
      /\ \A x, y \in Leaders : x < y => Rank(Leaders, x) < Rank(Leaders, y)
      /\ \A k \in 1..n : \E x \in Leaders : Rank(Leaders, x) = k
  <2> Leaders \in SUBSET Int
    BY <1>1, <1>2
  <2> QED BY <1>2, Ranks
<1>4. /\ alphabet_tx' = [c \in Symbol |-> IF c \in Leaving THEN remap(c) ELSE alphabet_tx[c]]
      /\ max_class' = max_class + n
  BY DEF ReducePair
<1>5. \A c \in Leaving : remap(c) = max_class + Rank(Leaders, Leader(c))
  BY DEF remap, Rank
<1>6. \A c \in Leaving : Rank(Leaders, Leader(c)) \in 1..n
  BY <1>2, <1>3
<1>7. \A c \in Leaving : remap(c) \in max_class+1..max_class+n
  BY <1>1, <1>3, <1>5, <1>6
<1>8. ASSUME NEW c \in Leaving, NEW d \in Leaving
      PROVE  remap(c) = remap(d) <=> alphabet_tx[c] = alphabet_tx[d]
  <2>1. remap(c) = remap(d) => Rank(Leaders, Leader(c)) = Rank(Leaders, Leader(d))
    BY <1>1, <1>3, <1>5, <1>6
  <2>2. Leader(c) \in Leaders /\ Leader(d) \in Leaders /\ Leader(c) \in Int /\ Leader(d) \in Int
    BY <1>1, <1>2
  <2>3. Rank(Leaders, Leader(c)) = Rank(Leaders, Leader(d)) => Leader(c) = Leader(d)
    <3>1. Rank(Leaders, Leader(c)) \in Int /\ Rank(Leaders, Leader(d)) \in Int
      BY <1>3, <1>6
    <3>2. Leader(c) < Leader(d) => Rank(Leaders, Leader(c)) < Rank(Leaders, Leader(d))
      BY <1>3, <2>2
    <3>3. Leader(d) < Leader(c) => Rank(Leaders, Leader(d)) < Rank(Leaders, Leader(c))
      BY <1>3, <2>2
    <3> QED BY <2>2, <3>1, <3>2, <3>3
  <2>4. Leader(c) = Leader(d) <=> alphabet_tx[c] = alphabet_tx[d]
    BY <1>2
  <2>5. Leader(c) = Leader(d) => remap(c) = remap(d)
    BY <1>5
  <2> QED BY <2>1, <2>3, <2>4, <2>5
<1>9. max_class' \in Nat /\ alphabet_tx' \in [Symbol -> 0..max_class']
  <2>1. \A c \in Symbol : alphabet_tx[c] \in 0..max_class + n
    BY <1>1, <1>3
  <2>2. \A c \in Leaving : remap(c) \in 0..max_class + n
    BY <1>1, <1>3, <1>7
  <2> QED BY <1>1, <1>3, <1>4, <2>1, <2>2
<1>10. ASSUME NEW k \in 0..max_class'
       PROVE  \E c \in Symbol : alphabet_tx'[c] = k
  <2>1. CASE k \in 0..max_class
    <3>1. PICK c \in Symbol : alphabet_tx[c] = k
      BY <1>1, <2>1
    <3>2. CASE c \in Leaving
      <4>1. PICK d \in Covered : alphabet_tx[d] = k
        BY <3>1, <3>2 DEF Leaving, CoveredClasses
      <4>2. d \in Symbol /\ d \notin Leaving
        BY DEF Covered, Leaving
      <4> QED BY <1>4, <4>1, <4>2
    <3>3. CASE c \notin Leaving
      BY <1>4, <3>1, <3>3
    <3> QED BY <3>2, <3>3
  <2>2. CASE k \notin 0..max_class
    <3>1. k - max_class \in 1..n /\ k = max_class + (k - max_class)
      BY <1>1, <1>3, <1>4, <2>2
    <3>2. PICK x \in Leaders : Rank(Leaders, x) = k - max_class
      BY <1>3, <3>1
    <3>3. Leader(x) = x /\ x \in Leaving /\ x \in Symbol
      BY <1>2
    <3> QED BY <1>4, <1>5, <3>1, <3>2, <3>3
  <2> QED BY <2>1, <2>2
<1>11. ASSUME NEW c \in Symbol, NEW d \in Symbol
       PROVE  alphabet_tx'[c] = alphabet_tx'[d] <=>
                alphabet_tx[c] = alphabet_tx[d] /\ (c \in Covered <=> d \in Covered)
  <2>1. \A e \in Symbol : e \in Leaving <=> e \notin Covered /\ alphabet_tx[e] \in CoveredClasses
    BY DEF Leaving
  <2>2. \A e \in Covered : alphabet_tx[e] \in CoveredClasses
    BY DEF CoveredClasses
  <2>3. alphabet_tx[c] \in 0..max_class /\ alphabet_tx[d] \in 0..max_class
    BY <1>1
  <2>4. CASE c \in Leaving /\ d \in Leaving
    BY <1>4, <1>8, <2>1, <2>4
  <2>5. CASE c \in Leaving /\ d \notin Leaving
    <3>1. alphabet_tx'[c] # alphabet_tx'[d]
      BY <1>1, <1>3, <1>4, <1>7, <2>3, <2>5
    <3> QED BY <2>1, <2>5, <3>1
  <2>6. CASE c \notin Leaving /\ d \in Leaving
    <3>1. alphabet_tx'[c] # alphabet_tx'[d]
      BY <1>1, <1>3, <1>4, <1>7, <2>3, <2>6
    <3> QED BY <2>1, <2>6, <3>1
  <2>7. CASE c \notin Leaving /\ d \notin Leaving
    <3>1. alphabet_tx'[c] = alphabet_tx[c] /\ alphabet_tx'[d] = alphabet_tx[d]
      BY <1>4, <2>7
    <3> QED BY <2>1, <2>2, <2>7, <3>1
  <2> QED BY <2>4, <2>5, <2>6, <2>7
<1> QED BY <1>9, <1>10, <1>11

(* After a pair it has been examined as well. *)
LEMMA ReducePairKeeps ==
  ASSUME AlphabetInv, ReducePair, UNCHANGED <<dfa, given>>
  PROVE  AlphabetInv'
<1>1. AlphabetTypeOK /\ ClassesInv
  BY DEF AlphabetInv
<1>2. /\ dfa \in Dfas /\ s \in 0..dfa.size /\ t \in StatesOf(dfa) /\ StatesOf(dfa) = 0..dfa.size-1
      /\ dfa.size \in Nat \ {0}
      /\ dfa.state_table \in [StatesOf(dfa) -> [Symbol -> StatesOf(dfa)]]
  BY <1>1, TableFacts DEF AlphabetTypeOK
<1>3. /\ stage = "reduce" /\ stage' = stage /\ s < dfa.size
      /\ IF t + 1 < dfa.size THEN s' = s /\ t' = t + 1 ELSE s' = s + 1 /\ t' = 0
  BY DEF ReducePair
<1>4. /\ max_class' \in Nat /\ alphabet_tx' \in [Symbol -> 0..max_class']
      /\ \A k \in 0..max_class' : \E c \in Symbol : alphabet_tx'[c] = k
      /\ \A c, d \in Symbol :
              alphabet_tx'[c] = alphabet_tx'[d] <=>
                alphabet_tx[c] = alphabet_tx[d] /\ (c \in Covered <=> d \in Covered)
  BY <1>1, PairSplits
<1>5. s' \in 0..dfa.size /\ t' \in StatesOf(dfa) /\ (s' = dfa.size => t' = 0)
  BY <1>2, <1>3
<1>6. AlphabetTypeOK'
  <2>1. StatesOf(dfa)' = StatesOf(dfa)
    BY DEF StatesOf
  <2> QED BY <1>1, <1>3, <1>4, <1>5, <2>1 DEF AlphabetTypeOK
<1>7. \A q, p \in StatesOf(dfa) : Done(q, p)' <=> (Done(q, p) \/ (q = s /\ p = t))
  BY <1>2, <1>3 DEF Done
<1>8. \A c \in Symbol : c \in Covered <=> dfa.state_table[s][c] = t
  BY DEF Covered
<1>9. s \in StatesOf(dfa)
  BY <1>2, <1>3
<1>10. ClassesInv'
  <2> SUFFICES ASSUME NEW c \in Symbol, NEW d \in Symbol
               PROVE  alphabet_tx'[c] = alphabet_tx'[d] <=>
                        /\ given[c] = given[d]
                        /\ \A q, p \in StatesOf(dfa) :
                             Done(q, p)' => (dfa.state_table[q][c] = p <=> dfa.state_table[q][d] = p)
    BY DEF ClassesInv, StatesOf
  <2>1. alphabet_tx[c] = alphabet_tx[d] <=>
          /\ given[c] = given[d]
          /\ \A q, p \in StatesOf(dfa) :
               Done(q, p) => (dfa.state_table[q][c] = p <=> dfa.state_table[q][d] = p)
    BY <1>1 DEF ClassesInv
  <2>2. alphabet_tx'[c] = alphabet_tx'[d] <=>
          alphabet_tx[c] = alphabet_tx[d] /\ (dfa.state_table[s][c] = t <=> dfa.state_table[s][d] = t)
    BY <1>4, <1>8
  <2> QED BY <1>2, <1>7, <1>9, <2>1, <2>2
<1> QED BY <1>6, <1>10 DEF AlphabetInv

(* Every step of the reduction keeps the invariant, and so does every later *)
(* one.                                                                     *)
LEMMA AlphabetInvLater ==
  ASSUME AlphabetInv, UNCHANGED <<dfa, given, alphabet_tx, max_class, s, t>>,
         stage' = "reduce" \/ stage # "reduce" \/ s = dfa.size
  PROVE  AlphabetInv'
BY DEF AlphabetInv, AlphabetTypeOK, ClassesInv, StatesOf, Done

LEMMA AlphabetInvNext ==
  ASSUME AlphabetInv, AlphabetNext
  PROVE  AlphabetInv'
<1>1. CASE ReducePair
  BY <1>1, ReducePairKeeps DEF AlphabetNext
<1>2. CASE Reduced
  BY <1>2, AlphabetInvLater DEF AlphabetNext, Reduced
<1> QED BY <1>1, <1>2 DEF AlphabetNext

(* When all pairs have been examined, symbols that are not told apart have  *)
(* equal columns.                                                           *)
LEMMA ReducedColumns == AlphabetInv => ClassesAreColumns
<1> SUFFICES ASSUME AlphabetInv, stage # "reduce", NEW c \in Symbol, NEW d \in Symbol
             PROVE  alphabet_tx[c] = alphabet_tx[d] <=> given[c] = given[d] /\ SameColumn(c, d)
  BY DEF ClassesAreColumns
<1>1. /\ dfa \in Dfas /\ s = dfa.size /\ StatesOf(dfa) = 0..dfa.size-1 /\ dfa.size \in Nat
      /\ dfa.state_table \in [StatesOf(dfa) -> [Symbol -> StatesOf(dfa)]]
  BY TableFacts DEF AlphabetInv, AlphabetTypeOK
<1>2. \A q, p \in StatesOf(dfa) : Done(q, p)
  BY <1>1 DEF Done
<1>3. alphabet_tx[c] = alphabet_tx[d] <=>
        /\ given[c] = given[d]
        /\ \A q, p \in StatesOf(dfa) : dfa.state_table[q][c] = p <=> dfa.state_table[q][d] = p
  BY <1>2 DEF AlphabetInv, ClassesInv
<1>4. \A q \in StatesOf(dfa) : dfa.state_table[q][c] \in StatesOf(dfa)
  BY <1>1
<1>5. (\A q, p \in StatesOf(dfa) : dfa.state_table[q][c] = p <=> dfa.state_table[q][d] = p)
        <=> SameColumn(c, d)
  BY <1>4 DEF SameColumn
<1> QED BY <1>3, <1>5


-----------------------------------------------------------------------------
(* When keys increase with the numbers, an interval is put in its own order. *)
LEMMA IntervalInOrder ==
  ASSUME NEW a \in Nat, NEW b \in Nat, a <= b, NEW key \in [a..b-1 -> Int],
         \A x, y \in a..b-1 : x < y => key[x] < key[y]
  PROVE  /\ InOrder(a..b-1, key) \in Seq(a..b-1) /\ Len(InOrder(a..b-1, key)) = b - a
         /\ \A i \in 1..b-a : InOrder(a..b-1, key)[i] = a + i - 1
<1> DEFINE S == a..b-1
           N == b - a
           o == InOrder(S, key)
<1>1. IsFiniteSet(S) /\ Cardinality(S) = N /\ N \in Nat
  <2>1. IsFiniteSet(a..b-1) /\ Cardinality(a..b-1) = IF a > b-1 THEN 0 ELSE b-1-a+1
    BY FS_Interval
  <2> QED BY <2>1
<1>2. \A x, y \in S : key[x] = key[y] => x = y
  <2> TAKE x, y \in S
  <2> HAVE key[x] = key[y]
  <2>1. x \in Int /\ y \in Int /\ key[x] \in Int
    OBVIOUS
  <2>2. ~(x < y) /\ ~(y < x)
    BY <2>1
  <2> QED BY <2>1, <2>2
<1>3. /\ o \in Seq(S) /\ Len(o) = N /\ o \in [1..N -> S]
      /\ \A m, n \in 1..N : m < n => key[o[m]] < key[o[n]]
  <2> HIDE DEF S, N
  <2>1. key \in [S -> Int]
    BY DEF S
  <2> QED BY <1>1, <1>2, <2>1, InOrderFacts
<1> HIDE DEF o
<1>4. \A m, n \in 1..N : m < n => o[m] < o[n]
  <2> TAKE m, n \in 1..N
  <2> HAVE m < n
  <2>1. o[m] \in S /\ o[n] \in S /\ key[o[m]] < key[o[n]]
    BY <1>3
  <2>2. o[m] \in Int /\ o[n] \in Int /\ key[o[m]] \in Int /\ key[o[n]] \in Int
    BY <2>1
  <2>3. o[n] < o[m] => key[o[n]] < key[o[m]]
    BY <2>1
  <2> HIDE DEF S
  <2> QED BY <2>1, <2>2, <2>3
<1>5. \A n \in Nat : n + 1 \in 1..N => o[n + 1] >= a + n
  <2> DEFINE T == {n \in Nat : n + 1 \in 1..N => o[n + 1] >= a + n}
  <2>1. 0 \in T
    BY <1>1, <1>3
  <2>2. \A n \in Nat : n \in T => n + 1 \in T
    <3> SUFFICES ASSUME NEW n \in Nat, n \in T, n + 2 \in 1..N PROVE o[n + 2] >= a + n + 1
      OBVIOUS
    <3>1. n + 1 \in 1..N /\ n + 1 < n + 2
      BY <1>1
    <3>2. o[n + 1] < o[n + 2] /\ o[n + 1] >= a + n
      BY <1>4, <3>1
    <3>3. o[n + 1] \in Int /\ o[n + 2] \in Int
      BY <1>3, <3>1
    <3> QED BY <3>2, <3>3
  <2> HIDE DEF T
  <2>3. \A n \in Nat : n \in T
    BY <2>1, <2>2, Inductive
  <2> QED BY <2>3 DEF T
<1>6. \A n \in Nat : N - n \in 1..N => o[N - n] <= b - 1 - n
  <2> DEFINE T == {n \in Nat : N - n \in 1..N => o[N - n] <= b - 1 - n}
  <2>1. 0 \in T
    BY <1>1, <1>3
  <2>2. \A n \in Nat : n \in T => n + 1 \in T
    <3> SUFFICES ASSUME NEW n \in Nat, n \in T, N - (n + 1) \in 1..N PROVE o[N - (n + 1)] <= b - 1 - (n + 1)
      OBVIOUS
    <3>1. N - n \in 1..N /\ N - (n + 1) < N - n
      BY <1>1
    <3>2. o[N - (n + 1)] < o[N - n] /\ o[N - n] <= b - 1 - n
      BY <1>4, <3>1
    <3>3. o[N - (n + 1)] \in Int /\ o[N - n] \in Int
      BY <1>3, <3>1
    <3> QED BY <3>2, <3>3
  <2> HIDE DEF T
  <2>3. \A n \in Nat : n \in T
    BY <2>1, <2>2, Inductive
  <2> QED BY <2>3 DEF T
<1>7. ASSUME NEW i \in 1..N PROVE o[i] = a + i - 1
  <2>1. i - 1 \in Nat /\ (i - 1) + 1 = i /\ N - i \in Nat /\ N - (N - i) = i
    BY <1>1
  <2>2. o[i] >= a + (i - 1)
    BY <1>5, <2>1
  <2>3. o[i] <= b - 1 - (N - i)
    BY <1>6, <2>1
  <2>4. o[i] \in Int
    BY <1>3
  <2> QED BY <2>2, <2>3, <2>4
<1> QED BY <1>3, <1>7 DEF o

-----------------------------------------------------------------------------
(* The breadth-first traversals.  What can be reached in one step from the  *)
(* states below h, and state 0. *)
Seen(h) == {0} \cup {Next(r, c) : r \in 0..h-1, c \in Symbol}

(* States numbered as they are discovered: what has been seen is an initial *)
(* segment, and the next state adds the states behind it, in their order.  *)
LEMMA SeenFacts ==
  ASSUME dfa \in Dfas, NEW h \in 0..dfa.size
  PROVE  /\ Seen(h) \subseteq States
         /\ \A q \in Seen(h), p \in States : p < q => p \in Seen(h)
         /\ h < dfa.size => Seen(h + 1) = Seen(h) \cup {Next(h, c) : c \in Symbol}
         /\ h < dfa.size =>
              \A p, q \in States \ Seen(h), c \in Symbol :
                p < q /\ Next(h, c) = q => \E b \in Symbol : b < c /\ Next(h, b) = p
         /\ h \in 1..dfa.size-1 => h \in Seen(h)
<1>1. /\ dfa.size \in Nat \ {0} /\ States = 0..dfa.size-1 /\ 0 \in States /\ Symbol \in SUBSET Nat
      /\ \A q \in States, c \in Symbol : Next(q, c) \in States
  BY TableFacts DEF States, Next
<1>2. \A q \in 1..dfa.size-1 : \E p \in 0..q-1, c \in Symbol :
        /\ Next(p, c) = q
        /\ \A r \in 0..p, b \in Symbol : Next(r, b) > q => r = p /\ b > c
  BY NumberingAssumption DEF NumberedAsDiscovered, Next
<1>3. Seen(h) \subseteq States
  BY <1>1 DEF Seen
<1>4. ASSUME NEW q \in Seen(h), NEW p \in States, p < q
      PROVE  p \in Seen(h)
  <2>1. CASE p = 0
    BY <2>1 DEF Seen
  <2>2. CASE p # 0
    <3>1. p \in 1..dfa.size-1 /\ q # 0 /\ q \in Int
      BY <1>1, <1>3, <1>4, <2>2
    <3>2. PICK u \in 0..p-1, c \in Symbol :
            /\ Next(u, c) = p
            /\ \A r \in 0..u, b \in Symbol : Next(r, b) > p => r = u /\ b > c
      BY <1>2, <3>1
    <3>3. PICK r \in 0..h-1, b \in Symbol : Next(r, b) = q
      BY <3>1 DEF Seen
    <3>4. u <= r
      <4>1. r \in 0..u => r = u
        BY <1>4, <3>1, <3>2, <3>3
      <4> QED BY <3>2, <3>3, <4>1
    <3>5. u \in 0..h-1
      BY <3>2, <3>3, <3>4
    <3> QED BY <3>2, <3>5 DEF Seen
  <2> QED BY <2>1, <2>2
<1>5. ASSUME h < dfa.size
      PROVE  Seen(h + 1) = Seen(h) \cup {Next(h, c) : c \in Symbol}
  <2>1. 0..(h+1)-1 = 0..h-1 \cup {h}
    OBVIOUS
  <2> QED BY <2>1 DEF Seen
<1>6. ASSUME h < dfa.size, NEW p \in States \ Seen(h), NEW q \in States \ Seen(h), NEW c \in Symbol,
             p < q, Next(h, c) = q
      PROVE  \E b \in Symbol : b < c /\ Next(h, b) = p
  <2>1. p \in 1..dfa.size-1 /\ q \in Int
    <3>1. p # 0
      BY DEF Seen
    <3> QED BY <1>1, <3>1
  <2>2. PICK u \in 0..p-1, b \in Symbol :
          /\ Next(u, b) = p
          /\ \A r \in 0..u, d \in Symbol : Next(r, d) > p => r = u /\ d > b
    BY <1>2, <2>1
  <2>3. u \notin 0..h-1
    BY <2>2 DEF Seen
  <2>4. h \in 0..u
    BY <2>2, <2>3
  <2>5. h = u /\ c > b
    BY <1>6, <2>1, <2>2, <2>4
  <2>6. b < c
    BY <1>1, <2>5
  <2> QED BY <2>2, <2>5, <2>6
<1>7. ASSUME h \in 1..dfa.size-1
      PROVE  h \in Seen(h)
  BY <1>2, <1>7 DEF Seen
<1> QED BY <1>3, <1>4, <1>5, <1>6, <1>7


(* set_depth has taken the states below h from its queue and discovered      *)
(* those below m: depths grow with the numbers, no faster than they do, and  *)
(* by at most 1 from the head of the queue to its end.                      *)
Discovering(h, m) ==
  /\ queue \in Seq(Nat) /\ Len(queue) = m - h
  /\ \A i \in 1..m-h : queue[i] = h + i - 1
  /\ Seen(h) = 0..m-1
  /\ depth \in [States -> Nat \cup {NO_DEPTH}]
  /\ \A q \in States : q < m <=> depth[q] # NO_DEPTH
  /\ \A q \in 0..m-1 : depth[q] <= q /\ (q > 0 => depth[q] > 0)
  /\ \A p, q \in 0..m-1 : p <= q => depth[p] <= depth[q]
  /\ h < m => \A q \in 0..m-1 : depth[q] <= depth[h] + 1

DepthInv ==
  stage \in {"reduce", "compress"} => \E h \in 0..dfa.size, m \in 1..dfa.size : h <= m /\ Discovering(h, m)

(* With an empty queue every state has a depth. *)
DepthsFound ==
  /\ depth \in [States -> Nat]
  /\ \A q \in States : depth[q] <= q /\ (q > 0 => depth[q] > 0)
  /\ \A p, q \in States : p <= q => depth[p] <= depth[q]

LEMMA QueueEmpty ==
  ASSUME dfa \in Dfas, DepthInv, stage \in {"reduce", "compress"}, queue = <<>>
  PROVE  DepthsFound
<1>1. PICK h \in 0..dfa.size, m \in 1..dfa.size : h <= m /\ Discovering(h, m)
  BY DEF DepthInv
<1>2. dfa.size \in Nat \ {0} /\ States = 0..dfa.size-1
  BY TableFacts DEF States
<1>3. h = m
  <2>1. Len(queue) = 0 /\ Len(queue) = m - h
    BY <1>1 DEF Discovering
  <2> QED BY <2>1
<1>4. m = dfa.size
  <2> SUFFICES ASSUME m # dfa.size PROVE FALSE
    OBVIOUS
  <2>1. h \in 1..dfa.size-1
    BY <1>2, <1>3
  <2>2. h \in Seen(h)
    BY <2>1, SeenFacts
  <2>3. Seen(h) = 0..h-1
    BY <1>1, <1>3 DEF Discovering
  <2> QED BY <2>1, <2>2, <2>3
<1>5. \A q \in States : depth[q] \in Nat
  <2>1. depth \in [States -> Nat \cup {NO_DEPTH}] /\ \A q \in States : q < m <=> depth[q] # NO_DEPTH
    BY <1>1 DEF Discovering
  <2> QED BY <1>2, <1>4, <2>1
<1>6. /\ \A q \in 0..m-1 : depth[q] <= q /\ (q > 0 => depth[q] > 0)
      /\ \A p, q \in 0..m-1 : p <= q => depth[p] <= depth[q]
      /\ depth \in [States -> Nat \cup {NO_DEPTH}]
  BY <1>1 DEF Discovering
<1> QED BY <1>2, <1>4, <1>5, <1>6 DEF DepthsFound

LEMMA DepthInvInit ==
  ASSUME DefaultInit
  PROVE  DepthInv
<1>1. dfa \in Dfas /\ depth = [q \in States |-> IF q = 0 THEN 0 ELSE NO_DEPTH] /\ queue = <<0>>
  BY DEF DefaultInit, AlphabetInit
<1>2. dfa.size \in Nat \ {0} /\ States = 0..dfa.size-1
  BY <1>1, TableFacts DEF States
<1>3. Seen(0) = 0..1-1
  <2>1. 0..0-1 = {} /\ 0..1-1 = {0}
    OBVIOUS
  <2> QED BY <2>1 DEF Seen
<1>4. queue \in Seq(Nat) /\ Len(queue) = 1 - 0 /\ \A i \in 1..1-0 : queue[i] = 0 + i - 1
  BY <1>1
<1>5. Discovering(0, 1)
  BY <1>1, <1>2, <1>3, <1>4 DEF Discovering, NO_DEPTH
<1> QED BY <1>2, <1>5 DEF DepthInv

(* The states discovered from the head are the next ones, in their order. *)
LEMMA HeadDiscovers ==
  ASSUME dfa \in Dfas, NEW h \in 0..dfa.size, NEW m \in 1..dfa.size, h <= m, Discovering(h, m),
         queue # <<>>
  PROVE  /\ h < m /\ Head(queue) = h
         /\ \E n \in m..dfa.size :
              LET o == InOrder(Discovered(h), [p \in Discovered(h) |-> FirstSymbol(h, p)]) IN
                /\ Discovered(h) = m..n-1 /\ Seen(h + 1) = 0..n-1
                /\ o \in Seq(m..n-1) /\ Len(o) = n - m
                /\ \A i \in 1..n-m : o[i] = m + i - 1
<1>1. /\ dfa.size \in Nat \ {0} /\ States = 0..dfa.size-1 /\ Symbol \in SUBSET Nat
      /\ \A q \in States, c \in Symbol : Next(q, c) \in States
  BY TableFacts DEF States, Next
<1>2. /\ queue \in Seq(Nat) /\ Len(queue) = m - h
      /\ \A i \in 1..m-h : queue[i] = h + i - 1
      /\ Seen(h) = 0..m-1
      /\ \A q \in States : q < m <=> depth[q] # NO_DEPTH
  BY DEF Discovering
<1>3. h < m
  <2>1. Len(queue) # 0
    BY <1>2
  <2> QED BY <1>2, <2>1
<1>4. Head(queue) = h
  <2>1. 1 \in 1..m-h /\ Head(queue) = queue[1]
    BY <1>2, <1>3
  <2> QED BY <1>2, <2>1
<1>5. h \in States /\ h < dfa.size
  BY <1>1, <1>3
<1>6. /\ Seen(h + 1) = Seen(h) \cup {Next(h, c) : c \in Symbol}
      /\ \A p, q \in States \ Seen(h), c \in Symbol :
            p < q /\ Next(h, c) = q => \E b \in Symbol : b < c /\ Next(h, b) = p
  BY <1>5, SeenFacts
<1>7. h + 1 \in 0..dfa.size
  BY <1>1, <1>5
<1>8. Seen(h + 1) \subseteq States /\ \A q \in Seen(h + 1), p \in States : p < q => p \in Seen(h + 1)
  BY <1>7, SeenFacts
<1>9. \E n \in 1..dfa.size : Seen(h + 1) = 0..n-1
  <2> DEFINE T == {n \in 1..dfa.size : n \notin Seen(h + 1)}
  <2>1. dfa.size \in T /\ T \in SUBSET Nat
    BY <1>1, <1>8
  <2>2. PICK n \in T : \A k \in T : n <= k
    BY <2>1, LeastElement
  <2>3. \A q \in 1..n-1 : q \in Seen(h + 1)
    <3> SUFFICES ASSUME NEW q \in 1..n-1, q \notin Seen(h + 1) PROVE FALSE
      OBVIOUS
    <3>1. n \in 1..dfa.size /\ dfa.size \in Nat
      BY <1>1
    <3>2. q \in 1..dfa.size /\ ~(n <= q)
      BY <3>1
    <3> QED BY <2>2, <3>2
  <2>4. 0 \in Seen(h + 1)
    BY DEF Seen
  <2>5. \A q \in Seen(h + 1) : q < n
    <3> TAKE q \in Seen(h + 1)
    <3>1. q \in States
      BY <1>8
    <3>2. n \in States => ~(n < q)
      BY <1>8, <2>2
    <3>3. q # n
      BY <2>2
    <3> QED BY <1>1, <2>2, <3>1, <3>2, <3>3
  <2>6. Seen(h + 1) = 0..n-1
    <3>1. n \in 1..dfa.size /\ dfa.size \in Nat
      BY <1>1
    <3>2. \A q \in Seen(h + 1) : q \in 0..n-1
      <4> TAKE q \in Seen(h + 1)
      <4>1. q \in 0..dfa.size-1
        BY <1>1, <1>8
      <4>2. q < n
        BY <2>5
      <4> QED BY <3>1, <4>1, <4>2
    <3>3. \A q \in 0..n-1 : q = 0 \/ q \in 1..n-1
      BY <3>1
    <3> QED BY <2>3, <2>4, <3>2, <3>3
  <2> QED BY <2>6
<1>10. PICK n \in 1..dfa.size : Seen(h + 1) = 0..n-1
  BY <1>9
<1>11. m <= n
  <2>1. m-1 \in 0..m-1
    OBVIOUS
  <2>2. m-1 \in Seen(h + 1)
    BY <1>2, <1>6, <2>1
  <2>3. m-1 \in 0..n-1
    BY <1>10, <2>2
  <2> QED BY <2>3
<1> DEFINE S == m..n-1
           key == [p \in S |-> FirstSymbol(h, p)]
<1>12. Discovered(h) = S
  <2>1. Discovered(h) = {p \in States : p >= m /\ p \in {Next(h, c) : c \in Symbol}}
    BY <1>1, <1>2 DEF Discovered
  <2>2. \A p \in States : p >= m => (p \in {Next(h, c) : c \in Symbol} <=> p <= n-1)
    <3> SUFFICES ASSUME NEW p \in States, p >= m
                 PROVE  p \in {Next(h, c) : c \in Symbol} <=> p <= n-1
      OBVIOUS
    <3>1. p \in Nat /\ m \in Nat /\ n \in Nat
      BY <1>1
    <3>2. p \notin Seen(h)
      BY <1>2, <3>1
    <3>3. p \in {Next(h, c) : c \in Symbol} <=> p \in Seen(h + 1)
      BY <1>6, <3>2
    <3>4. p \in Seen(h + 1) <=> p <= n-1
      BY <1>10, <3>1
    <3> QED BY <3>3, <3>4
  <2> QED BY <1>1, <2>1, <2>2
<1>13. ASSUME NEW p \in S
       PROVE  /\ FirstSymbol(h, p) \in Symbol /\ Next(h, FirstSymbol(h, p)) = p
              /\ \A d \in Symbol : Next(h, d) = p => FirstSymbol(h, p) <= d
  <2> DEFINE T == {c \in Symbol : Next(h, c) = p}
  <2>1. T # {} /\ T \in SUBSET Nat
    BY <1>1, <1>12 DEF Discovered
  <2>2. \E c \in T : \A d \in T : c <= d
    BY <2>1, LeastElement
  <2>3. \E c \in Symbol : Next(h, c) = p /\ \A d \in Symbol : Next(h, d) = p => c <= d
    BY <2>2
  <2> QED BY <2>3 DEF FirstSymbol
<1>14. key \in [S -> Int]
  <2>1. ASSUME NEW p \in S PROVE FirstSymbol(h, p) \in Int
    <3>1. FirstSymbol(h, p) \in Symbol
      BY <1>13
    <3>2. \A c \in Symbol : c \in Int
      BY <1>1
    <3> QED BY <3>1, <3>2
  <2> QED BY <2>1
<1>15. \A x, y \in S : x < y => key[x] < key[y]
  <2> TAKE x, y \in S
  <2> HAVE x < y
  <2>1. x \in States \ Seen(h) /\ y \in States \ Seen(h)
    BY <1>1, <1>2
  <2>2. FirstSymbol(h, y) \in Symbol /\ Next(h, FirstSymbol(h, y)) = y
    BY <1>13
  <2>3. PICK b \in Symbol : b < FirstSymbol(h, y) /\ Next(h, b) = x
    BY <1>6, <2>1, <2>2
  <2>4. FirstSymbol(h, x) <= b /\ FirstSymbol(h, x) \in Symbol
    BY <1>13, <2>3
  <2>5. FirstSymbol(h, x) < FirstSymbol(h, y)
    <3>1. FirstSymbol(h, x) \in Nat /\ FirstSymbol(h, y) \in Nat /\ b \in Nat
      BY <1>1, <2>2, <2>4
    <3> QED BY <2>3, <2>4, <3>1
  <2> QED BY <2>5
<1>16. /\ InOrder(S, key) \in Seq(S) /\ Len(InOrder(S, key)) = n - m
       /\ \A i \in 1..n-m : InOrder(S, key)[i] = m + i - 1
  <2>1. m \in Nat /\ n \in Nat
    BY <1>1
  <2> HIDE DEF key
  <2> QED BY <1>11, <1>14, <1>15, <2>1, IntervalInOrder
<1>17. n \in m..dfa.size
  BY <1>1, <1>11
<1>18. key = [p \in Discovered(h) |-> FirstSymbol(h, p)]
  BY <1>12
<1> HIDE DEF key
<1>19. LET o == InOrder(Discovered(h), [p \in Discovered(h) |-> FirstSymbol(h, p)]) IN
         /\ Discovered(h) = m..n-1 /\ Seen(h + 1) = 0..n-1
         /\ o \in Seq(m..n-1) /\ Len(o) = n - m
         /\ \A i \in 1..n-m : o[i] = m + i - 1
  <2>1. InOrder(Discovered(h), [p \in Discovered(h) |-> FirstSymbol(h, p)]) = InOrder(S, key)
    BY <1>12, <1>18
  <2> QED BY <1>10, <1>12, <1>16, <2>1
<1> QED BY <1>3, <1>4, <1>17, <1>19


LEMMA SetDepthKeeps ==
  ASSUME dfa \in Dfas, DepthInv, SetDepth, UNCHANGED dfa
  PROVE  DepthInv'
<1>1. stage = "compress" /\ queue # <<>> /\ stage' = stage
  BY DEF SetDepth
<1>2. PICK h \in 0..dfa.size, m \in 1..dfa.size : h <= m /\ Discovering(h, m)
  BY <1>1 DEF DepthInv
<1> DEFINE o == InOrder(Discovered(h), [p \in Discovered(h) |-> FirstSymbol(h, p)])
<1>3. h < m /\ Head(queue) = h
  BY <1>1, <1>2, HeadDiscovers
<1>4. PICK n \in m..dfa.size :
        /\ Discovered(h) = m..n-1 /\ Seen(h + 1) = 0..n-1
        /\ o \in Seq(m..n-1) /\ Len(o) = n - m
        /\ \A i \in 1..n-m : o[i] = m + i - 1
  <2>1. \E n \in m..dfa.size :
          LET u == InOrder(Discovered(h), [p \in Discovered(h) |-> FirstSymbol(h, p)]) IN
            /\ Discovered(h) = m..n-1 /\ Seen(h + 1) = 0..n-1
            /\ u \in Seq(m..n-1) /\ Len(u) = n - m
            /\ \A i \in 1..n-m : u[i] = m + i - 1
    BY <1>1, <1>2, HeadDiscovers
  <2> QED BY <2>1
<1>5. /\ dfa.size \in Nat \ {0} /\ States = 0..dfa.size-1
      /\ h \in Nat /\ m \in Nat /\ n \in Nat /\ m <= n /\ n <= dfa.size
  BY TableFacts DEF States
<1>6. /\ queue \in Seq(Nat) /\ Len(queue) = m - h
      /\ \A i \in 1..m-h : queue[i] = h + i - 1
      /\ Seen(h) = 0..m-1
      /\ depth \in [States -> Nat \cup {NO_DEPTH}]
      /\ \A q \in States : q < m <=> depth[q] # NO_DEPTH
      /\ \A q \in 0..m-1 : depth[q] <= q /\ (q > 0 => depth[q] > 0)
      /\ \A p, q \in 0..m-1 : p <= q => depth[p] <= depth[q]
      /\ \A q \in 0..m-1 : depth[q] <= depth[h] + 1
  BY <1>2, <1>3 DEF Discovering
<1>7. /\ depth' = [p \in States |-> IF p \in Discovered(h) THEN depth[h] + 1 ELSE depth[p]]
      /\ queue' = Tail(queue) \o o
  BY <1>3 DEF SetDepth
<1>8. States' = States /\ (\A k : Seen(k)' = Seen(k)) /\ NO_DEPTH = -1
  BY DEF States, StatesOf, Seen, Next, NO_DEPTH
<1> HIDE DEF o
<1>9. /\ queue' \in Seq(Nat) /\ Len(queue') = n - (h + 1)
      /\ \A i \in 1..n-(h+1) : queue'[i] = (h + 1) + i - 1
  <2>1. /\ Tail(queue) \in Seq(Nat) /\ Len(Tail(queue)) = m - (h + 1)
        /\ \A i \in 1..m-(h+1) : Tail(queue)[i] = queue[i + 1]
    <3>1. /\ Tail(queue) \in Seq(Nat) /\ Len(Tail(queue)) = Len(queue) - 1
          /\ \A i \in 1..Len(Tail(queue)) : Tail(queue)[i] = queue[i + 1]
      BY <1>1, <1>6, HeadTailProperties
    <3>2. Len(queue) - 1 = m - (h + 1)
      BY <1>5, <1>6
    <3> QED BY <3>1, <3>2
  <2>2. o \in Seq(Nat)
    <3>1. m..n-1 \subseteq Nat
      BY <1>5
    <3> HIDE <1>7
    <3> QED BY <1>4, <3>1, SeqMonotonic
  <2>3. /\ queue' \in Seq(Nat) /\ Len(queue') = Len(Tail(queue)) + Len(o)
        /\ \A i \in 1..Len(Tail(queue)) + Len(o) : queue'[i] =
             IF i <= Len(Tail(queue)) THEN Tail(queue)[i] ELSE o[i - Len(Tail(queue))]
    BY <1>7, <2>1, <2>2, ConcatProperties
  <2>4. Len(Tail(queue)) + Len(o) = n - (h + 1)
    BY <1>4, <1>5, <2>1
  <2>5. ASSUME NEW i \in 1..n-(h+1)
        PROVE  queue'[i] = (h + 1) + i - 1
    <3>1. CASE i <= m - (h + 1)
      <4>1. i \in 1..m-(h+1) /\ i + 1 \in 1..m-h
        BY <1>5, <3>1
      <4>2. queue'[i] = queue[i + 1]
        BY <2>1, <2>3, <2>4, <3>1, <4>1
      <4> QED BY <1>5, <1>6, <4>1, <4>2
    <3>2. CASE ~(i <= m - (h + 1))
      <4>1. i - (m - (h + 1)) \in 1..n-m
        BY <1>5, <3>2
      <4>2. queue'[i] = o[i - (m - (h + 1))]
        BY <2>1, <2>3, <2>4, <3>2
      <4>3. o[i - (m - (h + 1))] = m + (i - (m - (h + 1))) - 1
        BY <1>4, <4>1
      <4> QED BY <1>5, <4>2, <4>3
    <3> QED BY <3>1, <3>2
  <2> QED BY <2>3, <2>4, <2>5
<1>10. /\ h \in 0..m-1 /\ depth[h] \in Nat /\ depth[h] <= h
       /\ \A q \in 0..m-1 : depth'[q] = depth[q] /\ depth[q] \in Nat
       /\ \A q \in m..n-1 : depth'[q] = depth[h] + 1
       /\ \A q \in States : q >= n => depth'[q] = NO_DEPTH
  <2>1. h \in 0..m-1
    BY <1>3, <1>5
  <2>2. \A q \in 0..m-1 : q \in States /\ q < m /\ q \notin m..n-1
    BY <1>5
  <2>3. \A q \in m..n-1 : q \in States
    BY <1>5
  <2>4. \A q \in 0..m-1 : depth[q] \in Nat
    BY <1>6, <2>2
  <2>5. \A q \in 0..m-1 : depth'[q] = depth[q]
    BY <1>4, <1>7, <2>2
  <2>6. \A q \in m..n-1 : depth'[q] = depth[h] + 1
    BY <1>4, <1>7, <2>3
  <2>7. \A q \in States : q >= n => q \notin m..n-1 /\ ~(q < m)
    BY <1>5
  <2>8. \A q \in States : q >= n => depth'[q] = NO_DEPTH
    BY <1>4, <1>6, <1>7, <2>7
  <2> QED BY <1>6, <2>1, <2>4, <2>5, <2>6, <2>8
<1>11. /\ depth' \in [States -> Nat \cup {NO_DEPTH}]
       /\ \A q \in States : q < n <=> depth'[q] # NO_DEPTH
  <2>1. \A q \in States : q \in 0..m-1 \/ q \in m..n-1 \/ q >= n
    BY <1>5
  <2>2. \A q \in States : q < n => depth'[q] \in Nat
    BY <1>5, <1>10, <2>1
  <2>3. \A q \in States : ~(q < n) => q >= n
    BY <1>5
  <2>4. NO_DEPTH \notin Nat
    BY <1>8
  <2>5. \A q \in States : depth'[q] \in Nat \cup {NO_DEPTH}
    BY <1>10, <2>2, <2>3
  <2> QED BY <1>7, <1>10, <2>2, <2>3, <2>4, <2>5
<1>12. \A q \in 0..n-1 : depth'[q] <= q /\ (q > 0 => depth'[q] > 0)
  <2> TAKE q \in 0..n-1
  <2>1. CASE q < m
    BY <1>5, <1>6, <1>10, <2>1
  <2>2. CASE ~(q < m)
    <3>1. q \in m..n-1
      BY <1>5, <2>2
    <3>2. depth'[q] = depth[h] + 1
      BY <1>10, <3>1
    <3> QED BY <1>3, <1>5, <1>10, <2>2, <3>2
  <2> QED BY <2>1, <2>2
<1>13. \A p, q \in 0..n-1 : p <= q => depth'[p] <= depth'[q]
  <2> TAKE p, q \in 0..n-1
  <2> HAVE p <= q
  <2>1. CASE q < m
    <3>1. p \in 0..m-1 /\ q \in 0..m-1
      BY <1>5, <2>1
    <3> QED BY <1>6, <1>10, <3>1
  <2>2. CASE ~(q < m) /\ p < m
    <3>1. p \in 0..m-1 /\ q \in m..n-1
      BY <1>5, <2>2
    <3> QED BY <1>6, <1>10, <3>1
  <2>3. CASE ~(q < m) /\ ~(p < m)
    <3>1. p \in m..n-1 /\ q \in m..n-1
      BY <1>5, <2>3
    <3>2. depth'[p] = depth[h] + 1 /\ depth'[q] = depth[h] + 1
      BY <1>10, <3>1
    <3> QED BY <1>10, <3>2
  <2> QED BY <2>1, <2>2, <2>3
<1>14. ASSUME h + 1 < n, NEW q \in 0..n-1
       PROVE  depth'[q] <= depth'[h + 1] + 1
  <2>1. h \in 0..n-1 /\ h + 1 \in 0..n-1 /\ h <= h + 1
    BY <1>3, <1>5, <1>14
  <2>2. depth'[h] <= depth'[h + 1] /\ depth'[h] = depth[h]
    BY <1>10, <1>13, <2>1
  <2>3. depth'[h + 1] \in Nat /\ depth'[q] \in Nat
    <3>1. h + 1 \in States /\ q \in States /\ q < n
      BY <1>5, <2>1
    <3> QED BY <1>11, <1>14, <3>1
  <2>4. depth'[q] <= depth[h] + 1
    <3>1. q \in 0..m-1 \/ q \in m..n-1
      BY <1>5
    <3>2. q \in m..n-1 => depth'[q] = depth[h] + 1
      BY <1>10
    <3> QED BY <1>6, <1>10, <3>1, <3>2
  <2> QED BY <1>10, <2>2, <2>3, <2>4
<1>15. Discovering(h + 1, n)'
  BY <1>4, <1>8, <1>9, <1>11, <1>12, <1>13, <1>14 DEF Discovering
<1>16. h + 1 \in 0..dfa.size /\ n \in 1..dfa.size /\ h + 1 <= n
  BY <1>3, <1>5
<1> QED BY <1>15, <1>16 DEF DepthInv


-----------------------------------------------------------------------------
(* The default transitions found so far lead to shallower states, share the *)
(* transitions that are not labeled, and are counted by dt_length.         *)
DefaultOf(q) ==
  /\ default_tx[q] = NO_STATE => labeled_tx[q] = Symbol /\ dt_length[q] = 0
  /\ default_tx[q] # NO_STATE =>
       /\ default_tx[q] \in 0..q-1
       /\ depth[default_tx[q]] < depth[q]
       /\ dt_length[q] = dt_length[default_tx[q]] + 1
       /\ labeled_tx[q] = {c \in Symbol : Next(q, c) # Next(default_tx[q], c)}
  /\ dt_length[q] <= depth[q]

DefaultsInv ==
  /\ state \in 1..dfa.size
  /\ stage = "reduce" => state = 1
  /\ stage \notin {"reduce", "compress"} => state = dfa.size /\ DepthsFound
  /\ state > 1 => DepthsFound /\ (stage = "compress" => queue = <<>>)
  /\ default_tx \in [0..state-1 -> States \cup {NO_STATE}]
  /\ labeled_tx \in [0..state-1 -> SUBSET Symbol]
  /\ dt_length \in [0..state-1 -> Nat]
  /\ labeled_tx[0] = Symbol /\ dt_length[0] = 0
  /\ \A q \in 1..state-1 : DefaultOf(q)

LEMMA DefaultsInvInit ==
  ASSUME DefaultInit
  PROVE  DefaultsInv
<1>1. /\ dfa \in Dfas /\ state = 1 /\ stage = "reduce"
      /\ default_tx = [q \in {0} |-> 0]
      /\ labeled_tx = [q \in {0} |-> Symbol]
      /\ dt_length = [q \in {0} |-> 0]
  BY DEF DefaultInit, AlphabetInit
<1>2. dfa.size \in Nat \ {0} /\ 0 \in States
  BY <1>1, TableFacts DEF States
<1>3. 0..state-1 = {0} /\ 1..state-1 = {} /\ state \in 1..dfa.size /\ ~(state > 1)
  BY <1>1, <1>2
<1> QED BY <1>1, <1>2, <1>3 DEF DefaultsInv

LEMMA CommonFacts ==
  ASSUME dfa \in Dfas, NEW q, NEW p
  PROVE  Common(q, p) \in 0..CSize
<1> DEFINE T == {c \in Symbol : Next(q, c) = Next(p, c)}
<1>1. CSize \in Nat /\ Symbol = 0..CSize-1
  BY TableFacts
<1>2. IsFiniteSet(Symbol) /\ Cardinality(Symbol) = CSize
  <2>1. IsFiniteSet(0..CSize-1) /\ Cardinality(0..CSize-1) = IF 0 > CSize-1 THEN 0 ELSE CSize-1-0+1
    BY <1>1, FS_Interval
  <2> QED BY <1>1, <2>1
<1>3. T \in SUBSET Symbol
  OBVIOUS
<1> HIDE DEF T
<1>4. Cardinality(T) \in Nat /\ Cardinality(T) <= CSize
  BY <1>2, <1>3, MoreElements
<1>5. Common(q, p) = Cardinality(T)
  BY DEF Common, T
<1> QED BY <1>1, <1>4, <1>5

(* There are candidates, all before the state, and one is preferred. *)
LEMMA BestFacts ==
  ASSUME dfa \in Dfas, DefaultsInv, DepthsFound, state < dfa.size
  PROVE  Best(state) \in 0..state-1 /\ depth[Best(state)] < depth[state]
<1>1. dfa.size \in Nat \ {0} /\ States = 0..dfa.size-1 /\ state \in 1..dfa.size-1
  BY TableFacts DEF States, DefaultsInv
<1>2. /\ depth \in [States -> Nat]
      /\ depth[state] > 0 /\ depth[0] = 0
      /\ \A p, q \in States : p <= q => depth[p] <= depth[q]
  <2>1. state \in States /\ 0 \in States /\ state > 0
    BY <1>1
  <2>2. depth \in [States -> Nat] /\ depth[0] <= 0 /\ depth[state] > 0
    BY <2>1 DEF DepthsFound
  <2>3. depth[0] \in Nat
    BY <2>1, <2>2
  <2> QED BY <2>2, <2>3 DEF DepthsFound
<1> DEFINE C == Candidates(state)
<1>3. \A p \in C : p \in 0..state-1 /\ p \in Nat /\ depth[p] < depth[state]
  <2> TAKE p \in C
  <2>1. p \in States /\ depth[state] - 1 >= depth[p]
    BY DEF Candidates
  <2>2. state \in States /\ depth[p] \in Nat /\ depth[state] \in Nat
    BY <1>1, <1>2, <2>1
  <2>3. ~(state <= p)
    <3>1. state <= p => depth[state] <= depth[p]
      BY <1>2, <2>1, <2>2
    <3> QED BY <2>1, <2>2, <3>1
  <2> QED BY <1>1, <2>1, <2>2, <2>3
<1>4. C # {}
  <2>1. 0 \in States /\ state \in States
    BY <1>1
  <2>2. depth[state] \in Nat
    BY <1>2, <2>1
  <2> QED BY <1>2, <2>1, <2>2 DEF Candidates
<1>5. \A p \in C : dt_length[p] \in Nat
  <2>1. dt_length \in [0..state-1 -> Nat]
    BY DEF DefaultsInv
  <2> QED BY <1>3, <2>1
<1>6. \A p : Common(state, p) \in 0..CSize /\ CSize - Common(state, p) \in Nat /\ CSize \in Nat
  <2> TAKE p
  <2>1. Common(state, p) \in 0..CSize /\ CSize \in Nat
    BY CommonFacts, TableFacts
  <2> QED BY <2>1
<1> HIDE DEF C
<1>7. PICK p1 \in C : \A r \in C : Common(state, p1) >= Common(state, r)
  <2> DEFINE T == {CSize - Common(state, p) : p \in C}
  <2>1. T \in SUBSET Nat /\ T # {}
    BY <1>4, <1>6
  <2>2. PICK x \in T : \A y \in T : x <= y
    BY <2>1, LeastElement
  <2>3. PICK p \in C : x = CSize - Common(state, p)
    BY <2>2
  <2>4. \A r \in C : CSize - Common(state, p) <= CSize - Common(state, r)
    BY <2>2, <2>3
  <2>5. \A r \in C : Common(state, p) >= Common(state, r)
    <3> TAKE r \in C
    <3>1. Common(state, p) \in 0..CSize /\ Common(state, r) \in 0..CSize /\ CSize \in Nat
      BY <1>6
    <3>2. CSize - Common(state, p) <= CSize - Common(state, r)
      BY <2>4
    <3> QED BY <3>1, <3>2
  <2> QED BY <2>5
<1> DEFINE C1 == {p \in C : Common(state, p) = Common(state, p1)}
<1>8. PICK p2 \in C1 : \A r \in C1 : dt_length[p2] <= dt_length[r]
  <2> DEFINE T == {dt_length[p] : p \in C1}
  <2>1. T \in SUBSET Nat /\ T # {}
    BY <1>5
  <2>2. PICK x \in T : \A y \in T : x <= y
    BY <2>1, LeastElement
  <2> QED BY <2>2
<1> DEFINE C2 == {p \in C1 : dt_length[p] = dt_length[p2]}
<1>9. PICK p3 \in C2 : \A r \in C2 : p3 <= r
  <2>1. C2 \in SUBSET Nat /\ C2 # {}
    BY <1>3
  <2> QED BY <2>1, LeastElement
<1>10. \A r \in C : Preferred(state, p3, r)
  <2> TAKE r \in C
  <2>1. Common(state, p3) = Common(state, p1) /\ dt_length[p3] = dt_length[p2] /\ p3 \in C
    BY <1>9
  <2>2. CASE r \notin C1
    <3>1. Common(state, p1) >= Common(state, r) /\ Common(state, r) # Common(state, p1)
      BY <1>7, <2>2
    <3>2. Common(state, p1) \in 0..CSize /\ Common(state, r) \in 0..CSize /\ CSize \in Nat
      BY <1>6
    <3>3. Common(state, p1) > Common(state, r)
      BY <3>1, <3>2
    <3> QED BY <2>1, <3>3 DEF Preferred
  <2>3. CASE r \in C1 /\ r \notin C2
    <3>1. dt_length[p2] <= dt_length[r] /\ dt_length[r] # dt_length[p2]
      BY <1>8, <2>3
    <3>2. dt_length[p2] \in Nat /\ dt_length[r] \in Nat
      BY <1>5
    <3>3. dt_length[p2] < dt_length[r]
      BY <3>1, <3>2
    <3> QED BY <2>1, <2>3, <3>3 DEF Preferred
  <2>4. CASE r \in C2
    BY <1>9, <2>1, <2>4 DEF Preferred
  <2> QED BY <2>2, <2>3, <2>4
<1>11. Best(state) \in C
  BY <1>9, <1>10 DEF Best, C
<1> QED BY <1>3, <1>11


LEMMA CompressStateKeeps ==
  ASSUME dfa \in Dfas, DepthInv, DefaultsInv, CompressState, UNCHANGED dfa
  PROVE  DefaultsInv'
<1>1. /\ stage = "compress" /\ queue = <<>> /\ state < dfa.size
      /\ state' = state + 1 /\ UNCHANGED <<stage, depth, queue>>
  BY DEF CompressState
<1>2. DepthsFound
  BY <1>1, QueueEmpty
<1>3. dfa.size \in Nat \ {0} /\ States = 0..dfa.size-1 /\ state \in 1..dfa.size-1
  BY <1>1, TableFacts DEF States, DefaultsInv
<1>4. Best(state) \in 0..state-1 /\ depth[Best(state)] < depth[state]
  BY <1>1, <1>2, BestFacts
<1> DEFINE dt == IF Common(state, Best(state)) = 1 THEN NO_STATE ELSE Best(state)
           L == IF dt = NO_STATE THEN 0 ELSE dt_length[dt] + 1
           X == {c \in Symbol : dt = NO_STATE \/ Next(state, c) # Next(dt, c)}
<1>5. /\ default_tx' = AddTo(default_tx, state, dt)
      /\ dt_length' = AddTo(dt_length, state, L)
      /\ labeled_tx' = AddTo(labeled_tx, state, X)
  BY DEF CompressState
<1>6. /\ default_tx \in [0..state-1 -> States \cup {NO_STATE}]
      /\ labeled_tx \in [0..state-1 -> SUBSET Symbol]
      /\ dt_length \in [0..state-1 -> Nat]
      /\ labeled_tx[0] = Symbol /\ dt_length[0] = 0
      /\ \A q \in 1..state-1 : DefaultOf(q)
  BY DEF DefaultsInv
<1>7. dt = NO_STATE \/ (dt # NO_STATE /\ dt \in 0..state-1 /\ depth[dt] < depth[state])
  BY <1>3, <1>4 DEF NO_STATE
<1>8. \A p \in States : depth[p] \in Nat
  BY <1>2 DEF DepthsFound
<1>9. \A p \in 0..state-1 : dt_length[p] \in Nat /\ dt_length[p] <= depth[p] /\ p \in States
  <2> TAKE p \in 0..state-1
  <2>1. p \in States /\ dt_length[p] \in Nat
    BY <1>3, <1>6
  <2>2. CASE p = 0
    <3>1. depth[p] \in Nat
      BY <1>8, <2>1
    <3> QED BY <1>6, <2>1, <2>2, <3>1
  <2>3. CASE p # 0
    <3>1. p \in 1..state-1
      BY <2>3
    <3> QED BY <1>6, <2>1, <3>1 DEF DefaultOf
  <2> QED BY <2>2, <2>3
<1> HIDE DEF dt
<1>10. L \in Nat /\ L <= depth[state]
  <2>0. state \in States /\ depth[state] \in Nat
    BY <1>3, <1>8
  <2>1. CASE dt = NO_STATE
    BY <2>0, <2>1
  <2>2. CASE dt # NO_STATE
    <3>1. dt_length[dt] \in Nat /\ dt_length[dt] <= depth[dt] /\ depth[dt] \in Nat /\ depth[dt] < depth[state]
      BY <1>7, <1>8, <1>9, <2>2
    <3> QED BY <2>0, <2>2, <3>1
  <2> QED BY <2>1, <2>2
<1>11. X \in SUBSET Symbol /\ dt \in States \cup {NO_STATE}
  BY <1>7, <1>9
<1> HIDE DEF L, X
<1>12. 0..state'-1 = 0..state-1 \cup {state} /\ state \notin 0..state-1 /\ 1..state'-1 = 1..state-1 \cup {state}
  BY <1>1, <1>3
<1>13. /\ default_tx' \in [0..state'-1 -> States \cup {NO_STATE}]
       /\ labeled_tx' \in [0..state'-1 -> SUBSET Symbol]
       /\ dt_length' \in [0..state'-1 -> Nat]
       /\ default_tx'[state] = dt /\ labeled_tx'[state] = X /\ dt_length'[state] = L
       /\ \A q \in 0..state-1 : /\ default_tx'[q] = default_tx[q] /\ labeled_tx'[q] = labeled_tx[q]
                                /\ dt_length'[q] = dt_length[q]
  BY <1>5, <1>6, <1>10, <1>11, <1>12 DEF AddTo
<1>14. States' = States /\ \A q, c : Next(q, c)' = Next(q, c)
  BY DEF States, StatesOf, Next
<1>15. DepthsFound'
  BY <1>1, <1>2, <1>14 DEF DepthsFound
<1>16. \A q \in 1..state-1 : DefaultOf(q)'
  <2> TAKE q \in 1..state-1
  <2>1. DefaultOf(q) /\ q \in 0..state-1
    BY <1>6
  <2>2. default_tx[q] # NO_STATE => default_tx[q] \in 0..state-1
    <3>1. default_tx[q] # NO_STATE => default_tx[q] \in 0..q-1
      BY <2>1 DEF DefaultOf
    <3> QED BY <1>3, <3>1
  <2>3. /\ default_tx'[q] = default_tx[q] /\ labeled_tx'[q] = labeled_tx[q] /\ dt_length'[q] = dt_length[q]
        /\ default_tx[q] # NO_STATE => dt_length'[default_tx[q]] = dt_length[default_tx[q]]
    BY <1>13, <2>1, <2>2
  <2> QED BY <1>1, <1>14, <2>1, <2>3 DEF DefaultOf
<1>17. ASSUME NEW q \in {state}
       PROVE  DefaultOf(q)'
  <2>1. /\ default_tx'[q] = dt /\ labeled_tx'[q] = X /\ dt_length'[q] = L /\ q = state
        /\ dt # NO_STATE => dt_length'[dt] = dt_length[dt]
    BY <1>7, <1>13
  <2>2. dt = NO_STATE => X = Symbol /\ L = 0
    BY DEF X, L
  <2>3. dt # NO_STATE => L = dt_length[dt] + 1 /\ X = {c \in Symbol : Next(q, c) # Next(dt, c)}
    BY DEF X, L
  <2>4. /\ dt = NO_STATE \/ (dt # NO_STATE /\ dt \in 0..q-1 /\ depth[dt] < depth[q])
        /\ L <= depth[q]
    BY <1>7, <1>10
  <2> QED BY <1>1, <1>14, <2>1, <2>2, <2>3, <2>4 DEF DefaultOf
<1>18. state' \in 1..dfa.size /\ state' > 1
  BY <1>1, <1>3
<1>19. \A q \in 1..state'-1 : DefaultOf(q)'
  BY <1>12, <1>16, <1>17
<1>20. labeled_tx'[0] = Symbol /\ dt_length'[0] = 0
  BY <1>3, <1>6, <1>13
<1> QED BY <1>1, <1>13, <1>14, <1>15, <1>18, <1>19, <1>20 DEF DefaultsInv


-----------------------------------------------------------------------------
DefaultInv == AlphabetInv /\ DepthInv /\ DefaultsInv

LEMMA DefaultInvInit == DefaultInit => DefaultInv
<1> SUFFICES ASSUME DefaultInit PROVE DefaultInv
  OBVIOUS
<1>1. AlphabetInv
  BY AlphabetInvInit DEF DefaultInit
<1> QED BY <1>1, DepthInvInit, DefaultsInvInit DEF DefaultInv

(* What the invariants say of the DFA, its depths and default transitions is *)
(* not about how far the reduction or the queue have come.                  *)
LEMMA DerivedUnchanged ==
  ASSUME UNCHANGED <<dfa, depth, default_tx, labeled_tx, dt_length>>
  PROVE  /\ States' = States
         /\ \A q, c : Next(q, c)' = Next(q, c)
         /\ \A h : Seen(h)' = Seen(h)
         /\ \A q : DefaultOf(q)' <=> DefaultOf(q)
         /\ DepthsFound' <=> DepthsFound
<1>1. States' = States /\ (\A q, c : Next(q, c)' = Next(q, c)) /\ (\A h : Seen(h)' = Seen(h))
  BY DEF States, StatesOf, Next, Seen
<1>2. \A q : DefaultOf(q)' <=> DefaultOf(q)
  BY <1>1 DEF DefaultOf
<1>3. DepthsFound' <=> DepthsFound
  BY <1>1 DEF DepthsFound
<1> QED BY <1>1, <1>2, <1>3

(* The invariant after a step that leaves what has been found as it is. *)
LEMMA DefaultInvLater ==
  ASSUME DefaultInv,
         UNCHANGED <<dfa, given, alphabet_tx, max_class, s, t, depth, default_tx, labeled_tx, dt_length, state>>,
         \/ stage \notin {"reduce", "compress"} /\ stage' \notin {"reduce", "compress"}
         \/ UNCHANGED <<stage, queue>>
         \/ Reduced /\ UNCHANGED queue
         \/ Compressed
  PROVE  DefaultInv'
<1>1. AlphabetInv /\ DepthInv /\ DefaultsInv /\ dfa \in Dfas
  BY DEF DefaultInv, AlphabetInv, AlphabetTypeOK
<1>2. AlphabetInv'
  <2>1. stage' = "reduce" \/ stage # "reduce" \/ s = dfa.size
    BY <1>1 DEF Reduced, Compressed, AlphabetInv, AlphabetTypeOK
  <2> QED BY <1>1, <2>1, AlphabetInvLater
<1>3. /\ States' = States
      /\ \A h : Seen(h)' = Seen(h)
      /\ \A q : DefaultOf(q)' <=> DefaultOf(q)
      /\ DepthsFound' <=> DepthsFound
  BY DerivedUnchanged
<1>4. DepthInv'
  <2>1. CASE stage' \notin {"reduce", "compress"}
    BY <2>1 DEF DepthInv
  <2>2. CASE stage' \in {"reduce", "compress"}
    <3>1. stage \in {"reduce", "compress"} /\ queue' = queue
      BY <2>2 DEF Reduced, Compressed
    <3>2. PICK h \in 0..dfa.size, m \in 1..dfa.size : h <= m /\ Discovering(h, m)
      BY <1>1, <3>1 DEF DepthInv
    <3>3. Discovering(h, m)'
      BY <1>3, <3>1, <3>2 DEF Discovering, NO_DEPTH
    <3> QED BY <3>2, <3>3 DEF DepthInv
  <2> QED BY <2>1, <2>2
<1>5. stage' = "reduce" => stage = "reduce"
  BY DEF Reduced, Compressed
<1>6. stage' \notin {"reduce", "compress"} => state = dfa.size /\ DepthsFound
  <2>1. CASE stage \notin {"reduce", "compress"}
    BY <1>1, <2>1 DEF DefaultsInv
  <2>2. CASE Compressed
    BY <1>1, <2>2, QueueEmpty DEF Compressed
  <2> QED BY <2>1, <2>2 DEF Reduced
<1>7. state > 1 => DepthsFound /\ (stage' = "compress" => queue' = <<>>)
  <2> SUFFICES ASSUME state > 1 PROVE DepthsFound /\ (stage' = "compress" => queue' = <<>>)
    OBVIOUS
  <2>1. DepthsFound /\ stage # "reduce" /\ (stage = "compress" => queue = <<>>)
    BY <1>1 DEF DefaultsInv
  <2> QED BY <2>1 DEF Reduced, Compressed
<1>8. DefaultsInv'
  BY <1>1, <1>3, <1>5, <1>6, <1>7 DEF DefaultsInv, NO_STATE
<1> QED BY <1>2, <1>4, <1>8 DEF DefaultInv

LEMMA DefaultInvNext ==
  ASSUME DefaultInv, DefaultNext
  PROVE  DefaultInv'
<1>1. AlphabetInv /\ DepthInv /\ DefaultsInv /\ dfa \in Dfas
  BY DEF DefaultInv, AlphabetInv, AlphabetTypeOK
<1>2. CASE ReducePair /\ UNCHANGED <<dfa, given, compressVars>>
  <2>1. UNCHANGED <<dfa, given, depth, queue, default_tx, labeled_tx, dt_length, state, stage>>
    BY <1>2 DEF compressVars, ReducePair
  <2>2. AlphabetInv'
    BY <1>1, <1>2, <2>1, ReducePairKeeps
  <2>3. /\ States' = States /\ \A h : Seen(h)' = Seen(h)
        /\ \A q : DefaultOf(q)' <=> DefaultOf(q)
        /\ DepthsFound' <=> DepthsFound
    BY <2>1, DerivedUnchanged
  <2>4. \A h, m : Discovering(h, m)' <=> Discovering(h, m)
    BY <2>1, <2>3 DEF Discovering, NO_DEPTH
  <2>5. DepthInv'
    BY <1>1, <2>1, <2>4 DEF DepthInv
  <2>6. DefaultsInv'
    BY <1>1, <2>1, <2>3 DEF DefaultsInv, NO_STATE
  <2> QED BY <2>2, <2>5, <2>6 DEF DefaultInv
<1>3. CASE Reduced /\ UNCHANGED <<dfa, given, compressVars>>
  BY <1>3, DefaultInvLater DEF compressVars, Reduced
<1>4. CASE SetDepth /\ UNCHANGED <<dfa, given, alphabet_tx, max_class, s, t>>
  <2>1. DepthInv'
    BY <1>1, <1>4, SetDepthKeeps
  <2>2. UNCHANGED <<stage, default_tx, labeled_tx, dt_length, state, dfa>> /\ stage = "compress" /\ queue # <<>>
    BY <1>4 DEF SetDepth
  <2>3. AlphabetInv'
    BY <1>1, <1>4, <2>2, AlphabetInvLater
  <2>4. state = 1
    BY <1>1, <2>2, TableFacts DEF DefaultsInv
  <2>5. DefaultsInv'
    <3>1. 1..state-1 = {} /\ ~(state > 1) /\ 1..state'-1 = {} /\ ~(state' > 1)
      BY <2>2, <2>4
    <3>2. States' = States
      BY <2>2 DEF States, StatesOf
    <3> QED BY <1>1, <2>2, <3>1, <3>2 DEF DefaultsInv, NO_STATE
  <2> QED BY <2>1, <2>3, <2>5 DEF DefaultInv
<1>5. CASE CompressState /\ UNCHANGED <<dfa, given, alphabet_tx, max_class, s, t>>
  <2>1. DefaultsInv'
    BY <1>1, <1>5, CompressStateKeeps
  <2>2. UNCHANGED <<stage, depth, queue, dfa>> /\ stage = "compress"
    BY <1>5 DEF CompressState
  <2>3. AlphabetInv'
    BY <1>1, <1>5, <2>2, AlphabetInvLater
  <2>4. \A h, m : Discovering(h, m)' <=> Discovering(h, m)
    BY <2>2 DEF Discovering, NO_DEPTH, States, StatesOf, Seen, Next
  <2>5. DepthInv'
    BY <1>1, <2>2, <2>4 DEF DepthInv
  <2> QED BY <2>1, <2>3, <2>5 DEF DefaultInv
<1>6. CASE Compressed /\ UNCHANGED <<dfa, given, alphabet_tx, max_class, s, t>>
  <2>1. UNCHANGED <<dfa, given, alphabet_tx, max_class, s, t, depth, default_tx, labeled_tx, dt_length, state>>
    BY <1>6 DEF Compressed
  <2> QED BY <1>6, <2>1, DefaultInvLater
<1> QED BY <1>2, <1>3, <1>4, <1>5, <1>6 DEF DefaultNext, AlphabetNext

-----------------------------------------------------------------------------
(* A chain of default transitions goes to states with the same transition,  *)
(* and is at a labeled one after at most dt_length steps.                   *)
LEMMA ChainFacts ==
  ASSUME dfa \in Dfas, DefaultsInv, stage \notin {"reduce", "compress"}, NEW q \in States, NEW c \in Symbol
  PROVE  \A n \in 0..dfa.size :
           /\ Chain(q, c)[n] \in 0..q
           /\ Next(Chain(q, c)[n], c) = Next(q, c)
           /\ c \in labeled_tx[Chain(q, c)[n]] \/ dt_length[Chain(q, c)[n]] <= dt_length[q] - n
<1>1. dfa.size \in Nat \ {0} /\ States = 0..dfa.size-1 /\ state = dfa.size /\ q \in Nat
  BY TableFacts DEF States, DefaultsInv
<1> DEFINE N == dfa.size
           After(p) == IF c \in labeled_tx[p] \/ default_tx[p] = NO_STATE THEN p ELSE default_tx[p]
           Walk(w) == [n \in 0..N |-> IF n = 0 THEN q ELSE After(w[n-1])]
<1>2. \A n \in Nat : n <= N =>
        \E w : w = [m \in 0..n |-> IF m = 0 THEN q ELSE After(w[m-1])]
  <2> DEFINE T == {n \in Nat : n <= N => \E w : w = [m \in 0..n |-> IF m = 0 THEN q ELSE After(w[m-1])]}
  <2>1. 0 \in T
    <3> DEFINE w == [m \in 0..0 |-> q]
    <3>1. w = [m \in 0..0 |-> IF m = 0 THEN q ELSE After(w[m-1])]
      OBVIOUS
    <3> HIDE DEF w, After
    <3> QED BY <3>1
  <2>2. \A n \in Nat : n \in T => n + 1 \in T
    <3> SUFFICES ASSUME NEW n \in Nat, n \in T, n + 1 <= N
                 PROVE  \E w : w = [m \in 0..n+1 |-> IF m = 0 THEN q ELSE After(w[m-1])]
      OBVIOUS
    <3>1. n <= N
      BY <1>1
    <3>2. PICK w : w = [m \in 0..n |-> IF m = 0 THEN q ELSE After(w[m-1])]
      BY <3>1
    <3> DEFINE v == [m \in 0..n+1 |-> IF m = n + 1 THEN After(w[n]) ELSE w[m]]
    <3> HIDE DEF After
    <3>3. \A m \in 0..n : v[m] = w[m] /\ m \in 0..n+1
      OBVIOUS
    <3>4. \A m \in 0..n+1 : m # 0 => m - 1 \in 0..n /\ v[m-1] = w[m-1]
      OBVIOUS
    <3>5. ASSUME NEW m \in 0..n+1 PROVE v[m] = IF m = 0 THEN q ELSE After(v[m-1])
      <4>1. CASE m = n + 1
        BY <3>4, <4>1
      <4>2. CASE m # n + 1
        <5>1. m \in 0..n
          BY <4>2
        <5>2. w[m] = IF m = 0 THEN q ELSE After(w[m-1])
          BY <3>2, <5>1
        <5> QED BY <3>3, <3>4, <5>1, <5>2
      <4> QED BY <4>1, <4>2
    <3>6. v = [m \in 0..n+1 |-> v[m]]
      OBVIOUS
    <3> HIDE DEF v
    <3>7. v = [m \in 0..n+1 |-> IF m = 0 THEN q ELSE After(v[m-1])]
      BY <3>5, <3>6
    <3> QED BY <3>7
  <2> HIDE DEF T
  <2>3. \A n \in Nat : n \in T
    BY <2>1, <2>2, Inductive
  <2> QED BY <2>3 DEF T
<1>3. \E w : w = Walk(w)
  BY <1>1, <1>2
<1>4. Chain(q, c) = Walk(Chain(q, c))
  BY <1>3 DEF Chain
<1> DEFINE W == Chain(q, c)
<1> HIDE DEF W
<1>5. W[0] = q /\ \A n \in 1..N : W[n] = After(W[n-1])
  <2>1. W = Walk(W)
    BY <1>4 DEF W
  <2>2. 0 \in 0..N /\ \A n \in 1..N : n \in 0..N /\ n # 0
    BY <1>1
  <2> HIDE DEF After
  <2> QED BY <2>1, <2>2
<1> DEFINE P(n) == /\ W[n] \in 0..q
                   /\ Next(W[n], c) = Next(q, c)
                   /\ c \in labeled_tx[W[n]] \/ dt_length[W[n]] <= dt_length[q] - n
<1>6. \A p \in States : dt_length[p] \in Nat
  BY <1>1 DEF DefaultsInv
<1>7. P(0)
  BY <1>1, <1>5, <1>6
<1>8. ASSUME NEW n \in 0..N-1, P(n) PROVE P(n + 1)
  <2> DEFINE p == W[n]
  <2>1. n + 1 \in 1..N /\ (n + 1) - 1 = n /\ n \in Nat
    BY <1>1
  <2>2. W[n + 1] = After(p)
    BY <1>5, <2>1
  <2>3. p \in 0..q /\ p \in 0..state-1 /\ p \in States
    BY <1>1, <1>8
  <2> HIDE DEF p
  <2>4. CASE c \in labeled_tx[p]
    <3>1. W[n + 1] = p
      BY <2>2, <2>4
    <3> QED BY <1>8, <2>4, <3>1 DEF p
  <2>5. CASE c \notin labeled_tx[p]
    <3>1. p # 0
      BY <2>5 DEF DefaultsInv
    <3>2. DefaultOf(p)
      <4>1. p \in 1..state-1
        BY <2>3, <3>1
      <4> QED BY <4>1 DEF DefaultsInv
    <3>3. default_tx[p] # NO_STATE
      BY <2>5, <3>2 DEF DefaultOf
    <3>4. /\ default_tx[p] \in 0..p-1 /\ dt_length[p] = dt_length[default_tx[p]] + 1
          /\ Next(p, c) = Next(default_tx[p], c)
      BY <2>5, <3>2, <3>3 DEF DefaultOf
    <3>5. W[n + 1] = default_tx[p]
      BY <2>2, <2>5, <3>3
    <3>6. default_tx[p] \in 0..q /\ default_tx[p] \in States
      BY <1>1, <2>3, <3>4
    <3>7. dt_length[p] <= dt_length[q] - n
      BY <1>8, <2>5 DEF p
    <3>8. dt_length[default_tx[p]] <= dt_length[q] - (n + 1)
      BY <1>6, <2>1, <2>3, <3>4, <3>6, <3>7
    <3> QED BY <1>8, <3>4, <3>5, <3>6, <3>8 DEF p
  <2> QED BY <2>4, <2>5
<1>9. \A n \in Nat : n <= N => P(n)
  <2> DEFINE T == {n \in Nat : n <= N => P(n)}
  <2>1. 0 \in T
    BY <1>7
  <2>2. \A n \in Nat : n \in T => n + 1 \in T
    <3> SUFFICES ASSUME NEW n \in Nat, n \in T, n + 1 <= N PROVE P(n + 1)
      OBVIOUS
    <3>1. n \in 0..N-1 /\ P(n)
      BY <1>1
    <3> HIDE DEF P
    <3> QED BY <1>8, <3>1
  <2> HIDE DEF T
  <2>3. \A n \in Nat : n \in T
    BY <2>1, <2>2, Inductive
  <2> QED BY <2>3 DEF T
<1> QED BY <1>1, <1>9 DEF W


LEMMA ChainEnds ==
  ASSUME dfa \in Dfas, DefaultsInv, stage \notin {"reduce", "compress"}, NEW q \in States, NEW c \in Symbol,
         NEW n \in 0..dfa.size, dt_length[q] <= n
  PROVE  /\ Chain(q, c)[n] \in 0..q /\ c \in labeled_tx[Chain(q, c)[n]]
         /\ Next(Chain(q, c)[n], c) = Next(q, c)
<1>1. dfa.size \in Nat \ {0} /\ States = 0..dfa.size-1 /\ state = dfa.size
  BY TableFacts DEF States, DefaultsInv
<1> DEFINE p == Chain(q, c)[n]
<1>2. p \in 0..q /\ Next(p, c) = Next(q, c) /\ (c \in labeled_tx[p] \/ dt_length[p] <= dt_length[q] - n)
  BY ChainFacts
<1> HIDE DEF p
<1>3. \A r \in States : dt_length[r] \in Nat
  BY <1>1 DEF DefaultsInv
<1>4. p \in States
  BY <1>1, <1>2
<1>5. ASSUME c \notin labeled_tx[p] PROVE FALSE
  <2>1. dt_length[p] = 0
    <3>1. dt_length[p] \in Nat /\ dt_length[q] \in Nat /\ dt_length[p] <= dt_length[q] - n
      BY <1>2, <1>3, <1>4, <1>5
    <3> QED BY <3>1
  <2>2. p # 0
    BY <1>5 DEF DefaultsInv
  <2>3. p \in 1..state-1
    BY <1>1, <1>4, <2>2
  <2>4. DefaultOf(p)
    BY <2>3 DEF DefaultsInv
  <2>5. default_tx[p] # NO_STATE
    BY <1>5, <2>4 DEF DefaultOf
  <2>6. default_tx[p] \in 0..p-1 /\ dt_length[p] = dt_length[default_tx[p]] + 1
    BY <2>4, <2>5 DEF DefaultOf
  <2>7. default_tx[p] \in States
    BY <1>1, <1>4, <2>6
  <2>8. dt_length[default_tx[p]] \in Nat
    BY <1>3, <2>7
  <2> QED BY <2>1, <2>6, <2>8
<1> QED BY <1>2, <1>5 DEF p

(* The depth of a state is at most its number, and its chain no longer. *)
LEMMA ChainBound ==
  ASSUME dfa \in Dfas, DefaultsInv, stage \notin {"reduce", "compress"}, NEW q \in States
  PROVE  dt_length[q] \in 0..dfa.size
<1>1. dfa.size \in Nat \ {0} /\ States = 0..dfa.size-1 /\ state = dfa.size /\ DepthsFound
  BY TableFacts DEF States, DefaultsInv
<1>2. dt_length[q] \in Nat
  BY <1>1 DEF DefaultsInv
<1>3. depth[q] \in Nat /\ depth[q] <= q
  BY <1>1 DEF DepthsFound
<1>4. CASE q = 0
  <2>1. dt_length[q] = 0
    BY <1>4 DEF DefaultsInv
  <2> QED BY <1>1, <2>1
<1>5. CASE q # 0
  <2>1. q \in 1..state-1
    BY <1>1, <1>5
  <2>2. dt_length[q] <= depth[q]
    BY <2>1 DEF DefaultsInv, DefaultOf
  <2> QED BY <1>1, <1>2, <1>3, <2>2
<1> QED BY <1>4, <1>5

LEMMA DefaultsGoUp == DefaultInv => DefaultsAreShallower
<1> SUFFICES ASSUME DefaultInv, NEW q \in 1..state-1
             PROVE  /\ default_tx[q] # NO_STATE => depth[default_tx[q]] < depth[q]
                    /\ dt_length[q] <= depth[q]
  BY DEF DefaultsAreShallower
<1>1. DefaultOf(q)
  BY DEF DefaultInv, DefaultsInv
<1> QED BY <1>1 DEF DefaultOf

LEMMA LookupFindsTable == DefaultInv => LookupIsTable
<1> SUFFICES ASSUME DefaultInv, stage \in {"layout", "map", "traverse"}, NEW q \in States, NEW c \in Symbol
             PROVE  /\ c \in labeled_tx[Chain(q, c)[dt_length[q]]]
                    /\ Next(Chain(q, c)[dt_length[q]], c) = Next(q, c)
  BY DEF LookupIsTable
<1>1. dfa \in Dfas /\ DefaultsInv /\ stage \notin {"reduce", "compress"}
  BY DEF DefaultInv, AlphabetInv, AlphabetTypeOK
<1>2. dt_length[q] \in 0..dfa.size /\ dt_length[q] <= dt_length[q]
  <2>1. dt_length[q] \in 0..dfa.size
    BY <1>1, ChainBound
  <2>2. dfa.size \in Nat
    BY <1>1, TableFacts
  <2> QED BY <2>1, <2>2
<1> QED BY <1>1, <1>2, ChainEnds

LEMMA DefaultAlways == DefaultSpec => []DefaultInv
<1>1. DefaultInit => DefaultInv
  BY DefaultInvInit
<1>2. DefaultInv /\ [DefaultNext]_defaultVars => DefaultInv'
  <2> SUFFICES ASSUME DefaultInv, [DefaultNext]_defaultVars PROVE DefaultInv'
    OBVIOUS
  <2>1. CASE DefaultNext
    BY <2>1, DefaultInvNext
  <2>2. CASE UNCHANGED defaultVars
    BY <2>2, DefaultInvLater DEF defaultVars, alphabetVars, compressVars
  <2> QED BY <2>1, <2>2
<1> QED BY <1>1, <1>2, PTL DEF DefaultSpec

(* Symbols get the same class exactly when they had it before and no state   *)
(* tells them apart, for every DFA and translation table: alphabet_reduction *)
(* neither merges too much nor too little.                                  *)
THEOREM AlphabetIsMinimal == AlphabetSpec => []ClassesAreColumns
<1>1. AlphabetInit => AlphabetInv
  BY AlphabetInvInit
<1>2. AlphabetInv /\ [AlphabetNext]_alphabetVars => AlphabetInv'
  <2> SUFFICES ASSUME AlphabetInv, [AlphabetNext]_alphabetVars PROVE AlphabetInv'
    OBVIOUS
  <2>1. CASE AlphabetNext
    BY <2>1, AlphabetInvNext
  <2>2. CASE UNCHANGED alphabetVars
    BY <2>2, AlphabetInvLater DEF alphabetVars
  <2> QED BY <2>1, <2>2
<1>3. AlphabetInv => ClassesAreColumns
  BY ReducedColumns
<1> QED BY <1>1, <1>2, <1>3, PTL DEF AlphabetSpec

(* Default transitions go to shallower states, for every DFA whose states    *)
(* are numbered as they are discovered: no chain of fast_compression_algorithm *)
(* is longer than its state is deep.                                       *)
THEOREM DefaultsLeadToRoot == DefaultSpec => []DefaultsAreShallower
BY DefaultAlways, DefaultsGoUp, PTL

(* Looking transitions up through the default transitions finds those of the *)
(* table, for every such DFA: the compression loses nothing.               *)
THEOREM CompressionLosesNothing == DefaultSpec => []LookupIsTable
BY DefaultAlways, LookupFindsTable, PTL

-----------------------------------------------------------------------------
(* What compression leaves to compDFA: a class leads everywhere to where its *)
(* symbols lead, and the default transition leads on when a class has no    *)
(* labeled one.                                                            *)
Class == 0..max_class

LaidOutStage == stage \in {"layout", "map", "traverse", "undefined"}

LEMMA ClassFacts ==
  ASSUME DefaultInv, LaidOutStage
  PROVE  /\ dfa \in Dfas /\ dfa.size \in Nat \ {0} /\ States = 0..dfa.size-1 /\ state = dfa.size
         /\ max_class \in Nat /\ alphabet_tx \in [Symbol -> Class]
         /\ \A q \in States, c \in Symbol : Next(q, c) \in States
         /\ \A k \in Class : SymbolOf(k) \in Symbol /\ alphabet_tx[SymbolOf(k)] = k
         /\ \A q \in States, c \in Symbol : Labeled(q, alphabet_tx[c]) = Next(q, c)
         /\ \A q \in States, k \in Class : Labeled(q, k) \in States
<1>1. dfa \in Dfas /\ AlphabetTypeOK /\ ClassesAreColumns /\ DefaultsInv /\ stage \notin {"reduce", "compress"}
  BY ReducedColumns DEF DefaultInv, AlphabetInv, AlphabetTypeOK, LaidOutStage
<1>2. /\ dfa.size \in Nat \ {0} /\ States = 0..dfa.size-1 /\ state = dfa.size
      /\ max_class \in Nat /\ alphabet_tx \in [Symbol -> Class]
      /\ \A k \in Class : \E c \in Symbol : alphabet_tx[c] = k
  BY <1>1, TableFacts DEF AlphabetTypeOK, DefaultsInv, States, Class
<1>3. \A q \in States, c \in Symbol : Next(q, c) \in States
  BY <1>1, TableFacts DEF States, Next
<1>4. \A k \in Class : SymbolOf(k) \in Symbol /\ alphabet_tx[SymbolOf(k)] = k
  BY <1>2 DEF SymbolOf
<1>5. ASSUME NEW q \in States, NEW c \in Symbol
      PROVE  Labeled(q, alphabet_tx[c]) = Next(q, c)
  <2> DEFINE d == SymbolOf(alphabet_tx[c])
  <2>1. d \in Symbol /\ alphabet_tx[d] = alphabet_tx[c]
    BY <1>2, <1>4
  <2>2. SameColumn(c, d)
    BY <1>1, <2>1 DEF ClassesAreColumns
  <2>3. dfa.state_table[q][c] = dfa.state_table[q][d]
    BY <2>2 DEF SameColumn, States
  <2> QED BY <2>3 DEF Labeled, Next
<1>6. \A q \in States, k \in Class : Labeled(q, k) \in States
  BY <1>3, <1>4 DEF Labeled
<1> QED BY <1>1, <1>2, <1>3, <1>4, <1>5, <1>6

LEMMA OwnFacts ==
  ASSUME DefaultInv, LaidOutStage, NEW q \in States
  PROVE  /\ Own(q) \subseteq Class
         /\ \A c \in Symbol : c \in labeled_tx[q] => alphabet_tx[c] \in Own(q)
         /\ \A k \in Class : k \in Own(q) <=> SymbolOf(k) \in labeled_tx[q]
         /\ q = 0 \/ default_tx[q] = NO_STATE => Own(q) = Class
         /\ q # 0 /\ default_tx[q] # NO_STATE =>
              /\ default_tx[q] \in 0..q-1 /\ default_tx[q] \in States
              /\ \A k \in Class \ Own(q) : Labeled(default_tx[q], k) = Labeled(q, k)
<1>1. /\ dfa.size \in Nat \ {0} /\ States = 0..dfa.size-1 /\ state = dfa.size
      /\ max_class \in Nat /\ alphabet_tx \in [Symbol -> Class]
      /\ \A k \in Class : SymbolOf(k) \in Symbol /\ alphabet_tx[SymbolOf(k)] = k
      /\ \A p \in States, c \in Symbol : Labeled(p, alphabet_tx[c]) = Next(p, c)
  BY ClassFacts
<1>2. labeled_tx[q] \subseteq Symbol /\ (q # 0 => DefaultOf(q)) /\ labeled_tx[0] = Symbol
  <2>1. DefaultsInv
    BY DEF DefaultInv
  <2>2. q \in 0..state-1 /\ (q # 0 => q \in 1..state-1)
    BY <1>1
  <2> QED BY <2>1, <2>2 DEF DefaultsInv
<1>3. Own(q) \subseteq Class /\ \A c \in Symbol : c \in labeled_tx[q] => alphabet_tx[c] \in Own(q)
  BY <1>1, <1>2 DEF Own
<1>4. ASSUME q # 0, default_tx[q] # NO_STATE
      PROVE  /\ default_tx[q] \in 0..q-1 /\ default_tx[q] \in States
             /\ labeled_tx[q] = {c \in Symbol : Next(q, c) # Next(default_tx[q], c)}
  <2>1. /\ default_tx[q] \in 0..q-1
        /\ labeled_tx[q] = {c \in Symbol : Next(q, c) # Next(default_tx[q], c)}
    BY <1>2, <1>4 DEF DefaultOf
  <2>2. default_tx[q] \in States
    BY <1>1, <2>1
  <2> QED BY <2>1, <2>2
<1>5. q = 0 \/ default_tx[q] = NO_STATE => labeled_tx[q] = Symbol
  BY <1>2 DEF DefaultOf
<1>6. ASSUME NEW k \in Class
      PROVE  k \in Own(q) <=> SymbolOf(k) \in labeled_tx[q]
  <2>1. SymbolOf(k) \in labeled_tx[q] => k \in Own(q)
    BY <1>1 DEF Own
  <2>2. ASSUME k \in Own(q) PROVE SymbolOf(k) \in labeled_tx[q]
    <3>1. PICK c \in labeled_tx[q] : k = alphabet_tx[c]
      BY <2>2 DEF Own
    <3>2. CASE q = 0 \/ default_tx[q] = NO_STATE
      BY <1>1, <1>5, <3>2
    <3>3. CASE q # 0 /\ default_tx[q] # NO_STATE
      <4>1. c \in Symbol /\ Next(q, c) # Next(default_tx[q], c)
        BY <1>4, <3>1, <3>3
      <4>2. Labeled(q, k) = Next(q, c) /\ Labeled(default_tx[q], k) = Next(default_tx[q], c)
        BY <1>1, <1>4, <3>1, <3>3, <4>1
      <4>3. Next(q, SymbolOf(k)) # Next(default_tx[q], SymbolOf(k))
        BY <4>1, <4>2 DEF Labeled
      <4> QED BY <1>1, <1>4, <3>3, <4>3
    <3> QED BY <3>2, <3>3
  <2> QED BY <2>1, <2>2
<1>7. q = 0 \/ default_tx[q] = NO_STATE => Own(q) = Class
  BY <1>1, <1>3, <1>5, <1>6
<1>8. ASSUME q # 0, default_tx[q] # NO_STATE, NEW k \in Class \ Own(q)
      PROVE  Labeled(default_tx[q], k) = Labeled(q, k)
  BY <1>1, <1>4, <1>6, <1>8 DEF Labeled
<1> QED BY <1>3, <1>4, <1>6, <1>7, <1>8

(* NextState looks up what the table holds. *)
LEMMA NextStateFacts ==
  ASSUME DefaultInv, LaidOutStage, NEW q \in States, NEW k \in Class
  PROVE  NextState(q, k) = Labeled(q, k)
<1>1. dfa \in Dfas /\ DefaultsInv /\ stage \notin {"reduce", "compress"} /\ SymbolOf(k) \in Symbol
  BY ClassFacts DEF DefaultInv, LaidOutStage
<1>2. dfa.size \in 0..dfa.size /\ dt_length[q] <= dfa.size
  <2>1. dt_length[q] \in 0..dfa.size /\ dfa.size \in Nat
    BY <1>1, ChainBound, TableFacts
  <2> QED BY <2>1
<1>3. Next(Chain(q, SymbolOf(k))[dfa.size], SymbolOf(k)) = Next(q, SymbolOf(k))
  BY <1>1, <1>2, ChainEnds
<1> QED BY <1>3 DEF NextState, Labeled

(* The labeled transitions in the order of their classes, and the number of *)
(* words of a state; without default transition they are never few.        *)
LEMMA WordsFacts ==
  ASSUME DefaultInv, LaidOutStage, NEW q \in States
  PROVE  /\ Len(Tx(q)) = Cardinality(Own(q)) /\ Cardinality(Own(q)) \in Nat
         /\ \A n \in 1..Cardinality(Own(q)) : Tx(q)[n] \in Own(q)
         /\ \A m, n \in 1..Cardinality(Own(q)) : m < n => Tx(q)[m] < Tx(q)[n]
         /\ \A k \in Own(q) : \E n \in 1..Cardinality(Own(q)) : Tx(q)[n] = k
         /\ Own(q) = {} <=> Cardinality(Own(q)) = 0
         /\ AlphabetSize = max_class + 1 /\ AlphabetSize \in Nat \ {0}
         /\ Words(q) \in Nat \ {0}
         /\ AlphabetSize > TX_THRESHOLD /\ (q = 0 \/ default_tx[q] = NO_STATE) => ~IsCompressed(q)
<1>1. max_class \in Nat /\ Class = 0..max_class /\ Own(q) \subseteq Class
      /\ (q = 0 \/ default_tx[q] = NO_STATE => Own(q) = Class)
  BY ClassFacts, OwnFacts DEF Class
<1>2. IsFiniteSet(Class) /\ Cardinality(Class) = max_class + 1
  <2>1. IsFiniteSet(0..max_class) /\ Cardinality(0..max_class) = IF 0 > max_class THEN 0 ELSE max_class - 0 + 1
    BY <1>1, FS_Interval
  <2> QED BY <1>1, <2>1
<1>3. IsFiniteSet(Own(q)) /\ Cardinality(Own(q)) \in Nat
  BY <1>1, <1>2, MoreElements
<1> DEFINE key == [k \in Own(q) |-> k]
<1>4. key \in [Own(q) -> Int] /\ \A x, y \in Own(q) : key[x] = key[y] => x = y
  BY <1>1
<1>5. Tx(q) = InOrder(Own(q), key)
  BY DEF Tx
<1> HIDE DEF key
<1>6. /\ Len(Tx(q)) = Cardinality(Own(q))
      /\ Tx(q) \in [1..Cardinality(Own(q)) -> Own(q)]
      /\ \A m, n \in 1..Cardinality(Own(q)) : m < n => key[Tx(q)[m]] < key[Tx(q)[n]]
      /\ \A x \in Own(q) : \E n \in 1..Cardinality(Own(q)) : Tx(q)[n] = x
  <2> DEFINE S == Own(q)
  <2>1. IsFiniteSet(S) /\ key \in [S -> Int] /\ (\A x, y \in S : key[x] = key[y] => x = y)
    BY <1>3, <1>4
  <2> HIDE DEF S
  <2>2. Len(InOrder(S, key)) = Cardinality(S)
    BY <2>1, InOrderFacts
  <2>3. InOrder(S, key) \in [1..Cardinality(S) -> S]
    BY <2>1, InOrderFacts
  <2>4. \A m, n \in 1..Cardinality(S) : m < n => key[InOrder(S, key)[m]] < key[InOrder(S, key)[n]]
    BY <2>1, InOrderFacts
  <2>5. \A x \in S : \E n \in 1..Cardinality(S) : InOrder(S, key)[n] = x
    BY <2>1, InOrderFacts
  <2>6. InOrder(S, key) = Tx(q)
    BY <1>5 DEF S
  <2> QED BY <2>2, <2>3, <2>4, <2>5, <2>6 DEF S
<1>7. \A n \in 1..Cardinality(Own(q)) : Tx(q)[n] \in Own(q) /\ key[Tx(q)[n]] = Tx(q)[n]
  BY <1>6 DEF key
<1>8. Own(q) = {} <=> Cardinality(Own(q)) = 0
  BY <1>3, FS_EmptySet
<1>9. AlphabetSize = max_class + 1 /\ AlphabetSize \in Nat \ {0}
  BY <1>1 DEF AlphabetSize
<1>10. Words(q) \in Nat \ {0}
  BY <1>3, <1>9 DEF Words
<1>11. AlphabetSize > TX_THRESHOLD /\ (q = 0 \/ default_tx[q] = NO_STATE) => ~IsCompressed(q)
  BY <1>1, <1>2, <1>9, ImageAssumption DEF IsCompressed
<1>12. \A m, n \in 1..Cardinality(Own(q)) : m < n => Tx(q)[m] < Tx(q)[n]
  BY <1>6, <1>7
<1> QED BY <1>3, <1>6, <1>7, <1>8, <1>9, <1>10, <1>11, <1>12


-----------------------------------------------------------------------------
(* The layout.  States that have an address have their words apart and       *)
(* before the end of the image; those that are marked wait in the queue or  *)
(* have one.                                                               *)
Placed == {q \in States : state_address[q] # NO_ADDRESS}

Apart(p, q) == state_address[p] + Words(p) <= state_address[q] \/ state_address[q] + Words(q) <= state_address[p]

QueueInv ==
  /\ queue \in Seq(States)
  /\ \A i \in 1..Len(queue) : queue[i] \in marking \ Placed
  /\ \A i, j \in 1..Len(queue) : i # j => queue[i] # queue[j]
  /\ \A q \in marking \ Placed : \E i \in 1..Len(queue) : queue[i] = q
  /\ (Placed = {} /\ base_index = 0 /\ queue[1] = 0) \/ state_address[0] = 0

AddressInv ==
  /\ base_index \in Nat /\ marking \subseteq States /\ 0 \in marking /\ Placed \subseteq marking
  /\ state_address \in [States -> Nat \cup {NO_ADDRESS}]
  /\ \A p \in Placed : state_address[p] + Words(p) <= base_index
  /\ \A p, q \in Placed : p # q => Apart(p, q)
  /\ \A p \in Placed : \A k \in Own(p) : Labeled(p, k) \in marking

LayoutInv ==
  /\ stage \in {"reduce", "compress"} =>
       marking = {0} /\ base_index = 0 /\ state_address = [q \in States |-> NO_ADDRESS]
  /\ LaidOutStage => AddressInv
  /\ stage = "layout" => QueueInv
  /\ stage \in {"map", "traverse", "undefined"} => Placed = States /\ state_address[0] = 0

(* A state adds the targets of its labeled transitions that are not marked, *)
(* each once.                                                              *)
LEMMA NewTargetsFacts ==
  ASSUME DefaultInv, LaidOutStage, NEW q \in States
  PROVE  LET o == InOrder(NewTargets(q), [p \in NewTargets(q) |-> FirstClass(q, p)]) IN
           /\ NewTargets(q) \subseteq States
           /\ o \in Seq(States) /\ \A i \in 1..Len(o) : o[i] \in NewTargets(q)
           /\ \A i, j \in 1..Len(o) : i # j => o[i] # o[j]
           /\ \A p \in NewTargets(q) : \E i \in 1..Len(o) : o[i] = p
<1>1. /\ dfa.size \in Nat \ {0} /\ States = 0..dfa.size-1 /\ Class = 0..max_class /\ max_class \in Nat
      /\ \A k \in Class : Labeled(q, k) \in States
      /\ Own(q) \subseteq Class
  BY ClassFacts, OwnFacts DEF Class
<1> DEFINE S == NewTargets(q)
           key == [p \in S |-> FirstClass(q, p)]
           o == InOrder(S, key)
<1>2. S \subseteq States
  BY <1>1 DEF NewTargets
<1>3. IsFiniteSet(S)
  <2>0. 0 \in Int /\ dfa.size-1 \in Int
    BY <1>1
  <2>1. IsFiniteSet(0..dfa.size-1)
    BY <2>0, FS_Interval
  <2> HIDE DEF S
  <2> QED BY <1>1, <1>2, <2>1, FS_Subset
<1>4. ASSUME NEW p \in S
      PROVE  FirstClass(q, p) \in Own(q) /\ Labeled(q, FirstClass(q, p)) = p
  <2> DEFINE T == {k \in Own(q) : Labeled(q, k) = p}
  <2>1. T \in SUBSET Nat /\ T # {}
    BY <1>1 DEF NewTargets
  <2>2. \E k \in T : \A l \in T : k <= l
    BY <2>1, LeastElement
  <2>3. \E k \in Own(q) : Labeled(q, k) = p /\ \A l \in Own(q) : Labeled(q, l) = p => k <= l
    BY <2>2
  <2> QED BY <2>3 DEF FirstClass
<1>5. key \in [S -> Int] /\ \A x, y \in S : key[x] = key[y] => x = y
  <2>1. \A p \in S : FirstClass(q, p) \in Int
    BY <1>1, <1>4
  <2> QED BY <1>4, <2>1
<1> HIDE DEF S, key
<1>6. o \in Seq(S)
  BY <1>3, <1>5, InOrderFacts
<1>7. Len(o) = Cardinality(S)
  BY <1>3, <1>5, InOrderFacts
<1>8. \A i \in 1..Cardinality(S) : o[i] \in S
  <2>1. o \in [1..Cardinality(S) -> S]
    BY <1>3, <1>5, InOrderFacts
  <2> HIDE DEF o
  <2> QED BY <2>1
<1>9. \A m, n \in 1..Cardinality(S) : m < n => key[o[m]] < key[o[n]]
  BY <1>3, <1>5, InOrderFacts
<1>10. \A x \in S : \E n \in 1..Cardinality(S) : o[n] = x
  BY <1>3, <1>5, InOrderFacts
<1>11. Cardinality(S) \in Nat
  BY <1>3, FS_CardinalityType
<1> HIDE DEF o
<1>12. o \in Seq(States)
  BY <1>2, <1>6, SeqMonotonic
<1>13. \A i, j \in 1..Cardinality(S) : i # j => o[i] # o[j]
  <2> TAKE i, j \in 1..Cardinality(S)
  <2> HAVE i # j
  <2>1. i \in Int /\ j \in Int
    BY <1>11
  <2>2. i < j \/ j < i
    BY <2>1
  <2>3. key[o[i]] \in Int /\ key[o[j]] \in Int
    BY <1>5, <1>8
  <2>4. key[o[i]] < key[o[j]] \/ key[o[j]] < key[o[i]]
    BY <1>9, <2>2
  <2>5. key[o[i]] # key[o[j]]
    BY <2>3, <2>4
  <2> QED BY <2>5
<1>14. /\ S \subseteq States
       /\ o \in Seq(States) /\ \A i \in 1..Len(o) : o[i] \in S
       /\ \A i, j \in 1..Len(o) : i # j => o[i] # o[j]
       /\ \A p \in S : \E i \in 1..Len(o) : o[i] = p
  BY <1>2, <1>7, <1>8, <1>10, <1>12, <1>13
<1> QED BY <1>14 DEF S, key, o


(* What is computed from the DFA, its classes and its default transitions     *)
(* stays as they do.                                                       *)
LEMMA TablesUnchanged ==
  ASSUME UNCHANGED <<dfa, alphabet_tx, max_class, default_tx, labeled_tx>>
  PROVE  /\ States' = States /\ Class' = Class
         /\ \A q : Own(q)' = Own(q) /\ Words(q)' = Words(q)
         /\ \A q, k : Labeled(q, k)' = Labeled(q, k)
         /\ \A q : Tx(q)' = Tx(q) /\ IsCompressed(q)' = IsCompressed(q)
         /\ \A q : Accepts(q)' = Accepts(q)
<1>1. States' = States /\ Class' = Class /\ AlphabetSize' = AlphabetSize
  BY DEF States, StatesOf, Class, AlphabetSize
<1>2. \A q : Own(q)' = Own(q)
  BY DEF Own
<1>3. \A q : IsCompressed(q)' = IsCompressed(q)
  BY <1>2 DEF IsCompressed
<1>4. \A q : Words(q)' = Words(q)
  BY <1>1, <1>2, <1>3 DEF Words
<1>5. \A q, k : Labeled(q, k)' = Labeled(q, k)
  BY DEF Labeled, Next, SymbolOf
<1>6. \A q : Tx(q)' = Tx(q)
  BY <1>2 DEF Tx
<1>7. \A q : Accepts(q)' = Accepts(q)
  BY DEF Accepts
<1> QED BY <1>1, <1>2, <1>3, <1>4, <1>5, <1>6, <1>7

(* One state of the breadth-first traversal of the labeled transitions. *)
LEMMA LayoutKeeps ==
  ASSUME DefaultInv, LayoutInv, Layout,
         UNCHANGED <<dfa, alphabet_tx, max_class, default_tx, labeled_tx>>
  PROVE  LayoutInv'
<1>1. stage = "layout" /\ stage' = "layout" /\ queue # <<>> /\ LaidOutStage
  BY DEF Layout, LaidOutStage
<1>2. AddressInv /\ QueueInv
  BY <1>1 DEF LayoutInv
<1> DEFINE q == Head(queue)
           o == InOrder(NewTargets(q), [p \in NewTargets(q) |-> FirstClass(q, p)])
<1>3. /\ state_address' = [state_address EXCEPT ![q] = base_index]
      /\ base_index' = base_index + Words(q)
      /\ queue' = Tail(queue) \o o
      /\ marking' = marking \cup NewTargets(q)
  BY DEF Layout
<1>4. /\ queue \in Seq(States) /\ Len(queue) \in Nat \ {0}
      /\ q = queue[1] /\ 1 \in 1..Len(queue)
  <2>1. queue \in Seq(States)
    BY <1>2 DEF QueueInv
  <2>2. Len(queue) \in Nat \ {0}
    BY <1>1, <2>1, EmptySeq
  <2> QED BY <2>1, <2>2
<1>5. q \in marking \ Placed /\ marking \subseteq States /\ q \in States
  BY <1>2, <1>4 DEF QueueInv, AddressInv
<1>6. /\ Tail(queue) \in Seq(States) /\ Len(Tail(queue)) = Len(queue) - 1
      /\ \A i \in 1..Len(Tail(queue)) : Tail(queue)[i] = queue[i + 1]
  BY <1>1, <1>4, HeadTailProperties
<1> HIDE DEF q
<1>7. /\ NewTargets(q) \subseteq States
      /\ o \in Seq(States) /\ \A i \in 1..Len(o) : o[i] \in NewTargets(q)
      /\ \A i, j \in 1..Len(o) : i # j => o[i] # o[j]
      /\ \A p \in NewTargets(q) : \E i \in 1..Len(o) : o[i] = p
  <2>1. LET u == InOrder(NewTargets(q), [p \in NewTargets(q) |-> FirstClass(q, p)]) IN
          /\ NewTargets(q) \subseteq States
          /\ u \in Seq(States) /\ \A i \in 1..Len(u) : u[i] \in NewTargets(q)
          /\ \A i, j \in 1..Len(u) : i # j => u[i] # u[j]
          /\ \A p \in NewTargets(q) : \E i \in 1..Len(u) : u[i] = p
    BY <1>1, <1>5, NewTargetsFacts
  <2> QED BY <2>1
<1> HIDE DEF o
<1> DEFINE T == Tail(queue)
<1>8. Len(o) \in Nat /\ Len(T) \in Nat
  BY <1>6, <1>7, LenProperties
<1>9. /\ queue' \in Seq(States) /\ Len(queue') = Len(T) + Len(o)
      /\ \A i \in 1..Len(T) + Len(o) : queue'[i] = IF i <= Len(T) THEN T[i] ELSE o[i - Len(T)]
  BY <1>3, <1>6, <1>7, ConcatProperties
<1>10. /\ States' = States
       /\ \A p : Own(p)' = Own(p) /\ Words(p)' = Words(p)
       /\ \A p, k : Labeled(p, k)' = Labeled(p, k)
  BY TablesUnchanged
<1>11. /\ base_index \in Nat /\ 0 \in marking /\ Placed \subseteq marking
       /\ state_address \in [States -> Nat \cup {NO_ADDRESS}]
       /\ \A p \in Placed : state_address[p] + Words(p) <= base_index
       /\ \A p, r \in Placed : p # r => Apart(p, r)
       /\ \A p \in Placed : \A k \in Own(p) : Labeled(p, k) \in marking
  BY <1>2 DEF AddressInv
<1>12. \A p \in States : Words(p) \in Nat \ {0}
  BY <1>1, WordsFacts
<1>13. /\ Placed' = Placed \cup {q} /\ q \notin Placed
       /\ state_address'[q] = base_index
       /\ \A p \in Placed : state_address'[p] = state_address[p] /\ state_address[p] \in Nat
       /\ state_address' \in [States -> Nat \cup {NO_ADDRESS}]
  <2>1. NO_ADDRESS = -1 /\ base_index # NO_ADDRESS
    BY <1>11 DEF NO_ADDRESS
  <2>2. \A p \in States : state_address'[p] = IF p = q THEN base_index ELSE state_address[p]
    BY <1>3, <1>5, <1>11
  <2>3. state_address' \in [States -> Nat \cup {NO_ADDRESS}]
    BY <1>3, <1>11
  <2> QED BY <1>5, <1>10, <1>11, <2>1, <2>2, <2>3 DEF Placed
<1>14. base_index' \in Nat /\ base_index <= base_index'
  BY <1>3, <1>5, <1>11, <1>12
<1>15. AddressInv'
  <2>1. \A p \in Placed' : state_address'[p] + Words(p) <= base_index'
    <3> TAKE p \in Placed'
    <3>1. CASE p = q
      BY <1>3, <1>5, <1>11, <1>12, <1>13, <3>1
    <3>2. CASE p \in Placed
      <4>1. state_address[p] + Words(p) <= base_index /\ Words(p) \in Nat /\ state_address[p] \in Nat
        BY <1>11, <1>12, <1>13, <3>2 DEF Placed
      <4> QED BY <1>11, <1>13, <1>14, <3>2, <4>1
    <3> QED BY <1>13, <3>1, <3>2
  <2>2. ASSUME NEW p \in Placed', NEW r \in Placed', p # r
        PROVE  state_address'[p] + Words(p) <= state_address'[r] \/ state_address'[r] + Words(r) <= state_address'[p]
    <3>1. CASE p \in Placed /\ r \in Placed
      <4>1. Apart(p, r)
        BY <1>11, <2>2, <3>1
      <4> QED BY <1>13, <3>1, <4>1 DEF Apart
    <3>2. CASE p \in Placed /\ r = q
      BY <1>11, <1>13, <3>2
    <3>3. CASE p = q /\ r \in Placed
      BY <1>11, <1>13, <3>3
    <3> QED BY <1>13, <2>2, <3>1, <3>2, <3>3
  <2>3. \A p \in Placed' : \A k \in Own(p) : Labeled(p, k) \in marking'
    <3>1. \A k \in Own(q) : Labeled(q, k) \in marking'
      BY <1>3 DEF NewTargets
    <3> QED BY <1>3, <1>11, <1>13, <3>1
  <2>4. marking' \subseteq States /\ 0 \in marking' /\ Placed' \subseteq marking'
    BY <1>3, <1>5, <1>7, <1>11, <1>13
  <2>5. \A p, r \in Placed' : p # r => Apart(p, r)'
    BY <1>10, <2>2 DEF Apart
  <2> QED BY <1>10, <1>13, <1>14, <2>1, <2>3, <2>4, <2>5 DEF AddressInv, NO_ADDRESS
<1>16. QueueInv'
  <2>1. \A i \in 1..Len(T) : T[i] \in marking \ Placed /\ T[i] # q /\ T[i] \notin NewTargets(q)
    <3> TAKE i \in 1..Len(T)
    <3>1. i + 1 \in 1..Len(queue) /\ i + 1 # 1 /\ T[i] = queue[i + 1]
      BY <1>4, <1>6, <1>8
    <3>2. queue[i + 1] \in marking \ Placed /\ queue[i + 1] # queue[1]
      BY <1>2, <1>4, <3>1 DEF QueueInv
    <3> QED BY <1>4, <3>1, <3>2 DEF NewTargets
  <2>2. \A p \in NewTargets(q) : p \notin marking /\ p \notin Placed /\ p # q
    BY <1>5, <1>11 DEF NewTargets
  <2>3. ASSUME NEW i \in 1..Len(queue')
        PROVE  \/ i \in 1..Len(T) /\ queue'[i] = T[i]
               \/ i - Len(T) \in 1..Len(o) /\ ~(i \in 1..Len(T)) /\ queue'[i] = o[i - Len(T)]
    BY <1>8, <1>9
  <2>4. ASSUME NEW i \in 1..Len(queue')
        PROVE  queue'[i] \in marking' \ Placed'
    <3>1. CASE i \in 1..Len(T) /\ queue'[i] = T[i]
      BY <1>3, <1>13, <2>1, <3>1
    <3>2. CASE i - Len(T) \in 1..Len(o) /\ queue'[i] = o[i - Len(T)]
      BY <1>3, <1>7, <1>13, <2>2, <3>2
    <3> QED BY <2>3, <3>1, <3>2
  <2>5. ASSUME NEW i \in 1..Len(queue'), NEW j \in 1..Len(queue'), i # j
        PROVE  queue'[i] # queue'[j]
    <3>1. CASE i \in 1..Len(T) /\ queue'[i] = T[i] /\ j \in 1..Len(T) /\ queue'[j] = T[j]
      <4>1. i + 1 \in 1..Len(queue) /\ j + 1 \in 1..Len(queue) /\ i + 1 # j + 1
        BY <1>4, <1>6, <1>8, <2>5, <3>1
      <4>2. queue[i + 1] # queue[j + 1]
        BY <1>2, <4>1 DEF QueueInv
      <4> QED BY <1>6, <3>1, <4>2
    <3>2. CASE i \in 1..Len(T) /\ queue'[i] = T[i] /\ j - Len(T) \in 1..Len(o) /\ queue'[j] = o[j - Len(T)]
      BY <1>7, <2>1, <3>2
    <3>3. CASE j \in 1..Len(T) /\ queue'[j] = T[j] /\ i - Len(T) \in 1..Len(o) /\ queue'[i] = o[i - Len(T)]
      BY <1>7, <2>1, <3>3
    <3>4. CASE /\ i - Len(T) \in 1..Len(o) /\ queue'[i] = o[i - Len(T)]
               /\ j - Len(T) \in 1..Len(o) /\ queue'[j] = o[j - Len(T)]
      <4>1. i - Len(T) # j - Len(T)
        BY <1>8, <1>9, <2>5
      <4> QED BY <1>7, <3>4, <4>1
    <3> QED BY <2>3, <3>1, <3>2, <3>3, <3>4
  <2>6. ASSUME NEW p \in marking' \ Placed'
        PROVE  \E i \in 1..Len(queue') : queue'[i] = p
    <3>1. CASE p \in NewTargets(q)
      <4>1. PICK i \in 1..Len(o) : o[i] = p
        BY <1>7, <3>1
      <4>2. i + Len(T) \in 1..Len(queue') /\ ~(i + Len(T) <= Len(T)) /\ (i + Len(T)) - Len(T) = i
        BY <1>8, <1>9
      <4> QED BY <1>9, <4>1, <4>2
    <3>2. CASE p \notin NewTargets(q)
      <4>1. p \in marking \ Placed /\ p # q
        BY <1>3, <1>13, <3>2
      <4>2. PICK j \in 1..Len(queue) : queue[j] = p
        BY <1>2, <4>1 DEF QueueInv
      <4>3. j # 1
        BY <1>4, <4>1, <4>2
      <4>4. j - 1 \in 1..Len(T) /\ (j - 1) + 1 = j
        BY <1>4, <1>6, <4>3
      <4>5. T[j - 1] = p
        BY <1>6, <4>2, <4>4
      <4>6. j - 1 \in 1..Len(queue') /\ j - 1 <= Len(T)
        BY <1>8, <1>9, <4>4
      <4> QED BY <1>9, <4>5, <4>6
    <3> QED BY <3>1, <3>2
  <2>7. state_address'[0] = 0
    <3>1. CASE queue[1] = 0 /\ Placed = {} /\ base_index = 0
      BY <1>4, <1>13, <3>1
    <3>2. CASE state_address[0] = 0
      <4>1. 0 \in Placed
        <5>1. 0 \in States
          BY <1>5, <1>11
        <5> QED BY <3>2, <5>1 DEF Placed, NO_ADDRESS
      <4> QED BY <1>13, <3>2, <4>1
    <3> QED BY <1>2, <3>1, <3>2 DEF QueueInv
  <2> QED BY <1>9, <1>10, <2>4, <2>5, <2>6, <2>7 DEF QueueInv
<1> QED BY <1>1, <1>15, <1>16 DEF LayoutInv


(* When the queue is empty every state has an address: the transition that   *)
(* discovers a state is a labeled one of a state that comes before it.     *)
LEMMA AllPlaced ==
  ASSUME DefaultInv, LaidOutStage, AddressInv, QueueInv, queue = <<>>
  PROVE  Placed = States /\ state_address[0] = 0
<1>1. /\ dfa \in Dfas /\ dfa.size \in Nat \ {0} /\ States = 0..dfa.size-1
      /\ \A q \in States, c \in Symbol : Labeled(q, alphabet_tx[c]) = Next(q, c)
  BY ClassFacts
<1>2. marking \subseteq Placed
  <2>1. 1..Len(queue) = {}
    <3>1. Len(queue) = 0
      OBVIOUS
    <3> QED BY <3>1
  <2>2. \A q \in marking \ Placed : \E i \in 1..Len(queue) : queue[i] = q
    BY DEF QueueInv
  <2> QED BY <2>1, <2>2
<1>3. 0 \in Placed /\ Placed \subseteq States /\ \A p \in Placed : \A k \in Own(p) : Labeled(p, k) \in Placed
  BY <1>2 DEF AddressInv, Placed
<1>4. \A q \in 1..dfa.size-1 : \E p \in 0..q-1, c \in Symbol : Next(p, c) = q
  BY <1>1, NumberingAssumption DEF NumberedAsDiscovered, Next
<1> DEFINE T == {n \in Nat : \A q \in 0..n : q \in States => q \in Placed}
<1>5. 0 \in T
  BY <1>3
<1>6. ASSUME NEW n \in Nat, n \in T PROVE n + 1 \in T
  <2> SUFFICES ASSUME n + 1 \in States PROVE n + 1 \in Placed
    BY <1>6
  <2>1. n + 1 \in 1..dfa.size-1
    BY <1>1
  <2>2. PICK p \in 0..(n+1)-1, c \in Symbol : Next(p, c) = n + 1
    BY <1>4, <2>1
  <2>3. p \in States /\ p \in 0..n
    BY <1>1, <2>1
  <2> DEFINE r == Chain(p, c)[dfa.size]
  <2>4. r \in 0..p /\ c \in labeled_tx[r] /\ Next(r, c) = Next(p, c)
    <3>1. DefaultsInv /\ stage \notin {"reduce", "compress"}
      BY DEF DefaultInv, LaidOutStage
    <3>2. dt_length[p] \in 0..dfa.size
      BY <1>1, <2>3, <3>1, ChainBound
    <3>3. dfa.size \in 0..dfa.size /\ dt_length[p] <= dfa.size
      BY <1>1, <3>2
    <3> QED BY <1>1, <2>3, <3>1, <3>3, ChainEnds
  <2> HIDE DEF r
  <2>5. r \in Placed
    <3>1. r \in 0..n /\ r \in States
      BY <1>1, <2>3, <2>4
    <3> QED BY <1>6, <3>1
  <2>6. r \in States
    BY <1>3, <2>5
  <2>7. alphabet_tx[c] \in Own(r)
    BY <2>4, <2>6, OwnFacts
  <2>8. Labeled(r, alphabet_tx[c]) = n + 1
    BY <1>1, <2>2, <2>4, <2>6
  <2> QED BY <1>3, <2>5, <2>7, <2>8
<1> HIDE DEF T
<1>7. \A n \in Nat : n \in T
  BY <1>5, <1>6, Inductive
<1>8. \A q \in States : q \in Placed
  <2> TAKE q \in States
  <2>1. q \in Nat /\ q \in 0..q
    BY <1>1
  <2> QED BY <1>7, <2>1 DEF T
<1>9. state_address[0] = 0
  BY <1>3 DEF QueueInv
<1> QED BY <1>3, <1>8, <1>9

LEMMA LayoutInvInit == ImageInit => LayoutInv
BY DEF ImageInit, DefaultInit, AlphabetInit, LayoutInv, LaidOutStage

(* The layout does not depend on how far the stages after it have come. *)
LEMMA LayoutInvLater ==
  ASSUME LayoutInv, UNCHANGED <<dfa, alphabet_tx, max_class, default_tx, labeled_tx, layoutVars>>,
         \/ UNCHANGED <<stage, queue>>
         \/ stage \in {"map", "traverse", "undefined"} /\ stage' \in {"map", "traverse", "undefined"}
  PROVE  LayoutInv'
<1>1. /\ States' = States
      /\ \A q : Own(q)' = Own(q) /\ Words(q)' = Words(q)
      /\ \A q, k : Labeled(q, k)' = Labeled(q, k)
  BY TablesUnchanged
<1>2. UNCHANGED <<marking, state_address, base_index>>
  BY DEF layoutVars
<1>3. Placed' = Placed
  BY <1>1, <1>2 DEF Placed, NO_ADDRESS
<1>4. AddressInv' <=> AddressInv
  BY <1>1, <1>2, <1>3 DEF AddressInv, Apart, NO_ADDRESS
<1>5. UNCHANGED <<stage, queue>> => (QueueInv' <=> QueueInv)
  BY <1>1, <1>2, <1>3 DEF QueueInv
<1> QED BY <1>1, <1>2, <1>3, <1>4, <1>5 DEF LayoutInv, LaidOutStage, NO_ADDRESS

LEMMA LayoutInvBuild ==
  ASSUME DefaultInv, LayoutInv, DefaultNext, UNCHANGED layoutVars
  PROVE  LayoutInv'
<1>1. UNCHANGED <<marking, state_address, base_index, dfa>>
  BY DEF layoutVars, DefaultNext, AlphabetNext
<1>2. States' = States /\ 0 \in States
  <2>1. dfa \in Dfas
    BY DEF DefaultInv, AlphabetInv, AlphabetTypeOK
  <2> QED BY <1>1, <2>1, TableFacts DEF States
<1>3. stage \in {"reduce", "compress"}
  BY DEF DefaultNext, AlphabetNext, ReducePair, Reduced, SetDepth, CompressState, Compressed
<1>4. marking = {0} /\ base_index = 0 /\ state_address = [q \in States |-> NO_ADDRESS]
  BY <1>3 DEF LayoutInv
<1>5. CASE stage' \in {"reduce", "compress"}
  BY <1>1, <1>2, <1>4, <1>5 DEF LayoutInv, LaidOutStage, NO_ADDRESS
<1>6. CASE stage' \notin {"reduce", "compress"}
  <2>1. stage' = "layout" /\ queue' = <<0>>
    BY <1>3, <1>6 DEF DefaultNext, AlphabetNext, ReducePair, Reduced, SetDepth, CompressState, Compressed
  <2>2. Placed' = {}
    BY <1>1, <1>2, <1>4 DEF Placed, NO_ADDRESS
  <2>3. AddressInv'
    BY <1>1, <1>2, <1>4, <2>2 DEF AddressInv, NO_ADDRESS
  <2>4. queue' \in Seq(States) /\ Len(queue') = 1 /\ queue'[1] = 0 /\ 1..1 = {1}
    BY <1>2, <2>1
  <2>5. marking' \ Placed' = {0} /\ base_index' = 0
    BY <1>1, <1>4, <2>2
  <2>6. QueueInv'
    BY <1>2, <2>2, <2>4, <2>5 DEF QueueInv
  <2> QED BY <2>1, <2>3, <2>6 DEF LayoutInv, LaidOutStage
<1> QED BY <1>5, <1>6


LEMMA LaidOutKeeps ==
  ASSUME DefaultInv, LayoutInv, LaidOut,
         UNCHANGED <<dfa, alphabet_tx, max_class, default_tx, labeled_tx>>
  PROVE  LayoutInv'
<1>1. stage = "layout" /\ stage' = "map" /\ queue = <<>> /\ UNCHANGED <<queue, layoutVars>> /\ LaidOutStage
  BY DEF LaidOut, LaidOutStage
<1>2. AddressInv /\ QueueInv
  BY <1>1 DEF LayoutInv
<1>3. Placed = States /\ state_address[0] = 0
  BY <1>1, <1>2, AllPlaced
<1>4. /\ States' = States
      /\ \A q : Own(q)' = Own(q) /\ Words(q)' = Words(q)
      /\ \A q, k : Labeled(q, k)' = Labeled(q, k)
  BY TablesUnchanged
<1>5. UNCHANGED <<marking, state_address, base_index>>
  BY <1>1 DEF layoutVars
<1>6. Placed' = Placed
  BY <1>4, <1>5 DEF Placed, NO_ADDRESS
<1>7. AddressInv'
  BY <1>2, <1>4, <1>5, <1>6 DEF AddressInv, Apart, NO_ADDRESS
<1> QED BY <1>1, <1>3, <1>4, <1>5, <1>6, <1>7 DEF LayoutInv

-----------------------------------------------------------------------------
(* The words.  Rows below row have been written, and no later row lies on    *)
(* them.                                                                   *)
WordAt(q, n) == IF IsCompressed(q) THEN CompressedWord(q, n) ELSE FullWord(q, n)

Written(q) ==
  \A n \in 0..Words(q)-1 :
    state_address[q] + n \in DOMAIN fa /\ fa[state_address[q] + n] = WordAt(q, n)

MapInv ==
  /\ row \in 0..dfa.size
  /\ stage \in {"reduce", "compress", "layout"} => row = 0
  /\ stage = "traverse" => row = dfa.size
  /\ \A q \in 0..row-1 : Written(q)
  /\ Sound => stage # "undefined"

LEMMA WordsUnchanged ==
  ASSUME UNCHANGED <<dfa, alphabet_tx, max_class, default_tx, labeled_tx, state_address>>
  PROVE  \A q, n : WordAt(q, n)' = WordAt(q, n)
<1>1. /\ \A q : Own(q)' = Own(q) /\ Words(q)' = Words(q)
      /\ \A q, k : Labeled(q, k)' = Labeled(q, k)
      /\ \A q : Tx(q)' = Tx(q) /\ IsCompressed(q)' = IsCompressed(q)
      /\ \A q : Accepts(q)' = Accepts(q)
  BY TablesUnchanged
<1>2. \A k : SymbolOf(k)' = SymbolOf(k)
  BY DEF SymbolOf
<1>3. \A q, c : Chain(q, c)' = Chain(q, c)
  BY DEF Chain
<1>4. \A q, k : NextState(q, k)' = NextState(q, k)
  BY <1>1, <1>2, <1>3 DEF NextState
<1>5. \A q, k, m, l : Word(q, k, m, l)' = Word(q, k, m, l)
  BY <1>1 DEF Word
<1>6. \A q, n : FullWord(q, n)' = FullWord(q, n)
  BY <1>1, <1>4, <1>5 DEF FullWord
<1>7. \A q, n : CompressedWord(q, n)' = CompressedWord(q, n)
  BY <1>1, <1>5 DEF CompressedWord
<1> QED BY <1>1, <1>6, <1>7 DEF WordAt

LEMMA WordsOfIsWordAt ==
  ASSUME NEW q, state_address[q] \in Nat, Words(q) \in Nat
  PROVE  /\ DOMAIN WordsOf(q) = state_address[q]..state_address[q] + Words(q) - 1
         /\ \A n \in 0..Words(q)-1 :
              /\ state_address[q] + n \in DOMAIN WordsOf(q)
              /\ WordsOf(q)[state_address[q] + n] = WordAt(q, n)
<1>1. DOMAIN WordsOf(q) = state_address[q]..state_address[q] + Words(q) - 1
  BY DEF WordsOf
<1>2. ASSUME NEW n \in 0..Words(q)-1
      PROVE  /\ state_address[q] + n \in state_address[q]..state_address[q] + Words(q) - 1
             /\ (state_address[q] + n) - state_address[q] = n
  OBVIOUS
<1>3. ASSUME NEW n \in 0..Words(q)-1
      PROVE  WordsOf(q)[state_address[q] + n] = WordAt(q, n)
  BY <1>2, <1>3 DEF WordsOf, WordAt
<1> QED BY <1>1, <1>2, <1>3

LEMMA MapKeeps ==
  ASSUME DefaultInv, LayoutInv, MapInv, Map,
         UNCHANGED <<dfa, alphabet_tx, max_class, default_tx, labeled_tx, layoutVars>>
  PROVE  MapInv'
<1>1. stage = "map" /\ stage' = "map" /\ row < dfa.size /\ row' = row + 1 /\ LaidOutStage
  BY DEF Map, LaidOutStage
<1>2. UNCHANGED <<marking, state_address, base_index>>
  BY DEF layoutVars
<1>3. dfa.size \in Nat \ {0} /\ States = 0..dfa.size-1
  BY <1>1, ClassFacts
<1>4. row \in States /\ row' \in 0..dfa.size /\ (\A q \in 0..row-1 : q \in States /\ q # row) /\ 0..row'-1 = 0..row-1 \cup {row}
  BY <1>1, <1>3 DEF MapInv
<1>5. Placed = States /\ AddressInv
  BY <1>1 DEF LayoutInv
<1>6. \A q \in States : Words(q) \in Nat \ {0} /\ state_address[q] \in Nat
  <2>1. \A q \in States : Words(q) \in Nat \ {0}
    BY <1>1, WordsFacts
  <2> QED BY <1>5, <2>1 DEF AddressInv, Placed
<1> DEFINE w == WordsOf(row)
<1>7. fa' = [a \in DOMAIN w \cup DOMAIN fa |-> IF a \in DOMAIN w THEN w[a] ELSE fa[a]]
  BY DEF Map
<1>8. /\ DOMAIN w = state_address[row]..state_address[row] + Words(row) - 1
      /\ \A n \in 0..Words(row)-1 :
           state_address[row] + n \in DOMAIN w /\ w[state_address[row] + n] = WordAt(row, n)
  BY <1>4, <1>6, WordsOfIsWordAt
<1> HIDE DEF w
<1>9. /\ \A q : Words(q)' = Words(q)
      /\ \A q, n : WordAt(q, n)' = WordAt(q, n)
  BY <1>2, TablesUnchanged, WordsUnchanged
<1>10. ASSUME NEW q \in 0..row'-1, NEW n \in 0..Words(q)-1
       PROVE  state_address[q] + n \in DOMAIN fa' /\ fa'[state_address[q] + n] = WordAt(q, n)
  <2>1. CASE q = row
    <3>1. state_address[q] + n \in DOMAIN w /\ w[state_address[q] + n] = WordAt(q, n)
      BY <1>8, <2>1
    <3> QED BY <1>7, <3>1
  <2>2. CASE q # row
    <3>1. q \in 0..row-1 /\ q \in States /\ row \in States
      BY <1>4, <2>2
    <3>2. Apart(q, row)
      BY <1>5, <2>2, <3>1 DEF AddressInv
    <3>3. /\ state_address[q] \in Nat /\ state_address[row] \in Nat
          /\ Words(q) \in Nat /\ Words(row) \in Nat
      BY <1>6, <3>1
    <3>4. state_address[q] + n \notin state_address[row]..state_address[row] + Words(row) - 1
      BY <3>2, <3>3 DEF Apart
    <3>5. state_address[q] + n \in DOMAIN fa /\ fa[state_address[q] + n] = WordAt(q, n)
      BY <3>1 DEF MapInv, Written
    <3> QED BY <1>7, <1>8, <3>4, <3>5
  <2> QED BY <2>1, <2>2
<1>11. \A q \in 0..row'-1 : Written(q)'
  BY <1>2, <1>9, <1>10 DEF Written
<1> QED BY <1>1, <1>4, <1>11 DEF MapInv

(* A state that is stored with its labeled transitions has a default one. *)
LEMMA NoUndefinedRow ==
  ASSUME DefaultInv, MapInv, MapUndefined
  PROVE  ~Sound
<1>1. stage = "map" /\ row < dfa.size /\ IsCompressed(row) /\ default_tx[row] = NO_STATE /\ LaidOutStage
  BY DEF MapUndefined, LaidOutStage
<1>2. row \in States
  <2>1. dfa.size \in Nat /\ States = 0..dfa.size-1
    BY <1>1, ClassFacts
  <2> QED BY <1>1, <2>1 DEF MapInv
<1> QED BY <1>1, <1>2, WordsFacts DEF Sound

LEMMA MapInvLater ==
  ASSUME MapInv, UNCHANGED <<dfa, alphabet_tx, max_class, default_tx, labeled_tx, state_address, base_index, fa, row>>,
         \/ stage' = stage
         \/ stage' # "traverse" /\ stage = "layout" /\ stage' = "map"
         \/ stage = "map" /\ stage' = "traverse" /\ row = dfa.size
         \/ ~Sound /\ stage' = "undefined"
  PROVE  MapInv'
<1>1. /\ \A q : Words(q)' = Words(q)
      /\ \A q, n : WordAt(q, n)' = WordAt(q, n)
  BY TablesUnchanged, WordsUnchanged
<1>2. \A q : Written(q)' <=> Written(q)
  BY <1>1 DEF Written
<1>3. Sound' <=> Sound
  BY DEF Sound, AlphabetSize
<1> QED BY <1>2, <1>3 DEF MapInv


LEMMA MapInvBuild ==
  ASSUME DefaultInv, MapInv, DefaultNext, UNCHANGED row
  PROVE  MapInv'
<1>1. stage \in {"reduce", "compress"} /\ stage' \in {"reduce", "compress", "layout"} /\ UNCHANGED dfa
  BY DEF DefaultNext, AlphabetNext, ReducePair, Reduced, SetDepth, CompressState, Compressed
<1>2. row = 0 /\ row' = 0 /\ 0..row'-1 = {}
  BY <1>1 DEF MapInv
<1> QED BY <1>1, <1>2 DEF MapInv

-----------------------------------------------------------------------------
(* The traversal.  It is at the words of a state, of the DFA's between       *)
(* characters, and of one that the character leads on from as it does from  *)
(* the DFA's last.                                                         *)
At(q) ==
  /\ address = state_address[q] /\ compressed = IsCompressed(q)
  /\ char = NO_CHAR => q = dfa_state /\ (matched => Accepts(dfa_state))
  /\ char # NO_CHAR => char \in Class /\ Labeled(q, char) = dfa_state

WalkInv ==
  /\ stage \notin {"traverse", "undefined"} =>
       address = 0 /\ compressed = FALSE /\ char = NO_CHAR /\ dfa_state = 0 /\ matched = FALSE
  /\ stage = "traverse" /\ Sound => \E q \in States : At(q)

ImageInv == DefaultInv /\ LayoutInv /\ MapInv /\ WalkInv

(* The finished image: all words are there, and all addresses fit. *)
LEMMA ImageFacts ==
  ASSUME DefaultInv, LayoutInv, MapInv, stage = "traverse", Sound, NEW q \in States
  PROVE  /\ state_address[q] \in Nat /\ base_index \in Nat /\ Words(q) \in Nat \ {0}
         /\ state_address[q] + Words(q) <= base_index
         /\ \A n \in 0..Words(q)-1 : fa[state_address[q] + n] = WordAt(q, n)
         /\ \A p \in States : state_address[p] % AddressLimit = state_address[p]
         /\ state_address[0] = 0 /\ ~IsCompressed(0)
<1>1. LaidOutStage /\ AddressInv /\ Placed = States /\ state_address[0] = 0 /\ row = dfa.size
  BY DEF LaidOutStage, LayoutInv, MapInv
<1>2. \A p \in States : /\ state_address[p] \in Nat /\ Words(p) \in Nat \ {0} /\ base_index \in Nat
                        /\ state_address[p] + Words(p) <= base_index
  <2>1. \A p \in States : Words(p) \in Nat \ {0}
    BY <1>1, WordsFacts
  <2> QED BY <1>1, <2>1 DEF AddressInv, Placed
<1>3. dfa.size \in Nat \ {0} /\ States = 0..dfa.size-1 /\ 0 \in States
  <2>1. dfa.size \in Nat \ {0} /\ States = 0..dfa.size-1
    BY <1>1, ClassFacts
  <2> QED BY <2>1
<1>4. Written(q)
  BY <1>1, <1>3 DEF MapInv
<1>5. \A p \in States : state_address[p] % AddressLimit = state_address[p]
  <2> TAKE p \in States
  <2>1. state_address[p] \in Nat /\ AddressLimit \in Nat \ {0} /\ state_address[p] < AddressLimit
    BY <1>2, ImageAssumption DEF Sound
  <2> QED BY <2>1
<1>6. ~IsCompressed(0)
  BY <1>1, <1>3, WordsFacts DEF Sound
<1> QED BY <1>1, <1>2, <1>4, <1>5, <1>6 DEF Written

(* The words of a compressed state behind its default word. *)
LEMMA CompressedFacts ==
  ASSUME DefaultInv, LayoutInv, MapInv, stage = "traverse", Sound, NEW q \in States, IsCompressed(q)
  PROVE  /\ Words(q) = Cardinality(Own(q)) + 1 /\ Cardinality(Own(q)) \in Nat
         /\ fa[state_address[q]] = Word(default_tx[q], 0, FALSE, Own(q) = {})
         /\ \A n \in 1..Cardinality(Own(q)) :
              fa[state_address[q] + n] =
                Word(Labeled(q, Tx(q)[n]), Tx(q)[n], Accepts(Labeled(q, Tx(q)[n])), n = Cardinality(Own(q)))
<1>1. LaidOutStage
  BY DEF LaidOutStage
<1>2. /\ Words(q) = Cardinality(Own(q)) + 1 /\ Cardinality(Own(q)) \in Nat
      /\ Len(Tx(q)) = Cardinality(Own(q))
  BY <1>1, WordsFacts DEF Words
<1>3. /\ state_address[q] \in Nat
      /\ \A n \in 0..Words(q)-1 : fa[state_address[q] + n] = CompressedWord(q, n)
  BY ImageFacts DEF WordAt
<1>4. fa[state_address[q]] = CompressedWord(q, 0)
  <2>1. 0 \in 0..Words(q)-1 /\ state_address[q] + 0 = state_address[q]
    BY <1>2, <1>3
  <2> QED BY <1>3, <2>1
<1>5. CompressedWord(q, 0) = Word(default_tx[q], 0, FALSE, Own(q) = {})
  BY DEF CompressedWord
<1>6. ASSUME NEW n \in 1..Cardinality(Own(q))
      PROVE  fa[state_address[q] + n] =
               Word(Labeled(q, Tx(q)[n]), Tx(q)[n], Accepts(Labeled(q, Tx(q)[n])), n = Cardinality(Own(q)))
  <2>1. n \in 0..Words(q)-1 /\ n # 0
    BY <1>2
  <2>2. fa[state_address[q] + n] = CompressedWord(q, n)
    BY <1>3, <2>1
  <2> QED BY <1>2, <2>1, <2>2 DEF CompressedWord
<1> QED BY <1>2, <1>4, <1>5, <1>6


LEMMA WordFields ==
  ASSUME NEW q, NEW k, NEW m, NEW l
  PROVE  /\ Word(q, k, m, l).address = state_address[q] % AddressLimit
         /\ Word(q, k, m, l).compressed = IsCompressed(q)
         /\ Word(q, k, m, l).symbol = k
         /\ Word(q, k, m, l).match = m
         /\ Word(q, k, m, l).last = l
BY DEF Word

(* The search ends at the first word that has the class or the end marker. *)
LEMMA SearchEndIs ==
  ASSUME address \in Nat, base_index \in Nat, NEW e \in address + 1..base_index - 1,
         fa[e].last \/ fa[e].symbol = char,
         \A b \in address + 1..e - 1 : ~(fa[b].last \/ fa[b].symbol = char)
  PROVE  SearchEnd = e
<1> DEFINE Ends(a) == a = base_index \/ fa[a].last \/ fa[a].symbol = char
           Goes(b) == ~(fa[b].last \/ fa[b].symbol = char)
           P(a) == Ends(a) /\ \A b \in address + 1..a - 1 : Goes(b)
<1>1. e \in address + 1..base_index /\ P(e)
  OBVIOUS
<1>2. ASSUME NEW a \in address + 1..base_index, P(a)
      PROVE  a = e
  <2>1. ~(a < e)
    <3> SUFFICES ASSUME a < e PROVE FALSE
      OBVIOUS
    <3>1. a \in address + 1..e - 1 /\ a # base_index
      OBVIOUS
    <3>2. Goes(a)
      BY <1>1, <3>1
    <3>3. Ends(a)
      BY <1>2
    <3> QED BY <3>1, <3>2, <3>3
  <2>2. ~(e < a)
    <3> SUFFICES ASSUME e < a PROVE FALSE
      OBVIOUS
    <3>1. e \in address + 1..a - 1
      OBVIOUS
    <3>2. Goes(e)
      BY <1>2, <3>1
    <3> QED BY <3>2
  <2>3. a \in Int /\ e \in Int
    OBVIOUS
  <2> HIDE DEF P
  <2> QED BY <2>1, <2>2, <2>3
<1>3. SearchEnd = CHOOSE a \in address + 1..base_index : P(a)
  BY DEF SearchEnd
<1> HIDE DEF P
<1> QED BY <1>1, <1>2, <1>3

(* In a compressed state with labeled transitions it ends at the one of the *)
(* class, or at the last one when the class has none.                      *)
LEMMA SearchFacts ==
  ASSUME DefaultInv, LayoutInv, MapInv, stage = "traverse", Sound, NEW q \in States, IsCompressed(q),
         address = state_address[q], Own(q) # {}, NEW k, k = char
  PROVE  /\ SearchEnd < base_index
         /\ k \in Own(q) => /\ fa[SearchEnd].symbol = k
                            /\ \E l : fa[SearchEnd] = Word(Labeled(q, k), k, Accepts(Labeled(q, k)), l)
         /\ k \notin Own(q) => fa[SearchEnd].symbol # k
<1> DEFINE N == Cardinality(Own(q))
<1>1. LaidOutStage
  BY DEF LaidOutStage
<1>2. /\ N \in Nat \ {0}
      /\ \A n \in 1..N : Tx(q)[n] \in Own(q)
      /\ \A m, n \in 1..N : m < n => Tx(q)[m] < Tx(q)[n]
      /\ \A j \in Own(q) : \E n \in 1..N : Tx(q)[n] = j
  BY <1>1, WordsFacts
<1>3. /\ address \in Nat /\ base_index \in Nat /\ address + N + 1 <= base_index
      /\ \A n \in 1..N : fa[address + n] = Word(Labeled(q, Tx(q)[n]), Tx(q)[n], Accepts(Labeled(q, Tx(q)[n])), n = N)
  <2>1. /\ Words(q) = N + 1
        /\ \A n \in 1..N : fa[address + n] = Word(Labeled(q, Tx(q)[n]), Tx(q)[n], Accepts(Labeled(q, Tx(q)[n])), n = N)
    BY CompressedFacts
  <2>2. address \in Nat /\ base_index \in Nat /\ address + Words(q) <= base_index
    BY ImageFacts
  <2> HIDE DEF N
  <2>3. address + N + 1 <= base_index
    BY <1>2, <2>1, <2>2
  <2> QED BY <2>1, <2>2, <2>3
<1> HIDE DEF N
<1>4. \A n \in 1..N : fa[address + n].symbol = Tx(q)[n] /\ (fa[address + n].last <=> n = N)
  <2> TAKE n \in 1..N
  <2> DEFINE k1 == Tx(q)[n]
             m1 == Accepts(Labeled(q, k1))
             l1 == n = N
  <2>1. fa[address + n] = Word(Labeled(q, k1), k1, m1, l1)
    BY <1>3
  <2> HIDE DEF k1, m1, l1
  <2>2. fa[address + n].symbol = k1
    BY <2>1, WordFields
  <2>3. fa[address + n].last = l1
    BY <2>1, WordFields
  <2>4. fa[address + n].last <=> n = N
    BY <2>3 DEF l1
  <2> QED BY <2>2, <2>4 DEF k1
<1>5. \A n \in 1..N : Tx(q)[n] \in Int
  <2>1. Own(q) \subseteq Class /\ Class \subseteq Int
    BY <1>1, OwnFacts DEF Class
  <2> QED BY <1>2, <2>1
<1>6. ASSUME NEW n \in 1..N, n = N \/ Tx(q)[n] = k, \A m \in 1..n-1 : Tx(q)[m] # k
      PROVE  SearchEnd = address + n /\ SearchEnd < base_index
  <2>1. address + n \in address + 1..base_index - 1
    BY <1>2, <1>3
  <2>2. fa[address + n].last \/ fa[address + n].symbol = char
    BY <1>4, <1>6
  <2>3. ASSUME NEW b \in address + 1..(address + n) - 1
        PROVE  ~(fa[b].last \/ fa[b].symbol = char)
    <3>1. b - address \in 1..n-1 /\ b - address \in 1..N /\ b - address # N /\ address + (b - address) = b
      BY <1>2, <1>3
    <3>2. fa[address + (b - address)].symbol = Tx(q)[b - address] /\ ~fa[address + (b - address)].last
      BY <1>4, <3>1
    <3> QED BY <1>6, <3>1, <3>2
  <2>4. SearchEnd = address + n
    BY <1>3, <2>1, <2>2, <2>3, SearchEndIs
  <2> QED BY <1>3, <2>1, <2>4
<1>7. ASSUME k \in Own(q)
      PROVE  /\ SearchEnd < base_index /\ fa[SearchEnd].symbol = k
             /\ \E l : fa[SearchEnd] = Word(Labeled(q, k), k, Accepts(Labeled(q, k)), l)
  <2>1. PICK n \in 1..N : Tx(q)[n] = k
    BY <1>2, <1>7
  <2>2. \A m \in 1..n-1 : Tx(q)[m] # k
    <3> TAKE m \in 1..n-1
    <3>1. m \in 1..N /\ m < n
      BY <1>2
    <3>2. Tx(q)[m] < Tx(q)[n] /\ Tx(q)[m] \in Int /\ Tx(q)[n] \in Int
      BY <1>2, <1>5, <3>1
    <3> QED BY <2>1, <3>2
  <2>3. SearchEnd = address + n /\ SearchEnd < base_index
    BY <1>6, <2>1, <2>2
  <2>4. fa[SearchEnd] = Word(Labeled(q, k), k, Accepts(Labeled(q, k)), n = N)
    BY <1>3, <2>1, <2>3
  <2> QED BY <1>4, <2>1, <2>3, <2>4
<1>8. ASSUME k \notin Own(q)
      PROVE  SearchEnd < base_index /\ fa[SearchEnd].symbol # k
  <2>1. N \in 1..N /\ (\A m \in 1..N-1 : m \in 1..N)
    BY <1>2
  <2>2. \A m \in 1..N : Tx(q)[m] # k
    BY <1>2, <1>8
  <2>3. SearchEnd = address + N /\ SearchEnd < base_index
    BY <1>6, <2>1, <2>2
  <2> QED BY <1>4, <2>1, <2>2, <2>3
<1> QED BY <1>7, <1>8


-----------------------------------------------------------------------------
(* A word that consumes the character leads to the DFA's state and has its   *)
(* match marker.                                                           *)
Arrived ==
  /\ address' = state_address[dfa_state] /\ compressed' = IsCompressed(dfa_state)
  /\ matched' = Accepts(dfa_state) /\ char' = NO_CHAR /\ dfa_state' = dfa_state /\ stage' = "traverse"

LEMMA ConsumeArrives ==
  ASSUME stage = "traverse", NEW k, NEW l, NEW w,
         w = Word(dfa_state, k, Accepts(dfa_state), l), Consume(w),
         state_address[dfa_state] % AddressLimit = state_address[dfa_state]
  PROVE  Arrived
<1>1. /\ w.address = state_address[dfa_state] /\ w.compressed = IsCompressed(dfa_state)
      /\ w.match = Accepts(dfa_state)
  BY WordFields
<1> QED BY <1>1 DEF Consume, Arrived

LEMMA WalkFacts ==
  ASSUME ImageInv, stage = "traverse", Sound, char # NO_CHAR
  PROVE  \E q \in States : /\ address = state_address[q] /\ compressed = IsCompressed(q)
                           /\ char \in Class /\ Labeled(q, char) = dfa_state
                           /\ dfa_state \in States /\ LaidOutStage
                           /\ DefaultInv /\ LayoutInv /\ MapInv
<1>1. LaidOutStage /\ DefaultInv /\ LayoutInv /\ MapInv /\ WalkInv
  BY DEF LaidOutStage, ImageInv
<1>2. PICK q \in States : At(q)
  BY <1>1 DEF WalkInv
<1>3. Labeled(q, char) \in States
  BY <1>1, <1>2, ClassFacts DEF At
<1> QED BY <1>1, <1>2, <1>3 DEF At

LEMMA FullArrives ==
  ASSUME ImageInv, Sound, FullStep
  PROVE  Arrived
<1>1. stage = "traverse" /\ char # NO_CHAR /\ ~compressed /\ Consume(fa[address + char])
  BY DEF FullStep
<1>2. PICK q \in States : /\ address = state_address[q] /\ compressed = IsCompressed(q)
                          /\ char \in Class /\ Labeled(q, char) = dfa_state
                          /\ dfa_state \in States /\ LaidOutStage
                          /\ DefaultInv /\ LayoutInv /\ MapInv
  BY <1>1, WalkFacts
<1>3. ~IsCompressed(q)
  BY <1>1, <1>2
<1>4. Words(q) = max_class + 1 /\ max_class \in Nat /\ Class = 0..max_class
  BY <1>2, <1>3, WordsFacts, ClassFacts DEF Words, Class
<1>5. char \in 0..Words(q)-1
  BY <1>2, <1>4
<1>6. fa[address + char] = WordAt(q, char)
  BY <1>1, <1>2, <1>5, ImageFacts
<1>7. NextState(q, char) = dfa_state
  BY <1>2, NextStateFacts
<1>8. fa[address + char] = Word(dfa_state, 0, Accepts(dfa_state), FALSE)
  BY <1>3, <1>6, <1>7 DEF WordAt, FullWord
<1>9. state_address[dfa_state] % AddressLimit = state_address[dfa_state]
  BY <1>1, <1>2, ImageFacts
<1> QED BY <1>1, <1>8, <1>9, ConsumeArrives

LEMMA LabeledArrives ==
  ASSUME ImageInv, Sound, LabeledStep
  PROVE  Arrived
<1>1. /\ stage = "traverse" /\ char # NO_CHAR /\ compressed /\ ~fa[address].last
      /\ fa[SearchEnd].symbol = char /\ Consume(fa[SearchEnd])
  BY DEF LabeledStep
<1>2. PICK q \in States : /\ address = state_address[q] /\ compressed = IsCompressed(q)
                          /\ char \in Class /\ Labeled(q, char) = dfa_state
                          /\ dfa_state \in States /\ LaidOutStage
                          /\ DefaultInv /\ LayoutInv /\ MapInv
  BY <1>1, WalkFacts
<1>3. IsCompressed(q)
  BY <1>1, <1>2
<1>4. Own(q) # {}
  <2> DEFINE e == Own(q) = {}
             f == FALSE
  <2>1. fa[address] = Word(default_tx[q], 0, f, e)
    BY <1>1, <1>2, <1>3, CompressedFacts
  <2> HIDE DEF e, f
  <2>2. fa[address].last = e
    BY <2>1, WordFields
  <2> QED BY <1>1, <2>2 DEF e
<1> DEFINE k == char
<1>5. /\ k \in Own(q) => \E l : fa[SearchEnd] = Word(Labeled(q, k), k, Accepts(Labeled(q, k)), l)
      /\ k \notin Own(q) => fa[SearchEnd].symbol # k
  BY <1>1, <1>2, <1>3, <1>4, SearchFacts
<1>6. PICK l : fa[SearchEnd] = Word(dfa_state, k, Accepts(dfa_state), l)
  BY <1>1, <1>2, <1>5
<1>7. state_address[dfa_state] % AddressLimit = state_address[dfa_state]
  BY <1>1, <1>2, ImageFacts
<1> HIDE DEF k
<1> QED BY <1>1, <1>6, <1>7, ConsumeArrives

(* A default transition is followed to a state from which the character     *)
(* leads on as before.                                                     *)
LEMMA DefaultFollows ==
  ASSUME ImageInv, Sound, DefaultStep
  PROVE  /\ \E q \in States : /\ address' = state_address[q] /\ compressed' = IsCompressed(q)
                              /\ char \in Class /\ Labeled(q, char) = dfa_state
         /\ stage' = "traverse" /\ UNCHANGED <<char, dfa_state>> /\ char # NO_CHAR
<1>1. /\ stage = "traverse" /\ char # NO_CHAR /\ compressed
      /\ fa[address].last \/ fa[SearchEnd].symbol # char
      /\ Follow(fa[address])
  BY DEF DefaultStep
<1>2. PICK q \in States : /\ address = state_address[q] /\ compressed = IsCompressed(q)
                          /\ char \in Class /\ Labeled(q, char) = dfa_state
                          /\ dfa_state \in States /\ LaidOutStage
                          /\ DefaultInv /\ LayoutInv /\ MapInv
  BY <1>1, WalkFacts
<1>3. IsCompressed(q)
  BY <1>1, <1>2
<1> DEFINE e == Own(q) = {}
           f == FALSE
           p == default_tx[q]
<1>4. fa[address] = Word(p, 0, f, e)
  BY <1>1, <1>2, <1>3, CompressedFacts
<1>5. p \in States /\ Labeled(p, char) = dfa_state
  <2>1. ASSUME char \in Own(q), Own(q) # {} PROVE FALSE
    <3> DEFINE k == char
    <3>1. k \in Own(q) => fa[SearchEnd].symbol = k
      BY <1>1, <1>2, <1>3, <2>1, SearchFacts
    <3> HIDE DEF e, f
    <3>2. fa[address].last = e
      BY <1>4, WordFields
    <3> QED BY <1>1, <2>1, <3>1, <3>2 DEF e
  <2>2. char \in Class \ Own(q)
    BY <1>2, <2>1
  <2>3. q # 0 /\ default_tx[q] # NO_STATE
    BY <1>2, <1>3, WordsFacts DEF Sound
  <2> QED BY <1>2, <2>2, <2>3, OwnFacts
<1> HIDE DEF e, f, p
<1>6. fa[address].address = state_address[p] % AddressLimit /\ fa[address].compressed = IsCompressed(p)
  BY <1>4, WordFields
<1>7. state_address[p] % AddressLimit = state_address[p]
  BY <1>1, <1>2, <1>5, ImageFacts
<1> QED BY <1>1, <1>2, <1>5, <1>6, <1>7 DEF Follow

(* Nothing behind the image is read. *)
LEMMA NoReadUndefined ==
  ASSUME ImageInv, ReadUndefined
  PROVE  ~Sound
<1> SUFFICES ASSUME Sound PROVE FALSE
  OBVIOUS
<1>1. /\ stage = "traverse" /\ char # NO_CHAR
      /\ \/ ~compressed /\ address + char >= base_index
         \/ compressed /\ ~fa[address].last /\ SearchEnd = base_index
  BY DEF ReadUndefined
<1>2. PICK q \in States : /\ address = state_address[q] /\ compressed = IsCompressed(q)
                          /\ char \in Class /\ Labeled(q, char) = dfa_state
                          /\ dfa_state \in States /\ LaidOutStage
                          /\ DefaultInv /\ LayoutInv /\ MapInv
  BY <1>1, WalkFacts
<1>3. /\ state_address[q] \in Nat /\ base_index \in Nat /\ Words(q) \in Nat
      /\ state_address[q] + Words(q) <= base_index
  BY <1>1, <1>2, ImageFacts
<1>4. CASE ~compressed
  <2>1. ~IsCompressed(q)
    BY <1>2, <1>4
  <2>2. Words(q) = max_class + 1 /\ max_class \in Nat /\ char \in 0..max_class
    BY <1>2, <2>1, WordsFacts, ClassFacts DEF Words, Class
  <2> QED BY <1>1, <1>2, <1>3, <1>4, <2>2
<1>5. CASE compressed
  <2>1. IsCompressed(q)
    BY <1>2, <1>5
  <2> DEFINE e == Own(q) = {}
             f == FALSE
             k == char
  <2>2. fa[address] = Word(default_tx[q], 0, f, e)
    BY <1>1, <1>2, <2>1, CompressedFacts
  <2> HIDE DEF e, f
  <2>3. fa[address].last = e
    BY <2>2, WordFields
  <2>4. Own(q) # {}
    BY <1>1, <1>5, <2>3 DEF e
  <2>5. SearchEnd < base_index
    <3>1. k = char
      OBVIOUS
    <3> HIDE DEF k
    <3> QED BY <1>1, <1>2, <2>1, <2>4, <3>1, SearchFacts
  <2> QED BY <1>1, <1>3, <1>5, <2>5
<1> QED BY <1>4, <1>5


-----------------------------------------------------------------------------
LEMMA ImageInvInit == ImageInit => ImageInv
<1> SUFFICES ASSUME ImageInit PROVE ImageInv
  OBVIOUS
<1>1. DefaultInv
  BY DefaultInvInit DEF ImageInit
<1>2. LayoutInv
  BY LayoutInvInit
<1>3. stage = "reduce" /\ row = 0 /\ 0..row-1 = {} /\ 0 \in 0..dfa.size
  <2>1. stage = "reduce" /\ row = 0
    BY DEF ImageInit, DefaultInit, AlphabetInit
  <2>2. dfa.size \in Nat
    BY <1>1, TableFacts DEF DefaultInv, AlphabetInv, AlphabetTypeOK
  <2> QED BY <2>1, <2>2
<1>4. MapInv
  BY <1>3 DEF MapInv
<1>5. WalkInv
  BY <1>3 DEF WalkInv, ImageInit
<1> QED BY <1>1, <1>2, <1>4, <1>5 DEF ImageInv

LEMMA BuildKeeps ==
  ASSUME ImageInv, Build
  PROVE  ImageInv'
<1>1. DefaultInv /\ LayoutInv /\ MapInv /\ WalkInv
  BY DEF ImageInv
<1>2. UNCHANGED walkVars
  BY DEF Build
<1>3. stage \notin {"traverse", "undefined"}
  BY DEF Build, DefaultNext, AlphabetNext, ReducePair, Reduced, SetDepth, CompressState, Compressed,
         Layout, LaidOut, Map, MapUndefined, Mapped
<1>4. address = 0 /\ compressed = FALSE /\ char = NO_CHAR /\ dfa_state = 0 /\ matched = FALSE
  BY <1>1, <1>3 DEF WalkInv
<1>5. ASSUME stage' # "traverse" PROVE WalkInv'
  BY <1>2, <1>4, <1>5 DEF WalkInv, walkVars, NO_CHAR
<1>6. CASE DefaultNext /\ UNCHANGED <<layoutVars, fa, row, walkVars>>
  <2>1. DefaultInv'
    BY <1>1, <1>6, DefaultInvNext
  <2>2. LayoutInv'
    BY <1>1, <1>6, LayoutInvBuild
  <2>3. MapInv'
    BY <1>1, <1>6, MapInvBuild
  <2>4. stage' # "traverse"
    BY <1>6 DEF DefaultNext, AlphabetNext, ReducePair, Reduced, SetDepth, CompressState, Compressed
  <2> QED BY <1>5, <2>1, <2>2, <2>3, <2>4 DEF ImageInv
<1>7. CASE (Layout \/ LaidOut) /\ UNCHANGED <<reducedVars, compressedVars, fa, row, walkVars>>
  <2>1. /\ UNCHANGED <<dfa, given, alphabet_tx, max_class, s, t, depth, default_tx, labeled_tx, dt_length, state, fa, row>>
        /\ stage = "layout" /\ stage' \in {"layout", "map"}
    BY <1>7 DEF reducedVars, compressedVars, Layout, LaidOut
  <2>2. DefaultInv'
    BY <1>1, <2>1, DefaultInvLater
  <2>3. LayoutInv'
    BY <1>1, <1>7, <2>1, LayoutKeeps, LaidOutKeeps
  <2>4. MapInv'
    <3>1. row = 0 /\ row' = 0 /\ 0..row'-1 = {} /\ row' \in 0..dfa.size /\ dfa' = dfa
      BY <1>1, <2>1 DEF MapInv
    <3> QED BY <2>1, <3>1 DEF MapInv
  <2> QED BY <1>5, <2>1, <2>2, <2>3, <2>4 DEF ImageInv
<1>8. CASE (Map \/ MapUndefined \/ Mapped) /\ UNCHANGED <<reducedVars, compressVars, layoutVars, walkVars>>
  <2>1. /\ UNCHANGED <<dfa, given, alphabet_tx, max_class, s, t, depth, default_tx, labeled_tx, dt_length, state,
                       marking, state_address, base_index>>
        /\ stage = "map" /\ stage' \in {"map", "undefined", "traverse"}
    BY <1>8 DEF reducedVars, compressVars, layoutVars, Map, MapUndefined, Mapped
  <2>2. DefaultInv'
    BY <1>1, <2>1, DefaultInvLater
  <2>3. LayoutInv'
    BY <1>1, <1>8, <2>1, LayoutInvLater
  <2>4. MapInv'
    <3>1. CASE Map
      BY <1>1, <1>8, <2>1, <3>1, MapKeeps
    <3>2. CASE MapUndefined
      <4>1. ~Sound /\ stage' = "undefined" /\ UNCHANGED <<fa, row>>
        BY <1>1, <3>2, NoUndefinedRow DEF MapUndefined
      <4> QED BY <1>1, <2>1, <4>1, MapInvLater
    <3>3. CASE Mapped
      <4>1. stage = "map" /\ stage' = "traverse" /\ row = dfa.size /\ UNCHANGED <<fa, row>>
        BY <3>3 DEF Mapped
      <4> QED BY <1>1, <2>1, <4>1, MapInvLater
    <3> QED BY <1>8, <3>1, <3>2, <3>3
  <2>5. ASSUME stage' = "traverse", Sound' PROVE At(0)' /\ 0 \in States'
    <3>1. LaidOutStage /\ AlphabetSize > TX_THRESHOLD
      BY <2>1, <2>5 DEF LaidOutStage, Sound, AlphabetSize
    <3>2. 0 \in States
      <4>1. dfa.size \in Nat \ {0} /\ States = 0..dfa.size-1
        BY <1>1, <3>1, ClassFacts
      <4> QED BY <4>1
    <3>3. ~IsCompressed(0)
      BY <1>1, <3>1, <3>2, WordsFacts
    <3>4. IsCompressed(0) = FALSE
      BY <3>3 DEF IsCompressed
    <3>5. state_address[0] = 0
      BY <1>1, <2>1 DEF LayoutInv
    <3>6. IsCompressed(0)' = IsCompressed(0) /\ States' = States
      BY <2>1, TablesUnchanged
    <3> QED BY <1>2, <1>4, <2>1, <3>2, <3>4, <3>5, <3>6 DEF At, walkVars, NO_CHAR
  <2>6. WalkInv'
    <3>1. CASE stage' = "traverse"
      BY <2>5, <3>1 DEF WalkInv
    <3>2. CASE stage' # "traverse"
      BY <1>5, <3>2
    <3> QED BY <3>1, <3>2
  <2> QED BY <2>2, <2>3, <2>4, <2>6 DEF ImageInv
<1> QED BY <1>6, <1>7, <1>8 DEF Build

LEMMA StepKeeps ==
  ASSUME ImageInv, Step
  PROVE  ImageInv'
<1>1. DefaultInv /\ LayoutInv /\ MapInv /\ WalkInv
  BY DEF ImageInv
<1>2. /\ UNCHANGED <<dfa, given, alphabet_tx, max_class, s, t, depth, queue, default_tx, labeled_tx, dt_length, state,
                     marking, state_address, base_index, fa, row, layoutVars>>
      /\ stage = "traverse" /\ stage' \in {"traverse", "undefined"} /\ LaidOutStage
  BY DEF Step, Traverse, reducedVars, compressVars, layoutVars, LaidOutStage, NewPacket, NextChar, FullStep,
         DefaultStep, LabeledStep, ReadUndefined, Consume, Follow
<1>3. DefaultInv'
  BY <1>1, <1>2, DefaultInvLater
<1>4. LayoutInv'
  BY <1>1, <1>2, LayoutInvLater
<1>5. stage' = "undefined" => ~Sound
  BY NoReadUndefined DEF Step, Traverse, NewPacket, NextChar, FullStep, DefaultStep, LabeledStep, Consume, Follow
<1>6. MapInv'
  BY <1>1, <1>2, <1>5, MapInvLater
<1>7. (Sound' <=> Sound) /\ States' = States /\ Class' = Class
      /\ (\A q, k : Labeled(q, k)' = Labeled(q, k))
      /\ (\A q : IsCompressed(q)' = IsCompressed(q) /\ Accepts(q)' = Accepts(q))
  BY <1>2, TablesUnchanged DEF Sound, AlphabetSize
<1>8. ASSUME stage' = "traverse", Sound PROVE \E q \in States : At(q)'
  <2>1. CASE NewPacket
    <3>1. 0 \in States
      <4>1. dfa.size \in Nat \ {0} /\ States = 0..dfa.size-1
        BY <1>1, <1>2, ClassFacts
      <4> QED BY <4>1
    <3>2. state_address[0] = 0 /\ ~IsCompressed(0)
      BY <1>1, <1>2, <1>8, <3>1, ImageFacts
    <3>3. IsCompressed(0) = FALSE
      BY <3>2 DEF IsCompressed
    <3>4. At(0)'
      BY <1>2, <1>7, <2>1, <3>2, <3>3 DEF At, NewPacket, NO_CHAR
    <3> QED BY <3>1, <3>4
  <2>2. ASSUME NEW c \in Symbol, NextChar(c) PROVE \E q \in States : At(q)'
    <3>1. PICK q \in States : At(q)
      BY <1>1, <1>2, <1>8 DEF WalkInv
    <3>2. /\ char = NO_CHAR /\ char' = alphabet_tx[c] /\ dfa_state' = Next(dfa_state, c)
          /\ UNCHANGED <<address, compressed>>
      BY <2>2 DEF NextChar
    <3>3. q = dfa_state /\ address = state_address[q] /\ compressed = IsCompressed(q)
      BY <3>1, <3>2 DEF At
    <3>4. alphabet_tx[c] \in Class /\ Labeled(q, alphabet_tx[c]) = Next(q, c) /\ Class = 0..max_class /\ max_class \in Nat
      BY <1>1, <1>2, ClassFacts DEF Class
    <3>5. char' # -1
      BY <3>2, <3>4
    <3>6. At(q)'
      BY <1>2, <1>7, <3>2, <3>3, <3>4, <3>5 DEF At, NO_CHAR
    <3> QED BY <3>6
  <2>3. CASE FullStep \/ LabeledStep
    <3>1. Arrived /\ stage = "traverse" /\ char # NO_CHAR
      BY <1>8, <2>3, FullArrives, LabeledArrives DEF FullStep, LabeledStep
    <3>2. dfa_state \in States
      BY <1>8, <3>1, WalkFacts
    <3> DEFINE r == dfa_state
    <3>3. /\ address' = state_address[r] /\ compressed' = IsCompressed(r) /\ matched' = Accepts(r)
          /\ char' = -1 /\ dfa_state' = r
      BY <3>1 DEF Arrived, NO_CHAR
    <3>4. r \in States
      BY <3>2
    <3>5. \A q \in States : q = r => At(q)'
      BY <1>2, <1>7, <3>3 DEF At, NO_CHAR
    <3> QED BY <3>4, <3>5
  <2>4. CASE DefaultStep
    <3>1. PICK q \in States : /\ address' = state_address[q] /\ compressed' = IsCompressed(q)
                              /\ char \in Class /\ Labeled(q, char) = dfa_state
      BY <1>8, <2>4, DefaultFollows
    <3>2. UNCHANGED <<char, dfa_state>> /\ char # NO_CHAR
      BY <1>8, <2>4, DefaultFollows
    <3>3. At(q)'
      BY <1>2, <1>7, <3>1, <3>2 DEF At, NO_CHAR
    <3> QED BY <3>3
  <2>5. CASE ReadUndefined
    BY <1>8, <2>5 DEF ReadUndefined
  <2> QED BY <2>1, <2>2, <2>3, <2>4, <2>5 DEF Step, Traverse
<1>9. WalkInv'
  <2>1. stage' = "traverse" /\ Sound' => \E q \in States' : At(q)'
    BY <1>7, <1>8
  <2>2. stage' \notin {"traverse", "undefined"} => FALSE
    BY <1>2
  <2> QED BY <2>1, <2>2 DEF WalkInv
<1> QED BY <1>3, <1>4, <1>6, <1>9 DEF ImageInv


LEMMA ImageInvStutters ==
  ASSUME ImageInv, UNCHANGED imageVars
  PROVE  ImageInv'
<1>1. /\ UNCHANGED <<dfa, given, alphabet_tx, max_class, s, t, depth, queue, default_tx, labeled_tx, dt_length, state,
                     marking, state_address, base_index, fa, row, layoutVars, walkVars, stage>>
  BY DEF imageVars, defaultVars, alphabetVars, compressVars, layoutVars, walkVars
<1>2. DefaultInv /\ LayoutInv /\ MapInv /\ WalkInv
  BY DEF ImageInv
<1>3. DefaultInv'
  BY <1>1, <1>2, DefaultInvLater
<1>4. LayoutInv'
  BY <1>1, <1>2, LayoutInvLater
<1>5. MapInv'
  BY <1>1, <1>2, MapInvLater
<1>6. (Sound' <=> Sound) /\ States' = States /\ Class' = Class
      /\ (\A q, k : Labeled(q, k)' = Labeled(q, k))
      /\ (\A q : IsCompressed(q)' = IsCompressed(q) /\ Accepts(q)' = Accepts(q))
  BY <1>1, TablesUnchanged DEF Sound, AlphabetSize
<1>7. \A q : At(q)' <=> At(q)
  BY <1>1, <1>6 DEF At, walkVars, NO_CHAR
<1>8. WalkInv'
  BY <1>1, <1>2, <1>6, <1>7 DEF WalkInv, walkVars, NO_CHAR
<1> QED BY <1>3, <1>4, <1>5, <1>8 DEF ImageInv

LEMMA ImageAlways == ImageSpec => []ImageInv
<1>1. ImageInv /\ [Build \/ Step]_imageVars => ImageInv'
  BY BuildKeeps, StepKeeps, ImageInvStutters
<1> QED BY <1>1, ImageInvInit, PTL DEF ImageSpec

LEMMA WalkIsDfa == ImageInv => RunsAsDfa
<1> SUFFICES ASSUME ImageInv, Sound
             PROVE  /\ stage # "undefined"
                    /\ stage = "traverse" /\ char = NO_CHAR =>
                         /\ address = state_address[dfa_state]
                         /\ compressed = IsCompressed(dfa_state)
                         /\ matched => Accepts(dfa_state)
  BY DEF RunsAsDfa
<1>1. stage # "undefined"
  BY DEF ImageInv, MapInv
<1>2. ASSUME stage = "traverse", char = NO_CHAR
      PROVE  /\ address = state_address[dfa_state]
             /\ compressed = IsCompressed(dfa_state)
             /\ matched => Accepts(dfa_state)
  BY <1>2 DEF ImageInv, WalkInv, At
<1> QED BY <1>1, <1>2

(* For every DFA whose states are numbered as they are discovered, every      *)
(* threshold and every size of the image that fits, the image is built       *)
(* without a state that lacks the default transition it is stored with,     *)
(* nothing behind it is read, and memory::traverse_dfa is at the words of   *)
(* the DFA's state between characters and has reported a match there only if *)
(* that state accepts.                                                     *)
THEOREM ImageRunsAsDfa == ImageSpec => []RunsAsDfa
BY ImageAlways, WalkIsDfa, PTL

(* The step that consumes a character reports a match exactly when the DFA    *)
(* accepts: none is lost and none invented on the way through the default   *)
(* transitions.                                                            *)
THEOREM MatchesAreReported == ImageSpec => MatchReported
<1> DEFINE Reported == Sound /\ char # NO_CHAR /\ char' = NO_CHAR => (matched' <=> Accepts(dfa_state'))
<1>1. ImageInv /\ [Build \/ Step]_imageVars => [Reported]_imageVars
  <2> SUFFICES ASSUME ImageInv, Build \/ Step, Sound, char # NO_CHAR, char' = NO_CHAR
               PROVE  matched' <=> Accepts(dfa_state')
    OBVIOUS
  <2>1. FullStep \/ LabeledStep
    <3>1. ~Build
      <4>1. Build => UNCHANGED walkVars
        BY DEF Build
      <4> QED BY <4>1 DEF walkVars
    <3>2. Step /\ Traverse
      BY <3>1 DEF Step
    <3> QED BY <3>2 DEF Traverse, NewPacket, NextChar, DefaultStep, Follow, ReadUndefined, walkVars
  <2>2. Arrived
    BY <2>1, FullArrives, LabeledArrives
  <2>3. matched' = Accepts(dfa_state) /\ dfa_state' = dfa_state
    BY <2>2 DEF Arrived
  <2>4. Accepts(dfa_state') = Accepts(dfa_state)
    BY <2>3
  <2>5. Accepts(dfa_state) \in BOOLEAN
    BY DEF Accepts
  <2> QED BY <2>3, <2>4, <2>5
<1>2. ImageSpec => [][Reported]_imageVars
  BY <1>1, ImageAlways, PTL DEF ImageSpec
<1> QED BY <1>2 DEF MatchReported

(* While an image is built and run, its classes are the columns of the table *)
(* and its default transitions lead up and lose nothing.                   *)
THEOREM ImageIsOfTable == ImageSpec => [](ClassesAreColumns /\ DefaultsAreShallower /\ LookupIsTable)
<1>1. ImageInv => ClassesAreColumns /\ DefaultsAreShallower /\ LookupIsTable
  BY ReducedColumns, DefaultsGoUp, LookupFindsTable DEF ImageInv, DefaultInv
<1> QED BY <1>1, ImageAlways, PTL

-----------------------------------------------------------------------------
(* The image of an NFA.  A sequence that has every element of a set once. *)
Lists(o, S) ==
  /\ o \in Seq(S)
  /\ \A i, j \in 1..Len(o) : i # j => o[i] # o[j]
  /\ \A x \in S : \E i \in 1..Len(o) : o[i] = x

NfaPlaced == {q \in NfaStates : state_address[q] # NO_ADDRESS}

NfaApart(p, q) ==
  state_address[p] + NfaWords(p) <= state_address[q] \/ state_address[q] + NfaWords(q) <= state_address[p]

NfaLayoutInv ==
  /\ nfa \in Nfas
  /\ base_index \in Nat /\ marking \subseteq NfaStates /\ 0 \in marking /\ NfaPlaced \subseteq marking
  /\ state_address \in [NfaStates -> Nat \cup {NO_ADDRESS}]
  /\ \A p \in NfaPlaced : state_address[p] + NfaWords(p) <= base_index
  /\ \A p, q \in NfaPlaced : p # q => NfaApart(p, q)
  /\ \A p \in NfaPlaced : Targets(p) \subseteq marking
  /\ stable = {q \in NfaPlaced : IsStable(q)}
  /\ stage \in {"nfa_layout", "nfa_map", "nfa_traverse", "fatal"}
  /\ stage = "nfa_layout" =>
       /\ Lists(queue, marking \ NfaPlaced)
       /\ (NfaPlaced = {} /\ base_index = 0 /\ queue[1] = 0) \/ state_address[0] = 0
  /\ stage # "nfa_layout" => NfaPlaced = NfaStates /\ state_address[0] = 0

NfaWordAt(q, n) == IF Kept(q) = {} THEN EmptyWord ELSE TxWord(q, n + 1)

NfaWritten(q) ==
  \A n \in 0..NfaWords(q)-1 :
    state_address[q] + n \in DOMAIN fa /\ fa[state_address[q] + n] = NfaWordAt(q, n)

NfaMapInv ==
  /\ row \in 0..nfa.size
  /\ stage = "nfa_layout" => row = 0
  /\ stage \in {"nfa_traverse", "fatal"} => row = nfa.size
  /\ \A q \in 0..row-1 : NfaWritten(q)

(* The traversal. *)
Current == active_set[active]
NextOne == active_set[1 - active]

EntriesOf(S) == {EntryOf(q) : q \in S}

(* the states whose entries are among the first n *)
StatesIn(n) == {q \in NfaStates : \E m \in 1..n : Current[m] = EntryOf(q)}

Accepted(S) == S \cap nfa.accepting # {}

(* Between two symbols the current list is what is active in the NFA; while *)
(* a symbol is processed the other one is what the entries that have been   *)
(* passed lead to.                                                         *)
NfaWalkInv ==
  /\ active \in 0..1 /\ active_set = [b \in 0..1 |-> active_set[b]]
  /\ Lists(Current, EntriesOf(StatesIn(Len(Current))))
  /\ char \in Symbol \cup {NO_CHAR}
  /\ entry \in 1..Len(Current) + 1
  /\ char = NO_CHAR =>
       /\ entry = 1 /\ NextOne = <<>>
       /\ nfa_state = StatesIn(Len(Current))
       /\ matched <=> Accepted(entered)
  /\ char # NO_CHAR =>
       /\ nfa_state = UNION {Led(q, char) : q \in StatesIn(Len(Current))}
       /\ entered = UNION {LedAnew(q, char) : q \in StatesIn(Len(Current))}
       /\ Lists(NextOne, EntriesOf(UNION {Led(q, char) : q \in StatesIn(entry - 1)}))
       /\ matched <=> Accepted(UNION {LedAnew(q, char) : q \in StatesIn(entry - 1)})

NotWalking ==
  /\ active = 0 /\ active_set = [b \in 0..1 |-> IF b = 0 THEN <<Start>> ELSE <<>>]
  /\ entry = 1 /\ char = NO_CHAR /\ matched = FALSE /\ nfa_state = {0} /\ entered = {}

NfaInv ==
  /\ NfaLayoutInv /\ NfaMapInv
  /\ stage \in {"nfa_layout", "nfa_map"} => NotWalking /\ packet = 1
  /\ packet \in Nat \ {0}
  /\ NfaSound /\ packet = 1 =>
       /\ stage = "nfa_traverse" => NfaWalkInv
       /\ nfa.size < MAX_ACTIVE_SET => stage # "fatal"

-----------------------------------------------------------------------------
(* Lists: what InOrder makes of a set, the list without its first element,  *)
(* and a list with new elements behind it.                                 *)
LEMMA InOrderLists ==
  ASSUME NEW S, IsFiniteSet(S), NEW key \in [S -> Int], \A x, y \in S : key[x] = key[y] => x = y
  PROVE  Lists(InOrder(S, key), S)
<1> DEFINE o == InOrder(S, key)
<1>1. /\ o \in Seq(S) /\ Len(o) = Cardinality(S) /\ \A n \in 1..Len(o) : o[n] \in S
      /\ \A m, n \in 1..Len(o) : m < n => key[o[m]] < key[o[n]]
      /\ \A x \in S : \E n \in 1..Len(o) : o[n] = x
  <2>1. Len(o) = Cardinality(S)
    BY InOrderFacts
  <2>2. o \in Seq(S)
    BY InOrderFacts
  <2>3. \A m, n \in 1..Cardinality(S) : m < n => key[o[m]] < key[o[n]]
    BY InOrderFacts
  <2>4. \A x \in S : \E n \in 1..Cardinality(S) : o[n] = x
    BY InOrderFacts
  <2> HIDE DEF o
  <2>5. \A n \in 1..Len(o) : o[n] \in S
    BY <2>2
  <2> QED BY <2>1, <2>2, <2>3, <2>4, <2>5
<1> HIDE DEF o
<1>2. ASSUME NEW i \in 1..Len(o), NEW j \in 1..Len(o), i # j PROVE o[i] # o[j]
  <2>1. Len(o) \in Nat
    BY <1>1, LenProperties
  <2>2. i < j \/ j < i
    BY <1>2, <2>1
  <2>3. key[o[i]] \in Int /\ key[o[j]] \in Int
    BY <1>1
  <2>4. key[o[i]] < key[o[j]] \/ key[o[j]] < key[o[i]]
    BY <1>1, <2>2
  <2> QED BY <2>3, <2>4
<1> QED BY <1>1, <1>2 DEF Lists, o

LEMMA ListTail ==
  ASSUME NEW S, NEW o, Lists(o, S), o # <<>>
  PROVE  /\ Head(o) \in S /\ Head(o) = o[1]
         /\ Lists(Tail(o), S \ {Head(o)})
<1>1. /\ o \in Seq(S) /\ Len(o) \in Nat \ {0} /\ Head(o) = o[1] /\ 1 \in 1..Len(o) /\ o[1] \in S
  <2>1. o \in Seq(S)
    BY DEF Lists
  <2>2. Len(o) \in Nat \ {0}
    BY <2>1, EmptySeq
  <2> QED BY <2>1, <2>2
<1>2. /\ Tail(o) \in Seq(S) /\ Len(Tail(o)) = Len(o) - 1
      /\ \A i \in 1..Len(Tail(o)) : Tail(o)[i] = o[i + 1]
  BY <1>1, HeadTailProperties
<1> DEFINE T == Tail(o)
<1> HIDE DEF T
<1>3. ASSUME NEW i \in 1..Len(T) PROVE i + 1 \in 1..Len(o) /\ i + 1 # 1 /\ T[i] = o[i + 1]
  BY <1>1, <1>2 DEF T
<1>4. \A i \in 1..Len(T) : T[i] \in S \ {Head(o)}
  <2> TAKE i \in 1..Len(T)
  <2>1. o[i + 1] # o[1] /\ o[i + 1] \in S
    BY <1>1, <1>3 DEF Lists
  <2> QED BY <1>1, <1>3, <2>1
<1>5. \A i, j \in 1..Len(T) : i # j => T[i] # T[j]
  <2> TAKE i, j \in 1..Len(T)
  <2> HAVE i # j
  <2>1. i + 1 # j + 1
    BY <1>1, <1>2 DEF T
  <2> QED BY <1>3, <2>1 DEF Lists
<1>6. \A x \in S \ {Head(o)} : \E i \in 1..Len(T) : T[i] = x
  <2> TAKE x \in S \ {Head(o)}
  <2>1. PICK j \in 1..Len(o) : o[j] = x
    BY DEF Lists
  <2>2. j # 1
    BY <1>1, <2>1
  <2>3. j - 1 \in 1..Len(T) /\ (j - 1) + 1 = j
    BY <1>1, <1>2, <2>2 DEF T
  <2> QED BY <1>3, <2>1, <2>3
<1>7. T \in Seq(S \ {Head(o)})
  <2>1. Len(T) \in Nat /\ T = [i \in 1..Len(T) |-> T[i]]
    BY <1>2, LenProperties DEF T
  <2> QED BY <1>4, <2>1
<1> QED BY <1>1, <1>5, <1>6, <1>7 DEF Lists, T

LEMMA ListConcat ==
  ASSUME NEW S, NEW R, NEW o, NEW u, Lists(o, S), Lists(u, R), S \cap R = {}
  PROVE  Lists(o \o u, S \cup R)
<1>1. o \in Seq(S \cup R) /\ u \in Seq(S \cup R)
  BY SeqMonotonic DEF Lists
<1>2. Len(o) \in Nat /\ Len(u) \in Nat
  BY <1>1, LenProperties
<1> DEFINE v == o \o u
<1>3. /\ v \in Seq(S \cup R) /\ Len(v) = Len(o) + Len(u)
      /\ \A i \in 1..Len(o) + Len(u) : v[i] = IF i <= Len(o) THEN o[i] ELSE u[i - Len(o)]
  BY <1>1, ConcatProperties
<1> HIDE DEF v
<1>4. (\A i \in 1..Len(o) : o[i] \in S) /\ (\A i \in 1..Len(u) : u[i] \in R)
  BY DEF Lists
<1>5. ASSUME NEW i \in 1..Len(v)
      PROVE  \/ i \in 1..Len(o) /\ v[i] = o[i]
             \/ i - Len(o) \in 1..Len(u) /\ v[i] = u[i - Len(o)]
  BY <1>2, <1>3
<1>6. ASSUME NEW i \in 1..Len(v), NEW j \in 1..Len(v), i # j
      PROVE  v[i] # v[j]
  <2>1. CASE i \in 1..Len(o) /\ v[i] = o[i] /\ j \in 1..Len(o) /\ v[j] = o[j]
    BY <1>6, <2>1 DEF Lists
  <2>2. CASE i \in 1..Len(o) /\ v[i] = o[i] /\ j - Len(o) \in 1..Len(u) /\ v[j] = u[j - Len(o)]
    BY <1>4, <2>2
  <2>3. CASE j \in 1..Len(o) /\ v[j] = o[j] /\ i - Len(o) \in 1..Len(u) /\ v[i] = u[i - Len(o)]
    BY <1>4, <2>3
  <2>4. CASE i - Len(o) \in 1..Len(u) /\ v[i] = u[i - Len(o)] /\ j - Len(o) \in 1..Len(u) /\ v[j] = u[j - Len(o)]
    <3>1. i - Len(o) # j - Len(o)
      BY <1>2, <1>3, <1>6
    <3> QED BY <2>4, <3>1 DEF Lists
  <2> QED BY <1>5, <2>1, <2>2, <2>3, <2>4
<1>7. ASSUME NEW x \in S \cup R PROVE \E i \in 1..Len(v) : v[i] = x
  <2>1. CASE x \in S
    <3>1. PICK i \in 1..Len(o) : o[i] = x
      BY <2>1 DEF Lists
    <3>2. i \in 1..Len(v) /\ i <= Len(o)
      BY <1>2, <1>3
    <3> QED BY <1>3, <3>1, <3>2
  <2>2. CASE x \in R
    <3>1. PICK i \in 1..Len(u) : u[i] = x
      BY <2>2 DEF Lists
    <3>2. i + Len(o) \in 1..Len(v) /\ ~(i + Len(o) <= Len(o)) /\ (i + Len(o)) - Len(o) = i
      BY <1>2, <1>3
    <3> QED BY <1>3, <3>1, <3>2
  <2> QED BY <2>1, <2>2
<1> QED BY <1>3, <1>6, <1>7 DEF Lists, v

-----------------------------------------------------------------------------
(* The NFA's table and the order of its transitions. *)
LEMMA NfaFacts ==
  ASSUME nfa \in Nfas
  PROVE  /\ nfa.size \in Nat \ {0} /\ NfaStates = 0..nfa.size-1 /\ 0 \in NfaStates /\ IsFiniteSet(NfaStates)
         /\ Cardinality(NfaStates) = nfa.size
         /\ CSize \in Nat \ {0} /\ Symbol = 0..CSize-1
         /\ \A q \in NfaStates :
              /\ nfa.transitions[q] \subseteq Symbol \X NfaStates /\ IsFiniteSet(nfa.transitions[q])
              /\ Targets(q) \subseteq NfaStates
<1>1. nfa.size \in Nat \ {0} /\ nfa.transitions \in [NfaStates -> SUBSET (Symbol \X NfaStates)]
  BY NfaImageAssumption DEF NfaStates
<1>2. CSize \in Nat \ {0} /\ Symbol = 0..CSize-1
  BY AlphabetAssumption DEF Symbol
<1>3. NfaStates = 0..nfa.size-1 /\ 0 \in NfaStates
  BY <1>1 DEF NfaStates, StatesOf
<1>4. IsFiniteSet(NfaStates) /\ IsFiniteSet(Symbol) /\ Cardinality(NfaStates) = nfa.size
  <2>1. 0 \in Int /\ nfa.size-1 \in Int /\ CSize-1 \in Int
    BY <1>1, <1>2
  <2>2. IsFiniteSet(0..nfa.size-1) /\ Cardinality(0..nfa.size-1) = IF 0 > nfa.size-1 THEN 0 ELSE nfa.size-1-0+1
    BY <2>1, FS_Interval
  <2>3. IsFiniteSet(0..CSize-1)
    BY <2>1, FS_Interval
  <2> QED BY <1>1, <1>2, <1>3, <2>2, <2>3
<1>5. ASSUME NEW q \in NfaStates
      PROVE  /\ nfa.transitions[q] \subseteq Symbol \X NfaStates /\ IsFiniteSet(nfa.transitions[q])
             /\ Targets(q) \subseteq NfaStates
  <2>1. nfa.transitions[q] \subseteq Symbol \X NfaStates
    BY <1>1
  <2>2. IsFiniteSet(Symbol \X NfaStates)
    BY <1>4, FS_Product
  <2>3. IsFiniteSet(nfa.transitions[q])
    BY <2>1, <2>2, FS_Subset
  <2> QED BY <2>1, <2>3 DEF Targets
<1> QED BY <1>1, <1>2, <1>3, <1>4, <1>5

LEMMA TxKeyFacts ==
  ASSUME nfa \in Nfas, NEW x \in Symbol \X NfaStates, NEW y \in Symbol \X NfaStates
  PROVE  /\ TxKey(x) \in Nat
         /\ TxKey(x) = TxKey(y) => x = y
         /\ TxKey(x) < TxKey(y) => x[1] <= y[1]
<1> DEFINE n == nfa.size
<1>1. n \in Nat \ {0} /\ NfaStates = 0..n-1 /\ CSize \in Nat \ {0} /\ Symbol = 0..CSize-1
  BY NfaFacts
<1> HIDE DEF n
<1>2. /\ x[1] \in Nat /\ x[2] \in 0..n-1 /\ y[1] \in Nat /\ y[2] \in 0..n-1
      /\ x = <<x[1], x[2]>> /\ y = <<y[1], y[2]>>
  BY <1>1
<1>3. TxKey(x) = x[2] + n * x[1] /\ TxKey(y) = y[2] + n * y[1]
  BY <1>1, <1>2 DEF TxKey, n
<1>4. n * x[1] \in Nat /\ n * y[1] \in Nat
  BY <1>1, <1>2
<1>5. TxKey(x) = TxKey(y) => x = y
  <2> HAVE TxKey(x) = TxKey(y)
  <2>1. x[2] + n * x[1] = y[2] + n * y[1]
    BY <1>3
  <2>2. \A r, u \in 0..n-1, a, b \in Nat : r + n * a = u + n * b => a = b /\ r = u
    BY <1>1, DigitsUnique
  <2>3. x[1] = y[1] /\ x[2] = y[2]
    BY <1>2, <2>1, <2>2
  <2> QED BY <1>2, <2>3
<1>6. TxKey(x) < TxKey(y) => x[1] <= y[1]
  <2> SUFFICES ASSUME y[1] < x[1] PROVE ~(TxKey(x) < TxKey(y))
    BY <1>2
  <2>1. n * y[1] + n <= n * x[1]
    BY <1>1, <1>2, MultipleGap
  <2> DEFINE a == n * x[1]
             b == n * y[1]
  <2>2. a \in Nat /\ b \in Nat /\ b + n <= a /\ TxKey(x) = x[2] + a /\ TxKey(y) = y[2] + b
    BY <1>3, <1>4, <2>1
  <2> HIDE DEF a, b
  <2> QED BY <1>1, <1>2, <2>2
<1> QED BY <1>2, <1>3, <1>4, <1>5, <1>6

(* The transitions that are stored, in order. *)
LEMMA StoredFacts ==
  ASSUME nfa \in Nfas, NEW q \in NfaStates
  PROVE  /\ Kept(q) \subseteq nfa.transitions[q] /\ Kept(q) \subseteq Symbol \X NfaStates
         /\ Lists(Stored(q), Kept(q))
         /\ \A m, n \in 1..Len(Stored(q)) : m < n => Stored(q)[m][1] <= Stored(q)[n][1]
         /\ NfaWords(q) \in Nat \ {0}
         /\ Kept(q) # {} => NfaWords(q) = Len(Stored(q))
<1> DEFINE S == Kept(q)
           key == [x \in S |-> TxKey(x)]
<1>1. S \subseteq nfa.transitions[q] /\ S \subseteq Symbol \X NfaStates /\ IsFiniteSet(S)
  <2>1. S \subseteq nfa.transitions[q]
    BY DEF Kept
  <2>2. nfa.transitions[q] \subseteq Symbol \X NfaStates /\ IsFiniteSet(nfa.transitions[q])
    BY NfaFacts
  <2> QED BY <2>1, <2>2, FS_Subset
<1>2. \A x \in S : key[x] = TxKey(x)
  OBVIOUS
<1>3. key \in [S -> Int] /\ \A x, y \in S : key[x] = key[y] => x = y
  <2>1. \A x \in S : TxKey(x) \in Int
    BY <1>1, TxKeyFacts
  <2>2. \A x, y \in S : TxKey(x) = TxKey(y) => x = y
    BY <1>1, TxKeyFacts
  <2> QED BY <2>1, <2>2
<1>4. Stored(q) = InOrder(S, key)
  BY DEF Stored
<1> HIDE DEF S, key
<1>5. Lists(Stored(q), S)
  BY <1>1, <1>3, <1>4, InOrderLists
<1>6. Len(Stored(q)) = Cardinality(S) /\ Cardinality(S) \in Nat
  BY <1>1, <1>3, <1>4, InOrderFacts
<1>7. ASSUME NEW m \in 1..Cardinality(S), NEW n \in 1..Cardinality(S), m < n
      PROVE  Stored(q)[m][1] <= Stored(q)[n][1]
  <2>1. key[Stored(q)[m]] < key[Stored(q)[n]]
    BY <1>1, <1>3, <1>4, <1>7, InOrderFacts
  <2>2. Stored(q)[m] \in S /\ Stored(q)[n] \in S
    BY <1>5, <1>6 DEF Lists
  <2> QED BY <1>1, <1>2, <2>1, <2>2, TxKeyFacts
<1>8. S = {} <=> Cardinality(S) = 0
  BY <1>1, FS_EmptySet
<1>9. NfaWords(q) = IF S = {} THEN 1 ELSE Cardinality(S)
  BY DEF NfaWords, S
<1> QED BY <1>1, <1>5, <1>6, <1>7, <1>8, <1>9 DEF S

(* The states that a state adds to the queue. *)
LEMMA NewStatesFacts ==
  ASSUME nfa \in Nfas, NEW q \in NfaStates, NEW new, new = Targets(q) \ marking
  PROVE  new \subseteq NfaStates /\ Lists(InOrder(new, [p \in new |-> FirstKey(q, p)]), new)
<1> DEFINE key == [p \in new |-> FirstKey(q, p)]
<1>1. /\ nfa.transitions[q] \subseteq Symbol \X NfaStates /\ Targets(q) \subseteq NfaStates
      /\ IsFiniteSet(NfaStates)
  BY NfaFacts
<1>2. new \subseteq NfaStates /\ IsFiniteSet(new)
  BY <1>1, FS_Subset
<1>3. ASSUME NEW p \in new
      PROVE  \E x \in nfa.transitions[q] : x[2] = p /\ FirstKey(q, p) = TxKey(x)
  <2> DEFINE K == {TxKey(x) : x \in {x \in nfa.transitions[q] : x[2] = p}}
  <2>1. K \in SUBSET Nat
    BY <1>1, TxKeyFacts
  <2>2. K # {}
    BY DEF Targets
  <2>3. \E k \in K : \A l \in K : k <= l
    BY <2>1, <2>2, LeastElement
  <2>4. \E k \in K : \A x \in nfa.transitions[q] : x[2] = p => k <= TxKey(x)
    BY <2>3
  <2>5. FirstKey(q, p) \in K
    BY <2>4 DEF FirstKey
  <2> QED BY <2>5
<1>4. ASSUME NEW p \in new PROVE FirstKey(q, p) \in Int
  BY <1>1, <1>3, TxKeyFacts
<1>5. ASSUME NEW p \in new, NEW r \in new, FirstKey(q, p) = FirstKey(q, r) PROVE p = r
  <2>1. PICK x \in nfa.transitions[q] : x[2] = p /\ FirstKey(q, p) = TxKey(x)
    BY <1>3
  <2>2. PICK y \in nfa.transitions[q] : y[2] = r /\ FirstKey(q, r) = TxKey(y)
    BY <1>3
  <2>3. x = y
    BY <1>1, <1>5, <2>1, <2>2, TxKeyFacts
  <2> QED BY <2>1, <2>2, <2>3
<1>6. key \in [new -> Int] /\ \A p, r \in new : key[p] = key[r] => p = r
  BY <1>4, <1>5
<1> HIDE DEF key
<1>7. Lists(InOrder(new, key), new)
  BY <1>2, <1>6, InOrderLists
<1> QED BY <1>2, <1>7 DEF key

-----------------------------------------------------------------------------
(* The layout. *)
LEMMA NfaUnchanged ==
  ASSUME UNCHANGED nfa
  PROVE  /\ NfaStates' = NfaStates
         /\ \A q : /\ Targets(q)' = Targets(q) /\ IsStable(q)' = IsStable(q) /\ Kept(q)' = Kept(q)
                   /\ Stored(q)' = Stored(q) /\ NfaWords(q)' = NfaWords(q)
         /\ \A q, c : Led(q, c)' = Led(q, c) /\ LedAnew(q, c)' = LedAnew(q, c)
         /\ \A S : Accepted(S)' = Accepted(S)
<1>1. NfaStates' = NfaStates
  BY DEF NfaStates
<1>2. \A q : Targets(q)' = Targets(q) /\ IsStable(q)' = IsStable(q)
  BY DEF Targets, IsStable
<1>3. \A q : Kept(q)' = Kept(q)
  BY <1>2 DEF Kept
<1>4. \A q : NfaWords(q)' = NfaWords(q)
  BY <1>3 DEF NfaWords
<1>5. \A x : TxKey(x)' = TxKey(x)
  BY DEF TxKey
<1>6. \A q : Stored(q)' = Stored(q)
  BY <1>3, <1>5 DEF Stored
<1>7. \A q, c : Led(q, c)' = Led(q, c)
  BY <1>1 DEF Led
<1>8. \A q, c : LedAnew(q, c)' = LedAnew(q, c)
  BY <1>2, <1>7 DEF LedAnew
<1>9. \A S : Accepted(S)' = Accepted(S)
  BY DEF Accepted
<1> QED BY <1>1, <1>2, <1>3, <1>4, <1>6, <1>7, <1>8, <1>9

LEMMA NfaLayoutInit == NfaImageInit => NfaLayoutInv
<1> SUFFICES ASSUME NfaImageInit PROVE NfaLayoutInv
  OBVIOUS
<1>1. /\ nfa \in Nfas /\ stage = "nfa_layout" /\ queue = <<0>> /\ marking = {0}
      /\ state_address = [q \in NfaStates |-> NO_ADDRESS] /\ base_index = 0 /\ stable = {}
  BY DEF NfaImageInit
<1>2. 0 \in NfaStates
  BY <1>1, NfaFacts
<1>3. NfaPlaced = {}
  BY <1>1 DEF NfaPlaced
<1>4. Lists(queue, marking \ NfaPlaced)
  <2>0. \A o : o = <<0>> => o \in Seq({0}) /\ Len(o) = 1 /\ o[1] = 0 /\ 1..1 = {1}
    OBVIOUS
  <2>1. queue \in Seq({0}) /\ Len(queue) = 1 /\ queue[1] = 0 /\ 1..1 = {1}
    BY <1>1, <2>0
  <2> QED BY <1>1, <1>3, <2>1 DEF Lists
<1>5. queue[1] = 0
  BY <1>1
<1> QED BY <1>1, <1>2, <1>3, <1>4, <1>5 DEF NfaLayoutInv, NO_ADDRESS

(* One state of the breadth-first traversal. *)
LEMMA NfaLayoutKeeps ==
  ASSUME NfaLayoutInv, NfaLayout, UNCHANGED nfa
  PROVE  NfaLayoutInv'
<1>1. stage = "nfa_layout" /\ stage' = "nfa_layout" /\ queue # <<>> /\ nfa \in Nfas
  BY DEF NfaLayout, NfaLayoutInv
<1> DEFINE q == Head(queue)
           new == Targets(q) \ marking
           o == InOrder(new, [p \in new |-> FirstKey(q, p)])
           waiting == marking \ NfaPlaced
<1>2. /\ stable' = IF IsStable(q) THEN stable \cup {q} ELSE stable
      /\ state_address' = [state_address EXCEPT ![q] = base_index]
      /\ base_index' = base_index + NfaWords(q)
      /\ queue' = Tail(queue) \o o
      /\ marking' = marking \cup new
  BY DEF NfaLayout
<1>3. /\ base_index \in Nat /\ marking \subseteq NfaStates /\ 0 \in marking /\ NfaPlaced \subseteq marking
      /\ state_address \in [NfaStates -> Nat \cup {NO_ADDRESS}]
      /\ \A p \in NfaPlaced : state_address[p] + NfaWords(p) <= base_index
      /\ \A p, r \in NfaPlaced : p # r => NfaApart(p, r)
      /\ \A p \in NfaPlaced : Targets(p) \subseteq marking
      /\ stable = {r \in NfaPlaced : IsStable(r)}
      /\ Lists(queue, waiting)
      /\ (NfaPlaced = {} /\ base_index = 0 /\ queue[1] = 0) \/ state_address[0] = 0
  BY <1>1 DEF NfaLayoutInv
<1>4. q \in waiting /\ q = queue[1] /\ Lists(Tail(queue), waiting \ {q})
  BY <1>1, <1>3, ListTail
<1>5. q \in NfaStates /\ q \notin NfaPlaced
  BY <1>3, <1>4
<1> HIDE DEF q
<1>6. new \subseteq NfaStates /\ Lists(o, new)
  BY <1>1, <1>5, NewStatesFacts
<1>7. Lists(queue', (waiting \ {q}) \cup new)
  <2>1. (waiting \ {q}) \cap new = {}
    OBVIOUS
  <2> HIDE DEF waiting, new, o
  <2> QED BY <1>2, <1>4, <1>6, <2>1, ListConcat
<1> HIDE DEF o
<1>8. /\ NfaStates' = NfaStates
      /\ \A p : Targets(p)' = Targets(p) /\ IsStable(p)' = IsStable(p) /\ NfaWords(p)' = NfaWords(p)
  BY NfaUnchanged
<1>9. \A p \in NfaStates : NfaWords(p) \in Nat \ {0}
  BY <1>1, StoredFacts
<1>10. /\ NfaPlaced' = NfaPlaced \cup {q}
       /\ state_address'[q] = base_index
       /\ \A p \in NfaPlaced : state_address'[p] = state_address[p] /\ state_address[p] \in Nat
       /\ state_address' \in [NfaStates -> Nat \cup {NO_ADDRESS}]
  <2>1. NO_ADDRESS = -1 /\ base_index # NO_ADDRESS
    BY <1>3 DEF NO_ADDRESS
  <2>2. \A p \in NfaStates : state_address'[p] = IF p = q THEN base_index ELSE state_address[p]
    BY <1>2, <1>3, <1>5
  <2>3. state_address' \in [NfaStates -> Nat \cup {NO_ADDRESS}]
    BY <1>2, <1>3
  <2> QED BY <1>3, <1>5, <1>8, <2>1, <2>2, <2>3 DEF NfaPlaced
<1>11. base_index' \in Nat /\ base_index <= base_index'
  BY <1>2, <1>3, <1>5, <1>9
<1>12. \A p \in NfaPlaced' : state_address'[p] + NfaWords(p) <= base_index'
  <2> TAKE p \in NfaPlaced'
  <2>1. CASE p = q
    BY <1>2, <1>3, <1>5, <1>9, <1>10, <2>1
  <2>2. CASE p \in NfaPlaced
    <3>1. state_address[p] + NfaWords(p) <= base_index /\ NfaWords(p) \in Nat /\ state_address[p] \in Nat
      BY <1>3, <1>9, <1>10, <2>2
    <3> QED BY <1>3, <1>10, <1>11, <2>2, <3>1
  <2> QED BY <1>10, <2>1, <2>2
<1>13. ASSUME NEW p \in NfaPlaced', NEW r \in NfaPlaced', p # r
       PROVE  \/ state_address'[p] + NfaWords(p) <= state_address'[r]
              \/ state_address'[r] + NfaWords(r) <= state_address'[p]
  <2>1. CASE p \in NfaPlaced /\ r \in NfaPlaced
    <3>1. NfaApart(p, r)
      BY <1>3, <1>13, <2>1
    <3> QED BY <1>10, <2>1, <3>1 DEF NfaApart
  <2>2. CASE p \in NfaPlaced /\ r = q
    BY <1>3, <1>10, <2>2
  <2>3. CASE p = q /\ r \in NfaPlaced
    BY <1>3, <1>10, <2>3
  <2> QED BY <1>10, <1>13, <2>1, <2>2, <2>3
<1>14. \A p, r \in NfaPlaced' : p # r => NfaApart(p, r)'
  BY <1>8, <1>13 DEF NfaApart
<1>15. \A p \in NfaPlaced' : Targets(p) \subseteq marking'
  BY <1>2, <1>3, <1>10
<1>16. stable' = {r \in NfaPlaced' : IsStable(r)}
  BY <1>2, <1>3, <1>10
<1>17. marking' \ NfaPlaced' = (waiting \ {q}) \cup new
  <2>1. new \cap NfaPlaced = {} /\ q \notin new
    BY <1>3, <1>4
  <2> QED BY <1>2, <1>10, <2>1
<1>18. state_address'[0] = 0
  <2>1. CASE queue[1] = 0 /\ base_index = 0
    BY <1>4, <1>10, <2>1
  <2>2. CASE state_address[0] = 0
    <3>1. 0 \in NfaPlaced
      BY <1>3, <2>2 DEF NfaPlaced, NO_ADDRESS
    <3> QED BY <1>10, <2>2, <3>1
  <2> QED BY <1>3, <2>1, <2>2
<1>19. marking' \subseteq NfaStates /\ 0 \in marking' /\ NfaPlaced' \subseteq marking'
  BY <1>2, <1>3, <1>4, <1>6, <1>10
<1> HIDE DEF waiting, new
<1>20. Lists(queue', marking' \ NfaPlaced')
  BY <1>7, <1>17
<1> QED BY <1>1, <1>8, <1>10, <1>11, <1>12, <1>14, <1>15, <1>16, <1>18, <1>19, <1>20 DEF NfaLayoutInv, NO_ADDRESS

(* When the queue is empty every state has an address. *)
LEMMA NfaLaidOutKeeps ==
  ASSUME NfaLayoutInv, NfaLaidOut, UNCHANGED nfa
  PROVE  NfaLayoutInv'
<1>1. /\ stage = "nfa_layout" /\ stage' = "nfa_map" /\ queue = <<>> /\ nfa \in Nfas
      /\ UNCHANGED <<queue, marking, state_address, base_index, stable>>
  BY DEF NfaLaidOut, NfaLayoutInv, nfaLayoutVars, layoutVars
<1>2. /\ Lists(queue, marking \ NfaPlaced)
      /\ (NfaPlaced = {} /\ base_index = 0 /\ queue[1] = 0) \/ state_address[0] = 0
  BY <1>1 DEF NfaLayoutInv
<1>3. marking = NfaPlaced
  <2>0. \A o : o = <<>> => Len(o) = 0 /\ 1..0 = {}
    OBVIOUS
  <2>1. Len(queue) = 0 /\ 1..0 = {}
    BY <1>1, <2>0
  <2>2. marking \ NfaPlaced = {}
    BY <1>2, <2>1 DEF Lists
  <2> QED BY <2>2 DEF NfaLayoutInv
<1>4. NfaPlaced = NfaStates
  <2>1. 0 \in NfaPlaced /\ NfaPlaced \subseteq NfaStates
    BY <1>3 DEF NfaLayoutInv
  <2>2. \A q \in NfaPlaced : \A x \in nfa.transitions[q] : x[2] \in NfaPlaced
    BY <1>3 DEF NfaLayoutInv, Targets
  <2>3. AllReachable(nfa)
    BY <1>1, NfaImageAssumption
  <2> QED BY <2>1, <2>2, <2>3 DEF AllReachable, NfaStates
<1>5. state_address[0] = 0
  BY <1>2, <1>3 DEF NfaLayoutInv
<1>6. /\ NfaStates' = NfaStates
      /\ \A p : Targets(p)' = Targets(p) /\ IsStable(p)' = IsStable(p) /\ NfaWords(p)' = NfaWords(p)
  BY NfaUnchanged
<1>7. NfaPlaced' = NfaPlaced
  BY <1>1, <1>6 DEF NfaPlaced, NO_ADDRESS
<1>8. \A p, r : NfaApart(p, r)' = NfaApart(p, r)
  BY <1>1, <1>6 DEF NfaApart
<1> QED BY <1>1, <1>4, <1>5, <1>6, <1>7, <1>8 DEF NfaLayoutInv, NO_ADDRESS

LEMMA NfaLayoutLater ==
  ASSUME NfaLayoutInv, UNCHANGED <<nfa, queue, marking, state_address, base_index, stable>>,
         \/ UNCHANGED stage
         \/ stage # "nfa_layout" /\ stage' \in {"nfa_map", "nfa_traverse", "fatal"}
  PROVE  NfaLayoutInv'
<1>1. /\ NfaStates' = NfaStates
      /\ \A p : Targets(p)' = Targets(p) /\ IsStable(p)' = IsStable(p) /\ NfaWords(p)' = NfaWords(p)
  BY NfaUnchanged
<1>2. NfaPlaced' = NfaPlaced
  BY <1>1 DEF NfaPlaced, NO_ADDRESS
<1>3. \A p, r : NfaApart(p, r)' = NfaApart(p, r)
  BY <1>1 DEF NfaApart
<1> QED BY <1>1, <1>2, <1>3 DEF NfaLayoutInv, NO_ADDRESS

-----------------------------------------------------------------------------
(* The words. *)
LEMMA NfaWordsUnchanged ==
  ASSUME UNCHANGED <<nfa, state_address, stable>>
  PROVE  \A q, n : NfaWordAt(q, n)' = NfaWordAt(q, n)
<1>1. \A q : Kept(q)' = Kept(q) /\ Stored(q)' = Stored(q)
  BY NfaUnchanged
<1>2. \A q, n : TxWord(q, n)' = TxWord(q, n)
  BY <1>1 DEF TxWord
<1>3. EmptyWord' = EmptyWord
  BY DEF EmptyWord
<1> QED BY <1>1, <1>2, <1>3 DEF NfaWordAt

LEMMA NfaWordsOfIs ==
  ASSUME NEW q, state_address[q] \in Nat, NfaWords(q) \in Nat
  PROVE  /\ DOMAIN NfaWordsOf(q) = state_address[q]..state_address[q] + NfaWords(q) - 1
         /\ \A n \in 0..NfaWords(q)-1 :
              /\ state_address[q] + n \in DOMAIN NfaWordsOf(q)
              /\ NfaWordsOf(q)[state_address[q] + n] = NfaWordAt(q, n)
<1>1. DOMAIN NfaWordsOf(q) = state_address[q]..state_address[q] + NfaWords(q) - 1
  BY DEF NfaWordsOf
<1>2. ASSUME NEW n \in 0..NfaWords(q)-1
      PROVE  /\ state_address[q] + n \in state_address[q]..state_address[q] + NfaWords(q) - 1
             /\ (state_address[q] + n) - state_address[q] = n
  OBVIOUS
<1>3. ASSUME NEW n \in 0..NfaWords(q)-1
      PROVE  NfaWordsOf(q)[state_address[q] + n] = NfaWordAt(q, n)
  BY <1>2, <1>3 DEF NfaWordsOf, NfaWordAt
<1> QED BY <1>1, <1>2, <1>3

LEMMA NfaMapKeeps ==
  ASSUME NfaLayoutInv, NfaMapInv, NfaMap, UNCHANGED nfa
  PROVE  NfaMapInv'
<1>1. /\ stage = "nfa_map" /\ stage' = "nfa_map" /\ row < nfa.size /\ row' = row + 1 /\ nfa \in Nfas
      /\ UNCHANGED <<queue, marking, state_address, base_index, stable>>
  BY DEF NfaMap, NfaLayoutInv, nfaLayoutVars, layoutVars
<1>2. nfa.size \in Nat \ {0} /\ NfaStates = 0..nfa.size-1
  BY <1>1, NfaFacts
<1>3. /\ row \in NfaStates /\ row' \in 0..nfa.size
      /\ \A q \in 0..row'-1 : q \in NfaStates /\ (q # row => q \in 0..row-1)
  <2>1. row \in Nat /\ row' = row + 1 /\ row < nfa.size
    BY <1>1, <1>2 DEF NfaMapInv
  <2>2. row \in NfaStates /\ row' \in 0..nfa.size
    BY <1>2, <2>1
  <2>3. \A q \in 0..row'-1 : q \in NfaStates /\ (q # row => q \in 0..row-1)
    BY <1>2, <2>1
  <2> QED BY <2>2, <2>3
<1>4. /\ \A q \in NfaStates : state_address[q] \in Nat
      /\ \A p, q \in NfaStates : p # q => NfaApart(p, q)
  <2>1. NfaPlaced = NfaStates
    BY <1>1 DEF NfaLayoutInv
  <2> QED BY <2>1 DEF NfaLayoutInv, NfaPlaced
<1>5. \A q \in NfaStates : NfaWords(q) \in Nat \ {0}
  BY <1>1, StoredFacts
<1> DEFINE w == NfaWordsOf(row)
<1>6. fa' = [a \in DOMAIN w \cup DOMAIN fa |-> IF a \in DOMAIN w THEN w[a] ELSE fa[a]]
  BY DEF NfaMap
<1>7. /\ DOMAIN w = state_address[row]..state_address[row] + NfaWords(row) - 1
      /\ \A n \in 0..NfaWords(row)-1 :
           state_address[row] + n \in DOMAIN w /\ w[state_address[row] + n] = NfaWordAt(row, n)
  BY <1>3, <1>4, <1>5, NfaWordsOfIs
<1> HIDE DEF w
<1>8. (\A q : NfaWords(q)' = NfaWords(q)) /\ \A q, n : NfaWordAt(q, n)' = NfaWordAt(q, n)
  BY <1>1, NfaUnchanged, NfaWordsUnchanged
<1>9. ASSUME NEW q \in 0..row'-1, NEW n \in 0..NfaWords(q)-1
      PROVE  state_address[q] + n \in DOMAIN fa' /\ fa'[state_address[q] + n] = NfaWordAt(q, n)
  <2>1. CASE q = row
    <3>1. state_address[q] + n \in DOMAIN w /\ w[state_address[q] + n] = NfaWordAt(q, n)
      BY <1>7, <2>1
    <3> QED BY <1>6, <3>1
  <2>2. CASE q # row
    <3>1. q \in 0..row-1 /\ q \in NfaStates /\ row \in NfaStates
      BY <1>3, <2>2
    <3>2. NfaApart(q, row)
      BY <1>4, <2>2, <3>1
    <3>3. /\ state_address[q] \in Nat /\ state_address[row] \in Nat
          /\ NfaWords(q) \in Nat /\ NfaWords(row) \in Nat
      BY <1>4, <1>5, <3>1
    <3>4. state_address[q] + n \notin state_address[row]..state_address[row] + NfaWords(row) - 1
      BY <3>2, <3>3 DEF NfaApart
    <3>5. state_address[q] + n \in DOMAIN fa /\ fa[state_address[q] + n] = NfaWordAt(q, n)
      BY <3>1 DEF NfaMapInv, NfaWritten
    <3> QED BY <1>6, <1>7, <3>4, <3>5
  <2> QED BY <2>1, <2>2
<1>10. \A q \in 0..row'-1 : NfaWritten(q)'
  BY <1>1, <1>8, <1>9 DEF NfaWritten
<1> QED BY <1>1, <1>3, <1>10 DEF NfaMapInv

LEMMA NfaMapLater ==
  ASSUME NfaMapInv, UNCHANGED <<nfa, state_address, stable, fa, row>>,
         \/ UNCHANGED stage
         \/ stage = "nfa_map" /\ row = nfa.size /\ stage' = "nfa_traverse"
         \/ stage = "nfa_traverse" /\ stage' = "fatal"
  PROVE  NfaMapInv'
<1>1. (\A q : NfaWords(q)' = NfaWords(q)) /\ \A q, n : NfaWordAt(q, n)' = NfaWordAt(q, n)
  BY NfaUnchanged, NfaWordsUnchanged
<1>2. \A q : NfaWritten(q)' = NfaWritten(q)
  BY <1>1 DEF NfaWritten
<1> QED BY <1>2 DEF NfaMapInv

(* While nothing is written yet. *)
LEMMA NfaMapBefore ==
  ASSUME nfa \in Nfas, UNCHANGED nfa, row = 0, row' = 0, stage' \in {"nfa_layout", "nfa_map"}
  PROVE  NfaMapInv'
<1>1. nfa.size \in Nat
  BY NfaFacts
<1>2. \A q \in 0..row'-1 : NfaWritten(q)'
  OBVIOUS
<1>3. row' \in 0..nfa.size /\ stage' \notin {"nfa_traverse", "fatal"}
  BY <1>1
<1> QED BY <1>2, <1>3 DEF NfaMapInv

-----------------------------------------------------------------------------
(* A step of the traversal.  The words of a state. *)
LEMMA NfaRegion ==
  ASSUME NfaLayoutInv, NfaMapInv, NEW q \in NfaStates,
         stage = "nfa_traverse" \/ (stage = "nfa_map" /\ row = nfa.size)
  PROVE  /\ state_address[q] \in Nat /\ NfaWords(q) \in Nat \ {0} /\ base_index \in Nat
         /\ state_address[q] + NfaWords(q) <= base_index
         /\ \A n \in 0..NfaWords(q)-1 : fa[state_address[q] + n] = NfaWordAt(q, n)
         /\ q \in stable <=> IsStable(q)
         /\ \A p \in NfaStates : state_address[p] = state_address[q] => p = q
<1>1. nfa \in Nfas /\ NfaPlaced = NfaStates /\ row = nfa.size
  BY DEF NfaLayoutInv, NfaMapInv
<1>2. \A p \in NfaStates : NfaWords(p) \in Nat \ {0}
  BY <1>1, StoredFacts
<1>3. \A p \in NfaStates : state_address[p] \in Nat
  BY <1>1 DEF NfaLayoutInv, NfaPlaced
<1>4. q \in 0..row-1
  BY <1>1, NfaFacts
<1>5. NfaWritten(q)
  BY <1>4 DEF NfaMapInv
<1>6. ASSUME NEW p \in NfaStates, state_address[p] = state_address[q] PROVE p = q
  <2> SUFFICES ASSUME p # q PROVE FALSE
    OBVIOUS
  <2>1. NfaApart(p, q)
    BY <1>1 DEF NfaLayoutInv
  <2> QED BY <1>2, <1>3, <1>6, <2>1 DEF NfaApart
<1>7. base_index \in Nat /\ state_address[q] + NfaWords(q) <= base_index /\ (q \in stable <=> IsStable(q))
  BY <1>1 DEF NfaLayoutInv
<1> QED BY <1>2, <1>3, <1>5, <1>6, <1>7 DEF NfaWritten

(* The loop over the words ends at the first word that ends it. *)
LEMMA LoopEndFacts ==
  ASSUME NEW a \in Nat, base_index \in Nat, NEW e \in a..base_index-1, EndsLoop(e)
  PROVE  LoopEnd(a) \in a..e /\ EndsLoop(LoopEnd(a))
<1> DEFINE T == {b \in a..base_index-1 : EndsLoop(b)}
<1>1. T \in SUBSET Nat /\ T # {}
  OBVIOUS
<1>2. PICK b \in T : \A d \in T : b <= d
  BY <1>1, LeastElement
<1>3. b \in a..base_index-1 /\ EndsLoop(b) /\ \A d \in a..b-1 : ~EndsLoop(d)
  <2>1. \A d \in a..b-1 : d \in a..base_index-1 /\ ~(b <= d)
    BY <1>2
  <2> QED BY <1>2, <2>1
<1>4. /\ LoopEnd(a) \in a..base_index-1 /\ EndsLoop(LoopEnd(a))
      /\ \A d \in a..LoopEnd(a)-1 : ~EndsLoop(d)
  BY <1>3 DEF LoopEnd
<1> DEFINE f == LoopEnd(a)
<1> HIDE DEF f
<1>5. ~(e < f)
  <2> SUFFICES ASSUME e < f PROVE FALSE
    OBVIOUS
  <2>1. f \in Int
    BY <1>4 DEF f
  <2>2. e \in a..f-1
    BY <2>1
  <2> QED BY <1>4, <2>2 DEF f
<1>6. f \in a..base_index-1
  BY <1>4 DEF f
<1>7. f \in a..e
  BY <1>5, <1>6
<1> QED BY <1>4, <1>7 DEF f

(* The word of a transition to p. *)
LeadsTo(w, p) ==
  /\ w.address = state_address[p] % AddressLimit
  /\ w.stable = (p \in stable)
  /\ w.match = (p \in nfa.accepting)

(* The words that are hit are those of the transitions with the symbol. *)
LEMMA HitsFacts ==
  ASSUME NfaLayoutInv, NfaMapInv, stage = "nfa_traverse", NEW q \in NfaStates, char \in Symbol
  PROVE  /\ Hits(state_address[q]) \subseteq state_address[q]..state_address[q] + NfaWords(q) - 1
         /\ \A b \in Hits(state_address[q]) : \E p \in LedAnew(q, char) : LeadsTo(fa[b], p)
         /\ \A p \in LedAnew(q, char) : \E b \in Hits(state_address[q]) : LeadsTo(fa[b], p)
<1> DEFINE a == state_address[q]
           N == NfaWords(q)
<1>1. /\ nfa \in Nfas /\ a \in Nat /\ N \in Nat \ {0} /\ base_index \in Nat /\ a + N <= base_index
      /\ \A n \in 0..N-1 : fa[a + n] = NfaWordAt(q, n)
  BY NfaRegion DEF NfaLayoutInv
<1>2. /\ Kept(q) \subseteq Symbol \X NfaStates
      /\ Lists(Stored(q), Kept(q))
      /\ \A m, n \in 1..Len(Stored(q)) : m < n => Stored(q)[m][1] <= Stored(q)[n][1]
      /\ Kept(q) # {} => N = Len(Stored(q))
  BY <1>1, StoredFacts
<1>3. \A p \in NfaStates : p \in LedAnew(q, char) <=> <<char, p>> \in Kept(q)
  BY DEF LedAnew, Led, Kept
<1>3a. LedAnew(q, char) \subseteq NfaStates
  BY DEF LedAnew, Led
<1> HIDE DEF a, N
<1>4. CASE Kept(q) = {}
  <2>1. N = 1
    BY <1>4 DEF N, NfaWords
  <2>2. fa[a] = EmptyWord
    <3>1. fa[a + 0] = NfaWordAt(q, 0)
      BY <1>1, <2>1
    <3> QED BY <1>1, <1>4, <3>1 DEF NfaWordAt
  <2>3. fa[a].last /\ fa[a].empty
    BY <2>2 DEF EmptyWord
  <2>4. EndsLoop(a)
    BY <2>3 DEF EndsLoop
  <2>5. LoopEnd(a) \in a..a
    <3>1. a \in a..base_index-1
      BY <1>1, <2>1
    <3> QED BY <1>1, <2>4, <3>1, LoopEndFacts
  <2>6. LoopEnd(a) = a
    BY <1>1, <2>5
  <2>7. Hits(a) = {}
    <3>1. \A b \in a..a : b = a
      BY <1>1
    <3> QED BY <2>3, <2>6, <3>1 DEF Hits
  <2>8. LedAnew(q, char) = {}
    BY <1>3, <1>3a, <1>4
  <2> QED BY <2>7, <2>8 DEF a
<1>5. CASE Kept(q) # {}
  <2>1. N = Len(Stored(q)) /\ \A n \in 1..N : Stored(q)[n] \in Kept(q)
    BY <1>2, <1>5 DEF Lists
  <2>2. ASSUME NEW n \in 1..N
        PROVE  /\ a + n - 1 \in a..a + N - 1
               /\ ~fa[a + n - 1].empty /\ fa[a + n - 1].symbol = Stored(q)[n][1]
               /\ fa[a + n - 1].last <=> n = N
               /\ LeadsTo(fa[a + n - 1], Stored(q)[n][2])
    <3>1. n - 1 \in 0..N-1 /\ a + (n - 1) = a + n - 1 /\ (n - 1) + 1 = n /\ a + n - 1 \in a..a + N - 1
      BY <1>1
    <3>2. fa[a + n - 1] = TxWord(q, n)
      BY <1>1, <1>5, <3>1 DEF NfaWordAt
    <3> DEFINE w == fa[a + n - 1]
    <3> HIDE DEF w
    <3>3. w = TxWord(q, n)
      BY <3>2 DEF w
    <3>4. w.empty = FALSE /\ w.symbol = Stored(q)[n][1]
      BY <3>3 DEF TxWord
    <3>5. w.last = (n = Len(Stored(q)))
      BY <3>3 DEF TxWord
    <3>6. LeadsTo(w, Stored(q)[n][2])
      <4>1. w.address = state_address[Stored(q)[n][2]] % AddressLimit
        BY <3>3 DEF TxWord
      <4>2. w.stable = (Stored(q)[n][2] \in stable)
        BY <3>3 DEF TxWord
      <4>3. w.match = (Stored(q)[n][2] \in nfa.accepting)
        BY <3>3 DEF TxWord
      <4> QED BY <4>1, <4>2, <4>3 DEF LeadsTo
    <3>7. a + n - 1 \in a..a + N - 1 /\ N = Len(Stored(q))
      BY <2>1, <3>1
    <3> QED BY <3>4, <3>5, <3>6, <3>7 DEF w
  <2>3. a + N - 1 \in a..base_index-1 /\ EndsLoop(a + N - 1)
    <3>1. N \in 1..N /\ a + N - 1 \in a..base_index-1
      BY <1>1
    <3>2. fa[a + N - 1].last
      BY <2>2, <3>1
    <3> QED BY <3>1, <3>2 DEF EndsLoop
  <2> DEFINE e == LoopEnd(a)
  <2>4. e \in a..a + N - 1 /\ EndsLoop(e)
    BY <1>1, <2>3, LoopEndFacts
  <2> HIDE DEF e
  <2>5. Hits(a) = {b \in a..e : ~fa[b].empty /\ fa[b].symbol = char}
    BY DEF Hits, e
  <2>6. Hits(a) \subseteq a..a + N - 1
    BY <1>1, <2>4, <2>5
  <2>7. ASSUME NEW b \in Hits(a) PROVE \E p \in LedAnew(q, char) : LeadsTo(fa[b], p)
    <3>1. b \in a..a + N - 1 /\ fa[b].symbol = char
      BY <2>5, <2>6
    <3>2. PICK n \in 1..N : b = a + n - 1
      <4>1. b - a + 1 \in 1..N /\ b = a + (b - a + 1) - 1
        BY <1>1, <3>1
      <4> QED BY <4>1
    <3>3. Stored(q)[n] \in Kept(q) /\ Stored(q)[n][1] = char /\ LeadsTo(fa[b], Stored(q)[n][2])
      BY <2>1, <2>2, <3>1, <3>2
    <3>4. Stored(q)[n] = <<char, Stored(q)[n][2]>> /\ Stored(q)[n][2] \in NfaStates
      BY <1>2, <3>3
    <3>5. Stored(q)[n][2] \in LedAnew(q, char)
      BY <1>3, <3>3, <3>4
    <3> QED BY <3>3, <3>5
  <2>8. ASSUME NEW p \in LedAnew(q, char) PROVE \E b \in Hits(a) : LeadsTo(fa[b], p)
    <3>1. p \in NfaStates /\ <<char, p>> \in Kept(q)
      BY <1>3, <1>3a
    <3>2. PICK n \in 1..N : Stored(q)[n] = <<char, p>>
      BY <1>2, <2>1, <3>1 DEF Lists
    <3>3. Stored(q)[n][1] = char /\ Stored(q)[n][2] = p
      BY <3>2
    <3>4. ~(e < a + n - 1)
      <4> SUFFICES ASSUME e < a + n - 1 PROVE FALSE
        OBVIOUS
      <4>1. PICK m \in 1..N : e = a + m - 1
        <5>1. e - a + 1 \in 1..N /\ e = a + (e - a + 1) - 1
          BY <1>1, <2>4
        <5> QED BY <5>1
      <4>2. m < n
        BY <1>1, <4>1
      <4>3. m # N
        BY <1>1, <4>2
      <4>4. ~fa[e].last /\ fa[e].symbol = Stored(q)[m][1]
        BY <2>2, <4>1, <4>3
      <4>5. Stored(q)[m][1] > char
        BY <2>4, <4>4 DEF EndsLoop
      <4>6. Stored(q)[m][1] <= char
        BY <1>2, <2>1, <3>3, <4>2
      <4>7. Stored(q)[m][1] \in Int /\ char \in Int
        <5>1. Stored(q)[m][1] \in Symbol
          BY <1>2, <2>1
        <5> QED BY <5>1 DEF Symbol
      <4> QED BY <4>5, <4>6, <4>7
    <3>5. a + n - 1 \in a..e
      BY <1>1, <2>4, <3>4
    <3>6. a + n - 1 \in Hits(a)
      BY <2>2, <2>5, <3>3, <3>5
    <3> QED BY <2>2, <3>3, <3>6
  <2> QED BY <2>6, <2>7, <2>8 DEF a, N
<1> QED BY <1>4, <1>5

(* A list to which elements are added that it does not have yet. *)
LEMMA AddEntryLists ==
  ASSUME NEW S, NEW o, Lists(o, S), NEW x
  PROVE  Lists(AddEntry(o, x), S \cup {x})
<1>1. o \in Seq(S) /\ Len(o) \in Nat /\ \A n \in 1..Len(o) : o[n] \in S
  <2>1. o \in Seq(S)
    BY DEF Lists
  <2> QED BY <2>1, LenProperties
<1>2. CASE x \in S
  <2>1. S \cup {x} = S
    BY <1>2
  <2>2. AddEntry(o, x) = o
    BY <1>2 DEF Lists, AddEntry
  <2> QED BY <2>1, <2>2
<1>3. CASE x \notin S
  <2>1. AddEntry(o, x) = Append(o, x)
    BY <1>1, <1>3 DEF AddEntry
  <2>2. \A u : u = <<x>> => u \in Seq({x}) /\ Len(u) = 1 /\ u[1] = x
    OBVIOUS
  <2>3. Lists(<<x>>, {x})
    <3>1. \A u : u = <<x>> => Lists(u, {x})
      BY <2>2 DEF Lists
    <3> QED BY <3>1
  <2>4. o \o <<x>> = Append(o, x)
    BY <1>1, AppendIsConcat
  <2>5. Lists(o \o <<x>>, S \cup {x})
    BY <1>3, <2>3, ListConcat
  <2> QED BY <2>1, <2>4, <2>5
<1> QED BY <1>2, <1>3

LEMMA AddAllLists ==
  ASSUME NEW S, NEW o, Lists(o, S), NEW new, Len(new) \in Nat
  PROVE  Lists(AddAll(o, new), S \cup Entries(new))
<1> DEFINE N == Len(new)
           E == S \cup Entries(new)
           F == [n \in 1..N |-> [u \in Seq(E) |-> AddEntry(u, new[n])]]
           Walk(w) == [n \in 0..N |-> IF n = 0 THEN o ELSE AddEntry(w[n-1], new[n])]
<1>1. N \in Nat /\ o \in Seq(E) /\ \A n \in 1..N : new[n] \in E
  BY SeqMonotonic DEF Lists, Entries
<1>2. ASSUME NEW u \in Seq(E), NEW x \in E PROVE AddEntry(u, x) \in Seq(E)
  BY <1>2, AppendProperties DEF AddEntry
<1>3. StaysIn(F, N, Seq(E))
  BY <1>1, <1>2 DEF StaysIn
<1>4. PICK w \in [0..N -> Seq(E)] : IsRecursion(w, o, F, N)
  <2> HIDE DEF F, E, N
  <2> QED BY <1>1, <1>3, RecursionExists
<1>5. \A n \in 1..N : w[n] = AddEntry(w[n-1], new[n])
  <2>1. \A n \in 1..N : w[n] = F[n][w[n-1]] /\ n - 1 \in 0..N
    <3> HIDE DEF F, E, N
    <3>1. \A n \in 1..N : w[n] = F[n][w[n-1]]
      BY <1>4 DEF IsRecursion
    <3>2. \A n \in 1..N : n - 1 \in 0..N
      BY <1>1
    <3> QED BY <3>1, <3>2
  <2>2. \A n \in 1..N : w[n-1] \in Seq(E)
    BY <1>4, <2>1
  <2> HIDE DEF E
  <2> QED BY <2>1, <2>2
<1>6. w = Walk(w)
  <2>1. w = [n \in 0..N |-> w[n]]
    BY <1>4
  <2>2. \A n \in 0..N : w[n] = IF n = 0 THEN o ELSE AddEntry(w[n-1], new[n])
    <3>1. w[0] = o
      BY <1>4 DEF IsRecursion
    <3>2. \A n \in 0..N : n = 0 \/ n \in 1..N
      BY <1>1
    <3> QED BY <1>5, <3>1, <3>2
  <2> QED BY <2>1, <2>2
<1> DEFINE added == CHOOSE f : f = Walk(f)
<1>7. added = Walk(added) /\ AddAll(o, new) = added[N]
  BY <1>6 DEF AddAll
<1> HIDE DEF added
<1>8. added[0] = o /\ \A n \in 1..N : added[n] = AddEntry(added[n-1], new[n])
  <2>1. 0 \in 0..N /\ \A n \in 1..N : n \in 0..N /\ n # 0
    BY <1>1
  <2> QED BY <1>7, <2>1
<1> DEFINE Part(n) == {new[m] : m \in 1..n}
           T == {n \in Nat : n <= N => Lists(added[n], S \cup Part(n))}
<1>9. 0 \in T
  <2>1. S \cup Part(0) = S
    OBVIOUS
  <2> QED BY <1>8, <2>1
<1>10. \A n \in Nat : n \in T => n + 1 \in T
  <2> SUFFICES ASSUME NEW n \in Nat, n \in T, n + 1 <= N
               PROVE  Lists(added[n + 1], S \cup Part(n + 1))
    <3> HIDE DEF Part, N
    <3>1. \A n \in Nat : n + 1 \in Nat
      OBVIOUS
    <3> QED BY <3>1, Zenon
  <2>1. Lists(added[n], S \cup Part(n))
    BY <1>1
  <2>2. n + 1 \in 1..N /\ (n + 1) - 1 = n
    BY <1>1
  <2>3. added[n + 1] = AddEntry(added[n], new[n + 1])
    BY <1>8, <2>2
  <2>4. Lists(added[n + 1], (S \cup Part(n)) \cup {new[n + 1]})
    <3> HIDE DEF Part
    <3> QED BY <2>1, <2>3, AddEntryLists
  <2>5. (S \cup Part(n)) \cup {new[n + 1]} = S \cup Part(n + 1)
    <3>1. \A m \in 1..n + 1 : m \in 1..n \/ m = n + 1
      OBVIOUS
    <3>2. 1..n \subseteq 1..n + 1 /\ n + 1 \in 1..n + 1
      OBVIOUS
    <3> QED BY <3>1, <3>2
  <2> QED BY <2>4, <2>5
<1> HIDE DEF T
<1>11. N \in T
  BY <1>1, <1>9, <1>10, Inductive
<1> QED BY <1>1, <1>7, <1>11 DEF T, Entries

(* A list of the entries of states is not longer than the NFA has states. *)
LEMMA ListIsShort ==
  ASSUME nfa \in Nfas, NEW S \in SUBSET NfaStates, NEW o, Lists(o, EntriesOf(S))
  PROVE  Len(o) \in Nat /\ Len(o) <= nfa.size
<1>1. IsFiniteSet(NfaStates) /\ Cardinality(NfaStates) = nfa.size
  BY NfaFacts
<1>2. o \in Seq(EntriesOf(S)) /\ Len(o) \in Nat /\ \A n \in 1..Len(o) : o[n] \in EntriesOf(S)
  <2>1. o \in Seq(EntriesOf(S))
    BY DEF Lists
  <2> QED BY <2>1, LenProperties
<1> DEFINE f == [n \in 1..Len(o) |-> CHOOSE q \in S : EntryOf(q) = o[n]]
<1>3. \A n \in 1..Len(o) : f[n] \in S /\ EntryOf(f[n]) = o[n]
  BY <1>2 DEF EntriesOf
<1>4. f \in [1..Len(o) -> NfaStates]
  BY <1>3
<1>5. \A m, n \in 1..Len(o) : f[m] = f[n] => m = n
  <2> HIDE DEF f
  <2> QED BY <1>3 DEF Lists
<1>6. f \in Injection(1..Len(o), NfaStates)
  <2> HIDE DEF f
  <2> QED BY <1>4, <1>5 DEF Injection, IsInjective
<1>7. Cardinality(1..Len(o)) <= Cardinality(NfaStates)
  <2> HIDE DEF f
  <2> QED BY <1>1, <1>6, FS_Injection
<1>8. Cardinality(1..Len(o)) = Len(o)
  <2>1. 1 \in Int /\ Len(o) \in Int
    BY <1>2
  <2>2. Cardinality(1..Len(o)) = IF 1 > Len(o) THEN 0 ELSE Len(o) - 1 + 1
    BY <2>1, FS_Interval
  <2> QED BY <1>2, <2>2
<1> QED BY <1>1, <1>2, <1>7, <1>8

(* The addresses fit into the words, and tell the states apart. *)
LEMMA EntryFacts ==
  ASSUME NfaLayoutInv, NfaMapInv, NfaSound,
         stage = "nfa_traverse" \/ (stage = "nfa_map" /\ row = nfa.size)
  PROVE  /\ \A p \in NfaStates : state_address[p] % AddressLimit = state_address[p]
         /\ \A p, q \in NfaStates : EntryOf(p) = EntryOf(q) => p = q
<1>1. ASSUME NEW p \in NfaStates PROVE state_address[p] % AddressLimit = state_address[p]
  <2>1. /\ state_address[p] \in Nat /\ NfaWords(p) \in Nat \ {0} /\ base_index \in Nat
        /\ state_address[p] + NfaWords(p) <= base_index
    BY NfaRegion
  <2>2. AddressLimit \in Nat \ {0} /\ base_index <= AddressLimit
    BY ImageAssumption DEF NfaSound
  <2>3. state_address[p] \in 0..AddressLimit-1
    BY <2>1, <2>2
  <2> QED BY <2>2, <2>3
<1>2. ASSUME NEW p \in NfaStates, NEW q \in NfaStates, EntryOf(p) = EntryOf(q) PROVE p = q
  <2>1. state_address[p] = state_address[q]
    BY <1>2 DEF EntryOf
  <2> QED BY <2>1, NfaRegion
<1> QED BY <1>1, <1>2

(* What the entry of q adds: the entries of the states that q is led to.   *)
(* A match is noticed when one of those that are entered anew accepts.     *)
LEMMA AddedFacts ==
  ASSUME NfaLayoutInv, NfaMapInv, stage = "nfa_traverse", NfaSound, NEW q \in NfaStates, char \in Symbol,
         NEW e, e = EntryOf(q)
  PROVE  /\ Len(Added(e)) \in Nat
         /\ Entries(Added(e)) = EntriesOf(Led(q, char))
         /\ (\E b \in Hits(e.address) : fa[b].match) <=> Accepted(LedAnew(q, char))
<1> DEFINE a == e.address
           Chosen == Hits(a)
           o == InOrder(Chosen, [b \in Chosen |-> b])
           W == LedAnew(q, char)
           u == [n \in 1..Len(o) |-> [address |-> fa[o[n]].address, stable |-> fa[o[n]].stable]]
<1>1. a = state_address[q] /\ e.stable = (q \in stable) /\ (q \in stable <=> IsStable(q))
  <2>1. e.address = state_address[q] /\ e.stable = (q \in stable)
    BY DEF EntryOf
  <2> QED BY <2>1, NfaRegion
<1>2. /\ Chosen \subseteq a..a + NfaWords(q) - 1
      /\ \A b \in Chosen : \E p \in W : LeadsTo(fa[b], p)
      /\ \A p \in W : \E b \in Chosen : LeadsTo(fa[b], p)
  BY <1>1, HitsFacts
<1>3. W \subseteq NfaStates
  BY DEF LedAnew, Led
<1> HIDE DEF Chosen, W
<1>4. ASSUME NEW b, NEW p \in W, LeadsTo(fa[b], p)
      PROVE  [address |-> fa[b].address, stable |-> fa[b].stable] = EntryOf(p)
  <2>1. fa[b].address = state_address[p] /\ fa[b].stable = (p \in stable)
    BY <1>3, <1>4, EntryFacts DEF LeadsTo
  <2> QED BY <2>1 DEF EntryOf
<1>5. Lists(o, Chosen) /\ Len(o) \in Nat
  <2>1. a \in Nat /\ NfaWords(q) \in Nat
    BY <1>1, NfaRegion
  <2>2. Chosen \subseteq Int /\ IsFiniteSet(Chosen)
    <3>1. a \in Int /\ a + NfaWords(q) - 1 \in Int
      BY <2>1
    <3>2. \A x, y \in Int : IsFiniteSet(x..y)
      BY FS_Interval
    <3>3. IsFiniteSet(a..a + NfaWords(q) - 1)
      BY <3>1, <3>2
    <3>4. IsFiniteSet(Chosen)
      BY <1>2, <3>3, FS_Subset
    <3>5. a..a + NfaWords(q) - 1 \subseteq Int
      OBVIOUS
    <3> QED BY <1>2, <3>4, <3>5
  <2>3. [b \in Chosen |-> b] \in [Chosen -> Int] /\ \A x, y \in Chosen : [b \in Chosen |-> b][x] = [b \in Chosen |-> b][y] => x = y
    BY <2>2
  <2>4. Lists(o, Chosen)
    BY <2>2, <2>3, InOrderLists
  <2> HIDE DEF o
  <2>5. o \in Seq(Chosen)
    BY <2>4 DEF Lists
  <2> QED BY <2>4, <2>5, LenProperties
<1> HIDE DEF o
<1>6. Len(u) = Len(o) /\ Entries(u) = EntriesOf(W)
  <2>1. Len(u) = Len(o) /\ \A n \in 1..Len(o) : u[n] = [address |-> fa[o[n]].address, stable |-> fa[o[n]].stable]
    BY <1>5
  <2> HIDE DEF u
  <2>2. ASSUME NEW n \in 1..Len(u) PROVE u[n] \in EntriesOf(W)
    <3>1. o[n] \in Chosen
      BY <1>5, <2>1 DEF Lists
    <3>2. PICK p \in W : LeadsTo(fa[o[n]], p)
      BY <1>2, <3>1
    <3>3. u[n] = EntryOf(p)
      BY <1>4, <2>1, <3>2
    <3> QED BY <3>3 DEF EntriesOf
  <2>3. ASSUME NEW p \in W PROVE \E n \in 1..Len(u) : u[n] = EntryOf(p)
    <3>1. PICK b \in Chosen : LeadsTo(fa[b], p)
      BY <1>2
    <3>2. PICK n \in 1..Len(o) : o[n] = b
      BY <1>5, <3>1 DEF Lists
    <3>3. u[n] = EntryOf(p)
      BY <1>4, <2>1, <3>1, <3>2
    <3> QED BY <2>1, <3>2, <3>3
  <2> QED BY <2>1, <2>2, <2>3 DEF Entries, EntriesOf
<1>7. u = [n \in 1..Len(o) |-> u[n]]
  OBVIOUS
<1>8. Added(e) = IF e.stable THEN <<e>> \o u ELSE u
  BY DEF Added, Chosen, o
<1> HIDE DEF u
<1>9. (\E b \in Chosen : fa[b].match) <=> Accepted(W)
  <2>1. \A b \in Chosen : \E p \in W : fa[b].match = (p \in nfa.accepting)
    BY <1>2 DEF LeadsTo
  <2>2. \A p \in W : \E b \in Chosen : fa[b].match = (p \in nfa.accepting)
    BY <1>2 DEF LeadsTo
  <2> QED BY <2>1, <2>2, Zenon DEF Accepted
<1>10. CASE IsStable(q)
  <2>1. Added(e) = <<e>> \o u
    BY <1>1, <1>8, <1>10
  <2>2. \A v : v = <<e>> \o u =>
          Len(v) = Len(u) + 1 /\ v[1] = e /\ \A n \in 1..Len(u) : v[n + 1] = u[n]
    <3>1. \A v : v = <<e>> => Len(v) = 1 /\ v[1] = e /\ v \in Seq({e})
      OBVIOUS
    <3> DEFINE v == <<e>>
    <3>2. Len(v) = 1 /\ v[1] = e /\ v \in Seq({e} \cup Entries(u))
      BY <3>1, SeqMonotonic
    <3> HIDE DEF v
    <3>3. u \in Seq({e} \cup Entries(u))
      <4>1. \A n \in 1..Len(o) : u[n] \in {e} \cup Entries(u)
        BY <1>6 DEF Entries
      <4> QED BY <1>5, <1>7, <4>1
    <3>4. /\ Len(v \o u) = 1 + Len(u)
          /\ \A i \in 1..1 + Len(u) : (v \o u)[i] = IF i <= 1 THEN v[i] ELSE u[i - 1]
      <4> DEFINE E == {e} \cup Entries(u)
      <4> HIDE DEF E
      <4>1. v \in Seq(E) /\ u \in Seq(E)
        BY <3>2, <3>3 DEF E
      <4>2. /\ Len(v \o u) = Len(v) + Len(u)
            /\ \A i \in 1..Len(v) + Len(u) : (v \o u)[i] = IF i <= Len(v) THEN v[i] ELSE u[i - Len(v)]
        BY <4>1, ConcatProperties
      <4> QED BY <3>2, <4>2
    <3>5. (v \o u)[1] = e
      BY <1>5, <1>6, <3>2, <3>4
    <3>6. \A n \in 1..Len(u) : n + 1 \in 1..1 + Len(u) /\ ~(n + 1 <= 1) /\ (n + 1) - 1 = n
      BY <1>5, <1>6
    <3>7. \A n \in 1..Len(u) : (v \o u)[n + 1] = u[n]
      BY <3>4, <3>6
    <3> QED BY <1>5, <1>6, <3>4, <3>5, <3>7 DEF v
  <2>3. Len(Added(e)) = Len(u) + 1 /\ Added(e)[1] = e /\ \A n \in 1..Len(u) : Added(e)[n + 1] = u[n]
    BY <2>1, <2>2
  <2>4. Entries(Added(e)) = {e} \cup Entries(u)
    <3>1. \A n \in 1..Len(u) + 1 : n = 1 \/ (n - 1 \in 1..Len(u) /\ (n - 1) + 1 = n)
      BY <1>5, <1>6
    <3>2. 1 \in 1..Len(u) + 1 /\ \A n \in 1..Len(u) : n + 1 \in 1..Len(u) + 1
      BY <1>5, <1>6
    <3> DEFINE v == Added(e)
    <3> HIDE DEF v
    <3>3. Len(v) = Len(u) + 1 /\ v[1] = e /\ \A n \in 1..Len(u) : v[n + 1] = u[n]
      BY <2>3 DEF v
    <3>4. Entries(v) \subseteq {e} \cup Entries(u)
      <4> SUFFICES ASSUME NEW n \in 1..Len(u) + 1 PROVE v[n] \in {e} \cup Entries(u)
        BY <3>3 DEF Entries
      <4>1. CASE n = 1
        BY <3>3, <4>1
      <4>2. CASE n # 1
        <5>1. n - 1 \in 1..Len(u) /\ (n - 1) + 1 = n
          BY <3>1, <4>2
        <5>2. v[n] = u[n - 1]
          BY <3>3, <5>1
        <5> QED BY <5>1, <5>2 DEF Entries
      <4> QED BY <4>1, <4>2
    <3>5. {e} \cup Entries(u) \subseteq Entries(v)
      BY <3>2, <3>3 DEF Entries
    <3> QED BY <3>4, <3>5 DEF v
  <2>5. Led(q, char) = {q} \cup W
    BY <1>10 DEF W, LedAnew, Led, IsStable
  <2>6. EntriesOf(Led(q, char)) = {e} \cup EntriesOf(W)
    BY <2>5 DEF EntriesOf
  <2> QED BY <1>5, <1>6, <1>9, <2>3, <2>4, <2>6 DEF Chosen, W
<1>11. CASE ~IsStable(q)
  <2>1. Added(e) = u
    BY <1>1, <1>8, <1>11
  <2>2. Led(q, char) = W
    BY <1>11 DEF W, LedAnew
  <2> QED BY <1>5, <1>6, <1>9, <2>1, <2>2 DEF Chosen, W
<1> QED BY <1>10, <1>11

LEMMA EntriesUnchanged ==
  ASSUME UNCHANGED <<nfa, state_address, stable>>
  PROVE  /\ NfaStates' = NfaStates
         /\ \A q : EntryOf(q)' = EntryOf(q)
         /\ \A S : EntriesOf(S)' = EntriesOf(S)
         /\ \A q, c : Led(q, c)' = Led(q, c) /\ LedAnew(q, c)' = LedAnew(q, c)
         /\ \A S : Accepted(S)' = Accepted(S)
<1>1. \A q : EntryOf(q)' = EntryOf(q)
  BY DEF EntryOf
<1>2. \A S : EntriesOf(S)' = EntriesOf(S)
  BY <1>1 DEF EntriesOf
<1> QED BY <1>1, <1>2, NfaUnchanged

(* The states of a list that are found in it again. *)
LEMMA ListedStates ==
  ASSUME NfaLayoutInv, NfaMapInv, NfaSound,
         stage = "nfa_traverse" \/ (stage = "nfa_map" /\ row = nfa.size),
         NEW S \in SUBSET NfaStates, NEW o, Lists(o, EntriesOf(S))
  PROVE  {q \in NfaStates : \E m \in 1..Len(o) : o[m] = EntryOf(q)} = S
<1>1. \A m \in 1..Len(o) : o[m] \in EntriesOf(S)
  <2>1. o \in Seq(EntriesOf(S))
    BY DEF Lists
  <2> QED BY <2>1
<1>2. ASSUME NEW q \in NfaStates, NEW m \in 1..Len(o), o[m] = EntryOf(q) PROVE q \in S
  <2>1. PICK p \in S : EntryOf(q) = EntryOf(p)
    BY <1>1, <1>2 DEF EntriesOf
  <2> QED BY <2>1, EntryFacts
<1>3. ASSUME NEW q \in S PROVE \E m \in 1..Len(o) : o[m] = EntryOf(q)
  BY DEF Lists, EntriesOf
<1> QED BY <1>2, <1>3

LEMMA NextListFacts ==
  ASSUME NfaLayoutInv, NfaMapInv, NfaWalkInv, stage = "nfa_traverse", NfaSound,
         char # NO_CHAR, entry <= Len(Current)
  PROVE  LET reached == UNION {Led(q, char) : q \in StatesIn(entry)}
             anew == UNION {LedAnew(q, char) : q \in StatesIn(entry)}
             hit == \E b \in Hits(Current[entry].address) : fa[b].match
         IN /\ Lists(NextList, EntriesOf(reached))
            /\ Len(NextList) \in Nat /\ Len(NextList) <= nfa.size
            /\ matched \/ hit <=> Accepted(anew)
            /\ entry \in Nat /\ entry + 1 \in 1..Len(Current) + 1
<1> DEFINE S == StatesIn(entry - 1)
           R(T) == UNION {Led(q, char) : q \in T}
           A(T) == UNION {LedAnew(q, char) : q \in T}
           hit == \E b \in Hits(Current[entry].address) : fa[b].match
<1>1. /\ Lists(Current, EntriesOf(StatesIn(Len(Current)))) /\ char \in Symbol /\ entry \in 1..Len(Current) + 1
      /\ Lists(NextOne, EntriesOf(R(S)))
      /\ matched <=> Accepted(A(S))
  BY DEF NfaWalkInv
<1>2. Current \in Seq(EntriesOf(StatesIn(Len(Current)))) /\ Len(Current) \in Nat
  <2>1. Current \in Seq(EntriesOf(StatesIn(Len(Current))))
    BY <1>1 DEF Lists
  <2> QED BY <2>1, LenProperties
<1>3. entry \in 1..Len(Current) /\ entry \in Nat /\ entry + 1 \in 1..Len(Current) + 1
  BY <1>1, <1>2
<1>4. PICK q \in NfaStates : Current[entry] = EntryOf(q)
  <2>1. Current[entry] \in EntriesOf(StatesIn(Len(Current)))
    BY <1>2, <1>3
  <2> QED BY <2>1 DEF EntriesOf, StatesIn
<1>5. StatesIn(entry) = S \cup {q}
  <2>1. \A m \in 1..entry : m = entry \/ m \in 1..entry - 1
    BY <1>3
  <2>2. entry \in 1..entry /\ \A m \in 1..entry - 1 : m \in 1..entry
    BY <1>3
  <2>3. \A p \in NfaStates : Current[entry] = EntryOf(p) <=> p = q
    BY <1>4, EntryFacts
  <2> QED BY <2>1, <2>2, <2>3 DEF StatesIn
<1> DEFINE e == Current[entry]
<1>6. /\ Len(Added(e)) \in Nat
      /\ Entries(Added(e)) = EntriesOf(Led(q, char))
      /\ hit <=> Accepted(LedAnew(q, char))
  BY <1>1, <1>4, AddedFacts
<1>7. R(StatesIn(entry)) = R(S) \cup Led(q, char) /\ A(StatesIn(entry)) = A(S) \cup LedAnew(q, char)
  <2> HIDE DEF S
  <2> QED BY <1>5
<1>8. Lists(NextList, EntriesOf(R(S)) \cup Entries(Added(e)))
  <2>1. NextList = AddAll(NextOne, Added(e))
    BY DEF NextList, NextOne, Current
  <2> HIDE DEF e, R, S
  <2> QED BY <1>1, <1>6, <2>1, AddAllLists
<1>9. EntriesOf(R(S)) \cup Entries(Added(e)) = EntriesOf(R(StatesIn(entry)))
  <2> HIDE DEF e, R, S
  <2> QED BY <1>6, <1>7 DEF EntriesOf
<1>10. Lists(NextList, EntriesOf(R(StatesIn(entry))))
  BY <1>8, <1>9
<1>11. R(StatesIn(entry)) \subseteq NfaStates
  BY DEF Led
<1>12. Len(NextList) \in Nat /\ Len(NextList) <= nfa.size
  <2>1. nfa \in Nfas
    BY DEF NfaLayoutInv
  <2> HIDE DEF R
  <2> QED BY <1>10, <1>11, <2>1, ListIsShort
<1>13. matched \/ hit <=> Accepted(A(StatesIn(entry)))
  <2>1. Accepted(A(StatesIn(entry))) <=> Accepted(A(S)) \/ Accepted(LedAnew(q, char))
    <3> HIDE DEF A, S
    <3> QED BY <1>7 DEF Accepted
  <2> HIDE DEF A, S, hit
  <2> QED BY <1>1, <1>6, <2>1
<1> QED BY <1>3, <1>10, <1>12, <1>13

LEMMA ProcessEntryKeeps ==
  ASSUME NfaLayoutInv, NfaMapInv, NfaWalkInv, NfaSound, ProcessEntry, UNCHANGED <<nfa, state_address, stable>>
  PROVE  /\ stage' = "fatal" => ~(nfa.size < MAX_ACTIVE_SET)
         /\ stage' = "nfa_traverse" => NfaWalkInv'
         /\ stage = "nfa_traverse" /\ stage' \in {"nfa_traverse", "fatal"} /\ packet' = packet
<1>1. stage = "nfa_traverse" /\ char # NO_CHAR /\ entry <= Len(Current)
  BY DEF ProcessEntry, Current
<1> DEFINE R(T) == UNION {Led(q, char) : q \in T}
           A(T) == UNION {LedAnew(q, char) : q \in T}
           hit == \E b \in Hits(Current[entry].address) : fa[b].match
<1>2. /\ Lists(NextList, EntriesOf(R(StatesIn(entry))))
      /\ Len(NextList) \in Nat /\ Len(NextList) <= nfa.size
      /\ matched \/ hit <=> Accepted(A(StatesIn(entry)))
      /\ entry \in Nat /\ entry + 1 \in 1..Len(Current) + 1
  BY <1>1, NextListFacts
<1>3. CASE Len(NextList) >= MAX_ACTIVE_SET
  <2>1. stage' = "fatal" /\ UNCHANGED packet
    BY <1>3 DEF ProcessEntry, nfaWalkVars
  <2>2. nfa.size \in Nat /\ MAX_ACTIVE_SET \in Nat
    BY NfaFacts, NfaImageAssumption DEF NfaLayoutInv
  <2> QED BY <1>1, <1>2, <1>3, <2>1, <2>2
<1>4. CASE ~(Len(NextList) >= MAX_ACTIVE_SET)
  <2>1. /\ active_set' = [active_set EXCEPT ![1 - active] = NextList]
        /\ matched' = (matched \/ hit)
        /\ entry' = entry + 1
        /\ UNCHANGED <<stage, active, char, packet, nfa_state, entered>>
    BY <1>4 DEF ProcessEntry, Current
  <2>2. active \in 0..1 /\ active_set = [b \in 0..1 |-> active_set[b]]
    BY DEF NfaWalkInv
  <2>3. 1 - active \in 0..1 /\ 1 - active # active
    BY <2>2
  <2>4. /\ Current' = Current /\ NextOne' = NextList
        /\ active_set' = [b \in 0..1 |-> active_set'[b]]
    <3> DEFINE L == NextList
    <3> HIDE DEF L
    <3>1. active_set' = [active_set EXCEPT ![1 - active] = L] /\ active' = active
      BY <2>1 DEF L
    <3>2. active_set' = [b \in 0..1 |-> IF b = 1 - active THEN L ELSE active_set[b]]
      BY <2>2, <3>1
    <3>3. active_set'[active] = active_set[active] /\ active_set'[1 - active] = L
      BY <2>2, <2>3, <3>2
    <3> QED BY <3>1, <3>2, <3>3 DEF Current, NextOne, L
  <2>5. /\ NfaStates' = NfaStates
        /\ \A q : EntryOf(q)' = EntryOf(q)
        /\ \A S : EntriesOf(S)' = EntriesOf(S)
        /\ \A q, c : Led(q, c)' = Led(q, c) /\ LedAnew(q, c)' = LedAnew(q, c)
        /\ \A S : Accepted(S)' = Accepted(S)
    BY EntriesUnchanged
  <2>6. \A n : {q \in NfaStates' : \E m \in 1..n : Current'[m] = EntryOf(q)'} = StatesIn(n)
    BY <2>4, <2>5 DEF StatesIn
  <2>7. StatesIn(Len(Current))' = StatesIn(Len(Current)) /\ StatesIn(entry - 1)' = StatesIn(entry)
    <3>1. StatesIn(Len(Current))' = {q \in NfaStates' : \E m \in 1..Len(Current') : Current'[m] = EntryOf(q)'}
      BY DEF StatesIn
    <3>2. StatesIn(entry - 1)' = {q \in NfaStates' : \E m \in 1..entry' - 1 : Current'[m] = EntryOf(q)'}
      BY DEF StatesIn
    <3>3. entry' - 1 = entry
      BY <1>2, <2>1
    <3> QED BY <2>4, <2>6, <3>1, <3>2, <3>3
  <2>8. /\ Lists(Current, EntriesOf(StatesIn(Len(Current)))) /\ char \in Symbol \cup {NO_CHAR}
        /\ nfa_state = R(StatesIn(Len(Current)))
        /\ entered = A(StatesIn(Len(Current)))
    BY <1>1 DEF NfaWalkInv
  <2>9. Lists(Current, EntriesOf(StatesIn(Len(Current))))'
    <3> DEFINE T == StatesIn(Len(Current))
    <3>1. EntriesOf(T)' = EntriesOf(T)
      <4>1. \A S : {EntryOf(q)' : q \in S} = EntriesOf(S)
        BY <2>5 DEF EntriesOf
      <4>2. EntriesOf(T)' = {EntryOf(q)' : q \in T'}
        BY DEF EntriesOf
      <4> QED BY <2>7, <4>1, <4>2
    <3>2. Lists(Current, EntriesOf(T))' <=> Lists(Current, EntriesOf(T))
      <4> HIDE DEF T
      <4> QED BY <2>4, <3>1 DEF Lists
    <3> QED BY <2>8, <3>2
  <2>10. nfa_state' = UNION {Led(q, char)' : q \in StatesIn(Len(Current))'}
    BY <2>1, <2>5, <2>7, <2>8
  <2>11. entered' = UNION {LedAnew(q, char)' : q \in StatesIn(Len(Current))'}
    BY <2>1, <2>5, <2>7, <2>8
  <2> DEFINE U == UNION {Led(q, char) : q \in StatesIn(entry - 1)}
             V == UNION {LedAnew(q, char) : q \in StatesIn(entry - 1)}
  <2>12. U' = R(StatesIn(entry)) /\ V' = A(StatesIn(entry))
    BY <2>1, <2>5, <2>7
  <2>13. Lists(NextOne, EntriesOf(U))'
    <3>1. EntriesOf(U)' = EntriesOf(R(StatesIn(entry)))
      <4>1. \A S : {EntryOf(q)' : q \in S} = EntriesOf(S)
        BY <2>5 DEF EntriesOf
      <4>2. EntriesOf(U)' = {EntryOf(q)' : q \in U'}
        BY DEF EntriesOf
      <4> HIDE DEF U, R
      <4> QED BY <2>12, <4>1, <4>2
    <3> HIDE DEF U, R
    <3>2. Lists(NextOne, EntriesOf(U))' <=> Lists(NextList, EntriesOf(R(StatesIn(entry))))
      BY <2>4, <3>1 DEF Lists
    <3> QED BY <1>2, <3>2
  <2>14. (matched <=> Accepted(V))'
    <3>1. Accepted(V)' <=> Accepted(A(StatesIn(entry)))
      <4>1. Accepted(V)' <=> V' \cap (nfa.accepting)' # {}
        BY DEF Accepted
      <4> HIDE DEF V, A
      <4> QED BY <2>12, <4>1 DEF Accepted
    <3> HIDE DEF V, A
    <3> QED BY <1>2, <2>1, <3>1
  <2>15. entry' \in 1..Len(Current') + 1 /\ char' # NO_CHAR /\ char' \in Symbol \cup {NO_CHAR} /\ active' \in 0..1
    BY <1>1, <1>2, <2>1, <2>2, <2>4, <2>8
  <2>16. NfaWalkInv'
    BY <2>4, <2>9, <2>10, <2>11, <2>13, <2>14, <2>15 DEF NfaWalkInv, NO_CHAR
  <2> QED BY <1>1, <2>1, <2>16
<1> QED BY <1>3, <1>4

LEMMA EndOfCharKeeps ==
  ASSUME NfaLayoutInv, NfaMapInv, NfaWalkInv, NfaSound, EndOfChar, UNCHANGED <<nfa, state_address, stable>>
  PROVE  NfaWalkInv'
<1> DEFINE R(T) == UNION {Led(q, char) : q \in T}
           A(T) == UNION {LedAnew(q, char) : q \in T}
           W == StatesIn(Len(Current))
<1>1. /\ stage = "nfa_traverse" /\ char # NO_CHAR /\ entry > Len(Current)
      /\ active_set' = [active_set EXCEPT ![active] = <<>>]
      /\ active' = 1 - active /\ entry' = 1 /\ char' = NO_CHAR
      /\ UNCHANGED <<stage, matched, packet, nfa_state, entered>>
  BY DEF EndOfChar, Current
<1>2. /\ active \in 0..1 /\ active_set = [b \in 0..1 |-> active_set[b]]
      /\ Lists(Current, EntriesOf(W)) /\ entry \in 1..Len(Current) + 1
      /\ nfa_state = R(W) /\ entered = A(W)
      /\ Lists(NextOne, EntriesOf(R(StatesIn(entry - 1))))
      /\ matched <=> Accepted(A(StatesIn(entry - 1)))
  BY <1>1 DEF NfaWalkInv
<1>3. Len(Current) \in Nat /\ Len(NextOne) \in Nat
  <2>1. Current \in Seq(EntriesOf(W)) /\ NextOne \in Seq(EntriesOf(R(StatesIn(entry - 1))))
    BY <1>2 DEF Lists
  <2> QED BY <2>1, LenProperties
<1>4. entry - 1 = Len(Current)
  BY <1>1, <1>2, <1>3
<1>5. Lists(NextOne, EntriesOf(nfa_state)) /\ (matched <=> Accepted(entered)) /\ nfa_state \subseteq NfaStates
  <2>1. R(W) \subseteq NfaStates
    BY DEF Led
  <2> QED BY <1>2, <1>4, <2>1
<1>6. active' \in 0..1 /\ 1 - active' = active /\ active' # active
  BY <1>1, <1>2
<1>7. Current' = NextOne /\ NextOne' = <<>> /\ active_set' = [b \in 0..1 |-> active_set'[b]]
  <2>1. active_set' = [b \in 0..1 |-> IF b = active THEN <<>> ELSE active_set[b]]
    BY <1>1, <1>2
  <2>2. active_set'[active] = <<>> /\ active_set'[1 - active] = active_set[1 - active]
    BY <1>1, <1>2, <1>6, <2>1
  <2> QED BY <1>1, <1>6, <2>1, <2>2 DEF Current, NextOne
<1>8. /\ NfaStates' = NfaStates
      /\ \A q : EntryOf(q)' = EntryOf(q)
      /\ \A S : Accepted(S)' = Accepted(S)
  BY EntriesUnchanged
<1>9. StatesIn(Len(Current))' = nfa_state
  <2>1. StatesIn(Len(Current))' = {q \in NfaStates' : \E m \in 1..Len(Current') : Current'[m] = EntryOf(q)'}
    BY DEF StatesIn
  <2>2. StatesIn(Len(Current))' = {q \in NfaStates : \E m \in 1..Len(NextOne) : NextOne[m] = EntryOf(q)}
    BY <1>7, <1>8, <2>1
  <2> QED BY <1>1, <1>5, <2>2, ListedStates
<1>10. Lists(Current, EntriesOf(StatesIn(Len(Current))))'
  <2> DEFINE T == StatesIn(Len(Current))
  <2>1. \A S : {EntryOf(q)' : q \in S} = EntriesOf(S)
    BY <1>8 DEF EntriesOf
  <2>2. EntriesOf(T)' = {EntryOf(q)' : q \in T'}
    BY DEF EntriesOf
  <2>3. EntriesOf(T)' = EntriesOf(nfa_state)
    BY <1>9, <2>1, <2>2
  <2> HIDE DEF T
  <2>4. Lists(Current, EntriesOf(T))' <=> Lists(NextOne, EntriesOf(nfa_state))
    BY <1>7, <2>3 DEF Lists
  <2> QED BY <1>5, <2>4 DEF T
<1>11. matched' <=> Accepted(entered)'
  BY <1>1, <1>5, <1>8 DEF Accepted
<1>12. entry' \in 1..Len(Current') + 1
  BY <1>1, <1>3, <1>7
<1> QED BY <1>1, <1>6, <1>7, <1>9, <1>10, <1>11, <1>12 DEF NfaWalkInv

LEMMA NfaNextCharKeeps ==
  ASSUME NfaLayoutInv, NfaWalkInv, NEW c \in Symbol, NfaNextChar(c), UNCHANGED <<nfa, state_address, stable>>
  PROVE  NfaWalkInv'
<1>1. /\ stage = "nfa_traverse" /\ char = NO_CHAR /\ char' = c /\ matched' = FALSE
      /\ nfa_state' = UNION {Led(q, c) : q \in nfa_state}
      /\ entered' = UNION {LedAnew(q, c) : q \in nfa_state}
      /\ UNCHANGED <<stage, active_set, active, entry, packet>>
  BY DEF NfaNextChar
<1>2. c # NO_CHAR
  BY NfaFacts DEF NO_CHAR, NfaLayoutInv
<1>3. /\ active \in 0..1 /\ active_set = [b \in 0..1 |-> active_set[b]]
      /\ Lists(Current, EntriesOf(StatesIn(Len(Current))))
      /\ entry = 1 /\ entry \in 1..Len(Current) + 1 /\ NextOne = <<>>
      /\ nfa_state = StatesIn(Len(Current))
  BY <1>1 DEF NfaWalkInv
<1>4. Current' = Current /\ NextOne' = NextOne
  BY <1>1 DEF Current, NextOne
<1>5. /\ NfaStates' = NfaStates
      /\ \A q : EntryOf(q)' = EntryOf(q)
      /\ \A q, d : Led(q, d)' = Led(q, d) /\ LedAnew(q, d)' = LedAnew(q, d)
  BY EntriesUnchanged
<1>6. StatesIn(Len(Current))' = StatesIn(Len(Current)) /\ StatesIn(entry - 1)' = {}
  <2>1. StatesIn(Len(Current))' = {q \in NfaStates' : \E m \in 1..Len(Current') : Current'[m] = EntryOf(q)'}
    BY DEF StatesIn
  <2>2. StatesIn(entry - 1)' = {q \in NfaStates' : \E m \in 1..entry' - 1 : Current'[m] = EntryOf(q)'}
    BY DEF StatesIn
  <2>3. 1..entry' - 1 = {}
    BY <1>1, <1>3
  <2>4. StatesIn(Len(Current))' = StatesIn(Len(Current))
    BY <1>4, <1>5, <2>1 DEF StatesIn
  <2> QED BY <2>2, <2>3, <2>4
<1>7. Lists(Current, EntriesOf(StatesIn(Len(Current))))'
  <2> DEFINE T == StatesIn(Len(Current))
  <2>1. \A S : {EntryOf(q)' : q \in S} = EntriesOf(S)
    BY <1>5 DEF EntriesOf
  <2>2. EntriesOf(T)' = {EntryOf(q)' : q \in T'}
    BY DEF EntriesOf
  <2>3. EntriesOf(T)' = EntriesOf(T)
    BY <1>6, <2>1, <2>2
  <2> HIDE DEF T
  <2>4. Lists(Current, EntriesOf(T))' <=> Lists(Current, EntriesOf(T))
    BY <1>4, <2>3 DEF Lists
  <2> QED BY <1>3, <2>4 DEF T
<1> DEFINE U == UNION {Led(q, char) : q \in StatesIn(entry - 1)}
           V == UNION {LedAnew(q, char) : q \in StatesIn(entry - 1)}
<1>8. U' = {} /\ V' = {}
  BY <1>6
<1>9. Lists(NextOne, EntriesOf(U))'
  <2>1. EntriesOf(U)' = {}
    <3>1. EntriesOf(U)' = {EntryOf(q)' : q \in U'}
      BY DEF EntriesOf
    <3> HIDE DEF U
    <3> QED BY <1>8, <3>1
  <2>2. \A o : o = <<>> => Lists(o, {})
    BY DEF Lists
  <2>3. Lists(NextOne', {})
    BY <1>3, <1>4, <2>2
  <2> HIDE DEF U
  <2> QED BY <2>1, <2>3 DEF Lists
<1>10. (matched <=> Accepted(V))'
  <2>1. Accepted(V)' <=> V' \cap (nfa.accepting)' # {}
    BY DEF Accepted
  <2> HIDE DEF V
  <2> QED BY <1>1, <1>8, <2>1
<1>11. nfa_state' = UNION {Led(q, char)' : q \in StatesIn(Len(Current))'}
  BY <1>1, <1>3, <1>5, <1>6
<1>12. entered' = UNION {LedAnew(q, char)' : q \in StatesIn(Len(Current))'}
  BY <1>1, <1>3, <1>5, <1>6
<1> HIDE DEF U, V
<1>13. entry' \in 1..Len(Current') + 1
  BY <1>1, <1>3, <1>4
<1> QED BY <1>1, <1>2, <1>3, <1>4, <1>7, <1>9, <1>10, <1>11, <1>12, <1>13 DEF NfaWalkInv, NO_CHAR, U, V

(* A traversal begins with the entry of state 0. *)
LEMMA NfaMappedKeeps ==
  ASSUME NfaLayoutInv, NfaMapInv, NfaSound, stage = "nfa_map", row = nfa.size, NotWalking
  PROVE  NfaWalkInv
<1>1. /\ active = 0 /\ active_set = [b \in 0..1 |-> IF b = 0 THEN <<Start>> ELSE <<>>]
      /\ entry = 1 /\ char = NO_CHAR /\ matched = FALSE /\ nfa_state = {0} /\ entered = {}
  BY DEF NotWalking
<1>2. 0 \in NfaStates
  BY NfaFacts DEF NfaLayoutInv
<1>3. EntryOf(0) = Start
  <2>1. state_address[0] = 0
    BY DEF NfaLayoutInv
  <2>2. 0 \in stable
    BY <1>2, NfaRegion DEF NfaSound
  <2> QED BY <2>1, <2>2 DEF EntryOf, Start
<1>4. Current = <<Start>> /\ NextOne = <<>>
  <2>1. 1 - 0 = 1
    OBVIOUS
  <2> QED BY <1>1, <2>1 DEF Current, NextOne
<1>5. \A o : o = <<Start>> => o \in Seq({Start}) /\ Len(o) = 1 /\ o[1] = Start
  OBVIOUS
<1>6. Lists(Current, EntriesOf({0})) /\ Len(Current) = 1
  <2>1. EntriesOf({0}) = {Start}
    BY <1>3 DEF EntriesOf
  <2>2. \A o : o = <<Start>> => Lists(o, {Start}) /\ Len(o) = 1
    BY <1>5 DEF Lists
  <2> QED BY <1>4, <2>1, <2>2
<1>7. StatesIn(Len(Current)) = {0}
  BY <1>2, <1>6, ListedStates DEF StatesIn
<1>8. ~Accepted(entered)
  BY <1>1 DEF Accepted
<1>9. active \in 0..1 /\ active_set = [b \in 0..1 |-> active_set[b]] /\ entry \in 1..Len(Current) + 1
  <2>1. \A b \in 0..1 : active_set[b] = IF b = 0 THEN <<Start>> ELSE <<>>
    BY <1>1
  <2> QED BY <1>1, <1>6, <2>1
<1> QED BY <1>1, <1>4, <1>6, <1>7, <1>8, <1>9 DEF NfaWalkInv

LEMMA NfaWalkUnchanged ==
  ASSUME NfaWalkInv, UNCHANGED <<nfa, state_address, stable>>, UNCHANGED nfaWalkVars
  PROVE  NfaWalkInv'
<1>1. UNCHANGED <<active_set, active, entry, char, matched, packet, nfa_state, entered>>
  BY DEF nfaWalkVars
<1>2. Current' = Current /\ NextOne' = NextOne
  BY <1>1 DEF Current, NextOne
<1>3. /\ NfaStates' = NfaStates
      /\ \A q : EntryOf(q)' = EntryOf(q)
      /\ \A q, c : Led(q, c)' = Led(q, c) /\ LedAnew(q, c)' = LedAnew(q, c)
  BY EntriesUnchanged
<1> DEFINE T == StatesIn(Len(Current))
           D == StatesIn(entry - 1)
           U == UNION {Led(q, char) : q \in StatesIn(entry - 1)}
           V == UNION {LedAnew(q, char) : q \in StatesIn(entry - 1)}
           nfa_states == UNION {Led(q, char) : q \in StatesIn(Len(Current))}
           anew == UNION {LedAnew(q, char) : q \in StatesIn(Len(Current))}
<1>4. T' = T /\ D' = D
  <2>1. T' = {q \in NfaStates' : \E m \in 1..Len(Current') : Current'[m] = EntryOf(q)'}
    BY DEF StatesIn
  <2>2. D' = {q \in NfaStates' : \E m \in 1..entry' - 1 : Current'[m] = EntryOf(q)'}
    BY DEF StatesIn
  <2> QED BY <1>1, <1>2, <1>3, <2>1, <2>2 DEF StatesIn
<1>5. U' = U /\ V' = V /\ nfa_states' = nfa_states /\ anew' = anew
  <2>1. U' = UNION {Led(q, char)' : q \in D'} /\ V' = UNION {LedAnew(q, char)' : q \in D'}
    OBVIOUS
  <2>2. nfa_states' = UNION {Led(q, char)' : q \in T'} /\ anew' = UNION {LedAnew(q, char)' : q \in T'}
    OBVIOUS
  <2> QED BY <1>1, <1>3, <1>4, <2>1, <2>2
<1>6. EntriesOf(T)' = EntriesOf(T) /\ EntriesOf(U)' = EntriesOf(U)
  <2>1. EntriesOf(T)' = {EntryOf(q)' : q \in T'} /\ EntriesOf(U)' = {EntryOf(q)' : q \in U'}
    BY DEF EntriesOf
  <2> HIDE DEF T, U
  <2> QED BY <1>3, <1>4, <1>5, <2>1 DEF EntriesOf
<1>7. /\ Accepted(V)' <=> Accepted(V)
      /\ Accepted(entered)' <=> Accepted(entered)
  <2>1. Accepted(V)' <=> V' \cap (nfa.accepting)' # {}
    BY DEF Accepted
  <2> HIDE DEF V
  <2> QED BY <1>1, <1>5, <2>1 DEF Accepted
<1>8. /\ Lists(Current, EntriesOf(T))' <=> Lists(Current, EntriesOf(T))
      /\ Lists(NextOne, EntriesOf(U))' <=> Lists(NextOne, EntriesOf(U))
  <2> HIDE DEF T, U
  <2> QED BY <1>2, <1>6 DEF Lists
<1>9. Symbol' = Symbol
  BY DEF Symbol
<1> QED BY <1>1, <1>2, <1>4, <1>5, <1>7, <1>8, <1>9 DEF NfaWalkInv, NO_CHAR

LEMMA NfaInvInit == NfaImageInit => NfaInv
<1> SUFFICES ASSUME NfaImageInit PROVE NfaInv
  OBVIOUS
<1>1. /\ nfa \in Nfas /\ stage = "nfa_layout" /\ row = 0 /\ packet = 1 /\ NotWalking
  BY DEF NfaImageInit, NotWalking
<1>2. NfaLayoutInv
  BY NfaLayoutInit
<1>3. NfaMapInv
  <2>1. nfa.size \in Nat
    BY <1>1, NfaFacts
  <2>2. \A q \in 0..row-1 : NfaWritten(q)
    BY <1>1
  <2> QED BY <1>1, <2>1, <2>2 DEF NfaMapInv
<1> QED BY <1>1, <1>2, <1>3 DEF NfaInv

LEMMA NotWalkingStays ==
  ASSUME NotWalking, UNCHANGED nfaWalkVars
  PROVE  NotWalking'
BY DEF NotWalking, nfaWalkVars, Start, NO_CHAR

LEMMA BuildNfaKeeps ==
  ASSUME NfaInv, BuildNfa
  PROVE  NfaInv'
<1>1. UNCHANGED nfa /\ UNCHANGED nfaWalkVars /\ packet' = packet /\ NfaLayoutInv /\ NfaMapInv /\ packet \in Nat \ {0}
  BY DEF BuildNfa, NfaInv, nfaWalkVars
<1>2. nfa \in Nfas
  BY <1>1 DEF NfaLayoutInv
<1>3. CASE NfaLayout
  <2>1. stage = "nfa_layout" /\ stage' = "nfa_layout" /\ UNCHANGED row
    BY <1>3 DEF NfaLayout
  <2>2. NotWalking /\ packet = 1 /\ row = 0
    BY <1>1, <2>1 DEF NfaInv, NfaMapInv
  <2>3. NfaLayoutInv'
    BY <1>1, <1>3, NfaLayoutKeeps
  <2>4. NfaMapInv'
    BY <1>1, <1>2, <2>1, <2>2, NfaMapBefore
  <2>5. NotWalking'
    BY <1>1, <2>2, NotWalkingStays
  <2> QED BY <1>1, <2>1, <2>2, <2>3, <2>4, <2>5 DEF NfaInv
<1>4. CASE NfaLaidOut
  <2>1. stage = "nfa_layout" /\ stage' = "nfa_map" /\ UNCHANGED row
    BY <1>4 DEF NfaLaidOut
  <2>2. NotWalking /\ packet = 1 /\ row = 0
    BY <1>1, <2>1 DEF NfaInv, NfaMapInv
  <2>3. NfaLayoutInv'
    BY <1>1, <1>4, NfaLaidOutKeeps
  <2>4. NfaMapInv'
    BY <1>1, <1>2, <2>1, <2>2, NfaMapBefore
  <2>5. NotWalking'
    BY <1>1, <2>2, NotWalkingStays
  <2> QED BY <1>1, <2>1, <2>2, <2>3, <2>4, <2>5 DEF NfaInv
<1>5. CASE NfaMap
  <2>1. /\ stage = "nfa_map" /\ stage' = "nfa_map"
        /\ UNCHANGED <<queue, marking, state_address, base_index, stable>>
    BY <1>5 DEF NfaMap, nfaLayoutVars, layoutVars
  <2>2. NotWalking /\ packet = 1
    BY <2>1 DEF NfaInv
  <2>3. NfaLayoutInv'
    BY <1>1, <2>1, NfaLayoutLater
  <2>4. NfaMapInv'
    BY <1>1, <1>5, NfaMapKeeps
  <2>5. NotWalking'
    BY <1>1, <2>2, NotWalkingStays
  <2> QED BY <1>1, <2>1, <2>2, <2>3, <2>4, <2>5 DEF NfaInv
<1>6. CASE NfaMapped
  <2>1. /\ stage = "nfa_map" /\ stage' = "nfa_traverse" /\ row = nfa.size
        /\ UNCHANGED <<queue, marking, state_address, base_index, stable, fa, row>>
    BY <1>6 DEF NfaMapped, nfaLayoutVars, layoutVars
  <2>2. NotWalking
    BY <2>1 DEF NfaInv
  <2>3. NfaLayoutInv'
    BY <1>1, <2>1, NfaLayoutLater
  <2>4. NfaMapInv'
    BY <1>1, <2>1, NfaMapLater
  <2>5. NfaSound' => NfaWalkInv'
    <3> HAVE NfaSound'
    <3>1. NfaSound
      BY <1>1, <2>1 DEF NfaSound, IsStable
    <3>2. NfaWalkInv
      BY <1>1, <2>1, <2>2, <3>1, NfaMappedKeeps
    <3> QED BY <1>1, <2>1, <3>2, NfaWalkUnchanged
  <2> QED BY <1>1, <2>1, <2>3, <2>4, <2>5 DEF NfaInv
<1> QED BY <1>3, <1>4, <1>5, <1>6 DEF BuildNfa

(* While the image is run it stays as it is. *)
LEMMA NfaImageStays ==
  ASSUME NfaInv, UNCHANGED <<nfa, nfaLayoutVars, fa, row>>,
         stage' = stage \/ (stage = "nfa_traverse" /\ stage' = "fatal")
  PROVE  /\ NfaLayoutInv' /\ NfaMapInv' /\ UNCHANGED <<nfa, state_address, stable, base_index>>
         /\ NfaSound' = NfaSound
<1>1. /\ UNCHANGED <<queue, marking, state_address, base_index, stable, fa, row, nfa>>
      /\ NfaLayoutInv /\ NfaMapInv
  BY DEF nfaLayoutVars, layoutVars, NfaInv
<1>2. NfaLayoutInv'
  BY <1>1, NfaLayoutLater
<1>3. NfaMapInv'
  BY <1>1, NfaMapLater
<1>4. NfaSound' = NfaSound
  BY <1>1 DEF NfaSound, IsStable
<1> QED BY <1>1, <1>2, <1>3, <1>4

LEMMA ProcessKeeps ==
  ASSUME NfaInv, Process
  PROVE  NfaInv'
<1>1. UNCHANGED <<nfa, nfaLayoutVars, fa, row>> /\ NfaLayoutInv /\ NfaMapInv /\ packet \in Nat \ {0}
  BY DEF Process, NfaInv
<1>2. /\ stage = "nfa_traverse" /\ stage' \in {"nfa_traverse", "fatal"} /\ packet' = packet
  BY DEF Process, ProcessEntry, EndOfChar, nfaWalkVars
<1>3. /\ NfaLayoutInv' /\ NfaMapInv' /\ UNCHANGED <<nfa, state_address, stable, base_index>>
      /\ NfaSound' = NfaSound
  BY <1>1, <1>2, NfaImageStays
<1>4. ASSUME NfaSound, packet = 1
      PROVE  /\ stage' = "nfa_traverse" => NfaWalkInv'
             /\ stage' = "fatal" => ~(nfa.size < MAX_ACTIVE_SET)
  <2>1. NfaWalkInv
    BY <1>2, <1>4 DEF NfaInv
  <2>2. CASE ProcessEntry
    BY <1>1, <1>3, <1>4, <2>1, <2>2, ProcessEntryKeeps
  <2>3. CASE EndOfChar
    <3>1. stage' = "nfa_traverse"
      BY <1>2, <2>3 DEF EndOfChar
    <3> QED BY <1>1, <1>3, <1>4, <2>1, <2>3, <3>1, EndOfCharKeeps
  <2> QED BY <2>2, <2>3 DEF Process
<1> QED BY <1>1, <1>2, <1>3, <1>4 DEF NfaInv

LEMMA InputKeeps ==
  ASSUME NfaInv, Input
  PROVE  NfaInv'
<1>1. UNCHANGED <<nfa, nfaLayoutVars, fa, row>> /\ NfaLayoutInv /\ NfaMapInv /\ packet \in Nat \ {0}
  BY DEF Input, NfaInv
<1>2. stage = "nfa_traverse" /\ stage' = "nfa_traverse"
  BY DEF Input, NextPacket, NfaNextChar
<1>3. /\ NfaLayoutInv' /\ NfaMapInv' /\ UNCHANGED <<nfa, state_address, stable, base_index>>
      /\ NfaSound' = NfaSound
  BY <1>1, <1>2, NfaImageStays
<1>4. CASE NextPacket
  <2>1. packet' = packet + 1 /\ packet' # 1 /\ packet' \in Nat \ {0}
    BY <1>1, <1>4 DEF NextPacket
  <2> QED BY <1>1, <1>2, <1>3, <2>1 DEF NfaInv
<1>5. ASSUME NEW c \in Symbol, NfaNextChar(c) PROVE NfaInv'
  <2>1. packet' = packet
    BY <1>5 DEF NfaNextChar
  <2>2. ASSUME NfaSound, packet = 1 PROVE NfaWalkInv'
    <3>1. NfaWalkInv
      BY <1>2, <2>2 DEF NfaInv
    <3> QED BY <1>1, <1>3, <1>5, <3>1, NfaNextCharKeeps
  <2> QED BY <1>1, <1>2, <1>3, <2>1, <2>2 DEF NfaInv
<1> QED BY <1>4, <1>5 DEF Input

LEMMA NfaInvStutters ==
  ASSUME NfaInv, UNCHANGED nfaImageVars
  PROVE  NfaInv'
<1>1. UNCHANGED <<nfa, nfaLayoutVars, fa, row>> /\ stage' = stage /\ UNCHANGED nfaWalkVars /\ packet' = packet
  BY DEF nfaImageVars, nfaWalkVars
<1>2. /\ NfaLayoutInv' /\ NfaMapInv' /\ UNCHANGED <<nfa, state_address, stable, base_index>>
      /\ NfaSound' = NfaSound
  BY <1>1, NfaImageStays
<1>3. NotWalking => NotWalking'
  BY <1>1, NotWalkingStays
<1>4. NfaWalkInv => NfaWalkInv'
  BY <1>1, <1>2, NfaWalkUnchanged
<1> QED BY <1>1, <1>2, <1>3, <1>4 DEF NfaInv

LEMMA NfaWalkIsNfa == NfaInv => RunsAsNfa
<1> SUFFICES ASSUME NfaInv, NfaSound, packet = 1
             PROVE  /\ nfa.size < MAX_ACTIVE_SET => stage # "fatal"
                    /\ stage = "nfa_traverse" /\ char = NO_CHAR =>
                         /\ Entries(active_set[active]) = {EntryOf(q) : q \in nfa_state}
                         /\ matched <=> entered \cap nfa.accepting # {}
  BY DEF RunsAsNfa
<1>1. nfa.size < MAX_ACTIVE_SET => stage # "fatal"
  BY DEF NfaInv
<1>2. ASSUME stage = "nfa_traverse", char = NO_CHAR
      PROVE  /\ Entries(Current) = EntriesOf(nfa_state)
             /\ matched <=> Accepted(entered)
  <2>1. NfaWalkInv
    BY <1>2 DEF NfaInv
  <2>2. Lists(Current, EntriesOf(nfa_state)) /\ (matched <=> Accepted(entered))
    BY <1>2, <2>1 DEF NfaWalkInv
  <2>3. Current \in Seq(EntriesOf(nfa_state))
    BY <2>2 DEF Lists
  <2>4. \A n \in 1..Len(Current) : Current[n] \in EntriesOf(nfa_state)
    BY <2>3
  <2> QED BY <2>2, <2>4 DEF Lists, Entries
<1> QED BY <1>1, <1>2 DEF Current, EntriesOf, Accepted

(* On an NFA whose image fits into the addresses and whose state 0 is        *)
(* stable, the lists of traverse_nfa hold exactly the active states, each    *)
(* once, so that they do not overflow, and a match is noticed exactly when   *)
(* an accepting state is entered: in the first packet, whatever the NFA.     *)
THEOREM ImageRunsAsNfa == NfaImageSpec => []RunsAsNfa
<1>1. NfaInv /\ [BuildNfa \/ Process \/ Input]_nfaImageVars => NfaInv'
  BY BuildNfaKeeps, ProcessKeeps, InputKeeps, NfaInvStutters
<1> QED BY <1>1, NfaInvInit, NfaWalkIsNfa, PTL DEF NfaImageSpec

-----------------------------------------------------------------------------
(* The image of a hybrid automaton in the runs of MCMemoryImage: HfaImage's  *)
(* invariant (HfaImage_proofs) holds in every behaviour, since those that   *)
(* build another image leave this one as it is.                             *)

LEMMA OtherImagesStutter ==
  ASSUME OfDfa \/ OfNfa \/ UNCHANGED hfaImage
  PROVE  UNCHANGED H!hfaVars
BY DEF OfDfa, OfNfa, hfaImage, H!hfaVars, H!imageVars, H!walkVars

LEMMA HybridRegion ==
  ASSUME H!HfaInv, [MCNext]_<<kind, imageVars, nfaOnly, hfaImage>>
  PROVE  H!HfaInv'
<1>1. H!HfaAssumption
  BY ImagesAssumption
<1>2. CASE H!HfaImageNext
  BY <1>1, <1>2, H!HfaInvKeeps
<1>3. CASE OfDfa \/ OfNfa \/ UNCHANGED hfaImage
  <2>1. UNCHANGED H!hfaVars
    BY <1>3, OtherImagesStutter
  <2> QED BY <1>1, <2>1, H!HfaInvKeeps
<1> QED BY <1>2, <1>3 DEF MCNext, OfHfa

(* memory::traverse_hfa runs the image of every sound hybrid automaton as    *)
(* its DFAs do: the same DFAs are active, at the words of the states they   *)
(* are in, the same ones count a match, and no word is read as what it is   *)
(* not; whatever the automaton, the width of an address and TX_THRESHOLD.   *)
THEOREM ImageRunsAsHybrid == MCSpec => []RunsAsHybrid
<1>1. MCInit => H!HfaInv
  BY ImagesAssumption, H!HfaInvInit DEF MCInit, NoHfa
<1>2. H!HfaInv /\ [MCNext]_<<kind, imageVars, nfaOnly, hfaImage>> => H!HfaInv'
  BY HybridRegion
<1>3. H!HfaInv => RunsAsHybrid
  BY ImagesAssumption, H!HfaInvRuns DEF RunsAsHybrid
<1> QED BY <1>1, <1>2, <1>3, PTL DEF MCSpec
================================================================================
