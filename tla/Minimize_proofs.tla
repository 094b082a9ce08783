---------------------------- MODULE Minimize_proofs ----------------------------
(***************************************************************************)
(* Proofs that minimize returns the smallest DFA that does what the DFA it *)
(* was called on did, for every DFA and every order of the worklist.       *)
(***************************************************************************)
EXTENDS MCMinimize, ArithmeticLemmas

Universe == States \cup {NO_STATE}

(* From the first blocks on, the blocks part the states and the error state, *)
(* which is alone.                                                         *)
PartitionInv ==
  /\ {NO_STATE} \in blocks
  /\ \A B \in blocks : B # {} /\ B \subseteq Universe
  /\ \A s \in Universe : \E B \in blocks : s \in B
  /\ \A B, C \in blocks : B \cap C # {} => B = C

(* The states of a block accept the same rules. *)
RulesInv ==
  \A B \in blocks : \A s, t \in B \cap States : SameAcceptance(s, t)

(* No block tells states apart that a congruence relates. *)
CoarseInv ==
  \A k \in [States -> States] :
    Congruence(k, dfa.size, dfa.state_table, dfa.accepted_rules) =>
      \A s, t \in States : k[s] = k[t] => \A B \in blocks : s \in B => t \in B

(* A symbol leads the states of a block into one block. *)
StableInv ==
  \A B, C \in blocks : \A s, t \in B : \A c \in Symbol : Target(s, c) \in C => Target(t, c) \in C

BlocksInv ==
  /\ pc # "blocks" => PartitionInv /\ RulesInv
  /\ SplittersPending
  /\ L \subseteq blocks \X Symbol
  /\ pc \in {"blocks", "worklist"} => L = {}
  /\ pc \in {"rewrite", "done"} => StableInv

(* The row a state that is kept is moved to. *)
Row(s) == s - move(s)

(* Rows below n have been moved up: every row written is that of one state *)
(* that is kept.                                                           *)
Copied(n) ==
  /\ \A s \in 0..n-1 : ~kill(s) =>
       /\ state_table[Row(s)] = [c \in Symbol |-> NewNumber(dfa.state_table[s][c])]
       /\ accepted_rules[Row(s)] = dfa.accepted_rules[s]
  /\ \A r \in 0..Row(n)-1 : \E s \in 0..n-1 : ~kill(s) /\ Row(s) = r

RewriteInv ==
  /\ pc \in {"blocks", "worklist", "refine"} =>
       /\ i = 0 /\ j = 0 /\ size = dfa.size
       /\ state_table = dfa.state_table /\ accepted_rules = dfa.accepted_rules
  /\ pc = "rewrite" =>
       /\ size = dfa.size /\ i \in 0..size /\ j = Row(i)
       /\ \A s \in i..size-1 : state_table[s] = dfa.state_table[s]
                               /\ accepted_rules[s] = dfa.accepted_rules[s]
       /\ Copied(i)
  /\ pc = "done" => size = Row(dfa.size) /\ Copied(dfa.size)

RowsTypeOK ==
  /\ Complete(dfa)
  /\ pc \in {"blocks", "worklist", "refine", "rewrite", "done"}
  /\ size \in 1..dfa.size
  /\ state_table \in [0..size-1 -> [Symbol -> States]]
  /\ pc = "done" => state_table \in [0..size-1 -> [Symbol -> 0..size-1]]
  /\ accepted_rules \in [0..size-1 -> SUBSET Rule]
  /\ dead_state = dfa.dead_state

MInv == RowsTypeOK /\ BlocksInv /\ RewriteInv

MinimizeTypeOK == dfa \in Dfas /\ RowsTypeOK

(* The invariant of minimize. *)
MinimizeInv == MInv /\ dfa \in Dfas /\ (pc # "blocks" => CoarseInv)

-----------------------------------------------------------------------------
(* What the assumption says of the DFA. *)
LEMMA DfaFacts ==
  ASSUME Complete(dfa)
  PROVE  /\ dfa.size \in Nat \ {0} /\ 0 \in States /\ States \in SUBSET Nat
         /\ States = 0..dfa.size-1 /\ NO_STATE \notin States
         /\ dfa.state_table \in [States -> [Symbol -> States]]
         /\ dfa.accepted_rules \in [States -> SUBSET Rule]
         /\ \A s \in Universe, c \in Symbol : Target(s, c) \in Universe
         /\ \A s \in States, c \in Symbol : Target(s, c) = dfa.state_table[s][c]
<1>1. /\ dfa.size \in Nat \ {0}
      /\ dfa.state_table \in [StatesOf(dfa) -> [Symbol -> StatesOf(dfa)]]
      /\ dfa.accepted_rules \in [StatesOf(dfa) -> SUBSET Rule]
  BY DEF Complete
<1>2. States = StatesOf(dfa) /\ States = 0..dfa.size-1
  BY DEF States, StatesOf
<1>3. 0 \in States /\ States \in SUBSET Nat /\ NO_STATE \notin States
  BY <1>1, <1>2 DEF NO_STATE
<1>4. \A s \in States, c \in Symbol : Target(s, c) = dfa.state_table[s][c] /\ Target(s, c) \in States
  BY <1>1, <1>2, <1>3 DEF Target
<1>5. \A c : Target(NO_STATE, c) = NO_STATE
  BY DEF Target
<1> QED BY <1>1, <1>2, <1>3, <1>4, <1>5 DEF Universe

(* What is computed from the DFA never changes. *)
LEMMA DfaUnchanged ==
  ASSUME dfa' = dfa
  PROVE  /\ States' = States /\ Universe' = Universe
         /\ \A s, c : Target(s, c)' = Target(s, c)
         /\ \A s, t : SameAcceptance(s, t)' = SameAcceptance(s, t)
BY DEF States, StatesOf, Universe, Target, SameAcceptance

(* Of the pieces of a block, each is part of it and not empty, two with a  *)
(* common state are the same, and together they are the block; a block     *)
(* that is not split is its only piece.                                    *)
LEMMA PiecesFacts ==
  ASSUME NEW B, NEW D, B # {}
  PROVE  /\ \A P \in Pieces(B, D) : P # {} /\ P \subseteq B
         /\ \A P, Q \in Pieces(B, D) : P \cap Q # {} => P = Q
         /\ \A s \in B : \E P \in Pieces(B, D) : s \in P
         /\ \A P \in Pieces(B, D) : P \subseteq D \/ P \cap D = {}
         /\ \A P \in Pieces(B, D), t \in B :
              \A s \in P : (s \in D <=> t \in D) => t \in P
BY DEF Pieces, IsSplit

(* At first there are no blocks and no row has been moved. *)
LEMMA MInvInit == MinimizeInit => MinimizeInv
<1> SUFFICES ASSUME MinimizeInit PROVE MinimizeInv
  OBVIOUS
<1>1. /\ dfa \in Dfas /\ Complete(dfa) /\ pc = "blocks" /\ blocks = {} /\ L = {}
      /\ state_table = dfa.state_table /\ accepted_rules = dfa.accepted_rules
      /\ size = dfa.size /\ dead_state = dfa.dead_state /\ i = 0 /\ j = 0
  BY DfaAssumption DEF MinimizeInit
<1>2. RowsTypeOK
  BY <1>1, DfaFacts DEF RowsTypeOK
<1>3. BlocksInv
  BY <1>1 DEF BlocksInv, SplittersPending
<1>4. RewriteInv
  BY <1>1 DEF RewriteInv
<1> QED BY <1>1, <1>2, <1>3, <1>4 DEF MInv, MinimizeInv

(* States with the same key are a block, the error state is one of its own. *)
LEMMA FirstBlocks ==
  ASSUME Complete(dfa), dfa' = dfa, NEW key,
         \A s, t \in States : key[s] = key[t] => SameAcceptance(s, t),
         blocks' = {{NO_STATE}} \cup {{t \in States : key[s] = key[t]} : s \in States}
  PROVE  PartitionInv' /\ RulesInv'
<1> DEFINE Same(s) == {t \in States : key[s] = key[t]}
<1>1. blocks' = {{NO_STATE}} \cup {Same(s) : s \in States}
  OBVIOUS
<1>2. NO_STATE \notin States
  BY DfaFacts
<1>3. \A s \in States : s \in Same(s) /\ Same(s) \subseteq States
  OBVIOUS
<1>4. \A s, t \in States : Same(s) \cap Same(t) # {} => Same(s) = Same(t)
  OBVIOUS
<1>5. \A s \in States : \A t, u \in Same(s) : SameAcceptance(t, u)
  OBVIOUS
<1> HIDE DEF Same
<1>6. PartitionInv'
  <2>1. \A B \in blocks' : B # {} /\ B \subseteq Universe
    BY <1>1, <1>3 DEF Universe
  <2>2. \A s \in Universe : \E B \in blocks' : s \in B
    BY <1>1, <1>3 DEF Universe
  <2>3. ASSUME NEW B \in blocks', NEW C \in blocks', B \cap C # {} PROVE B = C
    <3>1. CASE B = {NO_STATE} \/ C = {NO_STATE}
      BY <1>1, <1>2, <1>3, <2>3, <3>1
    <3>2. CASE B # {NO_STATE} /\ C # {NO_STATE}
      BY <1>1, <1>4, <2>3, <3>2
    <3> QED BY <3>1, <3>2
  <2> QED BY <1>1, <2>1, <2>2, <2>3, DfaUnchanged DEF PartitionInv
<1>7. RulesInv'
  <2> SUFFICES ASSUME NEW B \in blocks', NEW s \in B \cap States, NEW t \in B \cap States
               PROVE  SameAcceptance(s, t)
    BY DfaUnchanged DEF RulesInv
  <2> QED BY <1>1, <1>2, <1>5
<1> QED BY <1>6, <1>7

(* Before the first pair is used nothing but the blocks has changed. *)
LEMMA BlocksFound ==
  ASSUME MInv, pc = "blocks", pc' = "worklist", PartitionInv', RulesInv',
         UNCHANGED <<dfa, dead_state, L, i, j, state_table, accepted_rules, size>>
  PROVE  MInv'
<1>1. RowsTypeOK'
  BY DfaUnchanged DEF MInv, RowsTypeOK
<1>2. BlocksInv'
  BY DEF MInv, BlocksInv, SplittersPending
<1>3. RewriteInv'
  BY DEF MInv, RewriteInv
<1> QED BY <1>1, <1>2, <1>3 DEF MInv

(* The first blocks: the states that accept the same rules. *)
LEMMA InitializeBlocksKeeps ==
  ASSUME MInv, InitializeBlocks, UNCHANGED <<dfa, dead_state>>
  PROVE  MInv' /\ CoarseInv'
<1> DEFINE key == [s \in States |-> dfa.accepted_rules[s]]
<1>1. /\ pc = "blocks" /\ pc' = "worklist"
      /\ blocks' = {{NO_STATE}} \cup {{t \in States : SameAcceptance(s, t)} : s \in States}
      /\ UNCHANGED <<dfa, dead_state, L, i, j, state_table, accepted_rules, size>>
  BY DEF InitializeBlocks
<1>2. Complete(dfa)
  BY DEF MInv, RowsTypeOK
<1>3. \A s, t \in States : key[s] = key[t] <=> SameAcceptance(s, t)
  BY DEF SameAcceptance
<1> HIDE DEF key
<1>4. blocks' = {{NO_STATE}} \cup {{t \in States : key[s] = key[t]} : s \in States}
  BY <1>1, <1>3
<1>5. PartitionInv' /\ RulesInv'
  BY <1>1, <1>2, <1>3, <1>4, FirstBlocks
<1>6. CoarseInv'
  <2> SUFFICES ASSUME NEW k \in [States -> States],
                      Congruence(k, dfa.size, dfa.state_table, dfa.accepted_rules),
                      NEW s \in States, NEW t \in States, k[s] = k[t],
                      NEW B \in blocks', s \in B
               PROVE  t \in B
    BY <1>1, DfaUnchanged DEF CoarseInv, Congruence
  <2>1. States = 0..dfa.size-1 /\ NO_STATE \notin States
    BY <1>2, DfaFacts
  <2>2. key[s] = key[t]
    BY <1>3, <2>1 DEF Congruence, SameAcceptance
  <2> QED BY <1>4, <2>1, <2>2
<1> QED BY <1>1, <1>5, <1>6, BlocksFound

(* Of two blocks one at most is left out of the worklist. *)
LEMMA InitializeWorklistKeeps ==
  ASSUME MInv, InitializeWorklist, UNCHANGED <<dfa, dead_state>>
  PROVE  MInv'
<1>1. PICK B_max \in blocks :
        /\ pc = "worklist" /\ pc' = "refine" /\ L' = (blocks \ {B_max}) \X Symbol
        /\ UNCHANGED <<dfa, dead_state, blocks, i, j, state_table, accepted_rules, size>>
  BY DEF InitializeWorklist
<1>2. RowsTypeOK'
  BY <1>1, DfaUnchanged DEF MInv, RowsTypeOK
<1>3. (PartitionInv /\ RulesInv)'
  BY <1>1, DfaUnchanged DEF MInv, BlocksInv, PartitionInv, RulesInv
<1>4. SplittersPending' /\ L' \subseteq blocks' \X Symbol
  BY <1>1 DEF SplittersPending
<1>5. RewriteInv'
  BY <1>1 DEF MInv, RewriteInv
<1> QED BY <1>1, <1>2, <1>3, <1>4, <1>5 DEF MInv, BlocksInv

(* The new worklist: all pieces of a block that is still to be split by,   *)
(* and one of any two pieces of a block.                                   *)
NewWorklist(D, rest) ==
  {y \in rest : ~IsSplit(y[1], D)}
  \cup UNION {NewPairs(B, D, rest) : B \in {B \in blocks : IsSplit(B, D)}}

LEMMA WorklistFacts ==
  ASSUME NEW D, NEW rest, rest \subseteq blocks \X Symbol
  PROVE  /\ \A C \in blocks, c \in Symbol : <<C, c>> \in rest =>
              \A P \in Pieces(C, D) : <<P, c>> \in NewWorklist(D, rest)
         /\ \A C \in blocks, c \in Symbol : \A P, Q \in Pieces(C, D) : P # Q =>
              <<P, c>> \in NewWorklist(D, rest) \/ <<Q, c>> \in NewWorklist(D, rest)
         /\ NewWorklist(D, rest) \subseteq (UNION {Pieces(B, D) : B \in blocks}) \X Symbol
<1> DEFINE W == NewWorklist(D, rest)
<1>1. ASSUME NEW C \in blocks, NEW c \in Symbol, IsSplit(C, D)
      PROVE  NewPairs(C, D, rest) \subseteq W
  BY <1>1 DEF NewWorklist
<1>2. ASSUME NEW C \in blocks, NEW c \in Symbol, <<C, c>> \in rest, NEW P \in Pieces(C, D)
      PROVE  <<P, c>> \in W
  <2>1. CASE IsSplit(C, D)
    <3>1. P = C \ D \/ P = C \cap D
      BY <2>1 DEF Pieces
    <3>2. <<P, c>> \in NewPairs(C, D, rest)
      BY <1>2, <3>1 DEF NewPairs
    <3> QED BY <1>1, <2>1, <3>2
  <2>2. CASE ~IsSplit(C, D)
    <3>1. P = C /\ <<C, c>>[1] = C
      BY <2>2 DEF Pieces
    <3> QED BY <1>2, <2>2, <3>1 DEF NewWorklist
  <2> QED BY <2>1, <2>2
<1>3. ASSUME NEW C \in blocks, NEW c \in Symbol, <<C, c>> \notin rest,
             NEW P \in Pieces(C, D), NEW Q \in Pieces(C, D), P # Q
      PROVE  <<P, c>> \in W \/ <<Q, c>> \in W
  <2>1. IsSplit(C, D)
    BY <1>3 DEF Pieces
  <2>2. {P, Q} = {C \ D, C \cap D}
    BY <1>3, <2>1 DEF Pieces
  <2>3. <<C \ D, c>> \in NewPairs(C, D, rest) \/ <<C \cap D, c>> \in NewPairs(C, D, rest)
    BY <1>3 DEF NewPairs
  <2> QED BY <1>1, <2>1, <2>2, <2>3
<1>4. ASSUME NEW y \in W PROVE y \in (UNION {Pieces(B, D) : B \in blocks}) \X Symbol
  <2>1. CASE y \in rest /\ ~IsSplit(y[1], D)
    <3>1. y[1] \in blocks /\ y[2] \in Symbol /\ y = <<y[1], y[2]>>
      BY <2>1
    <3>2. y[1] \in Pieces(y[1], D)
      BY <2>1 DEF Pieces
    <3> QED BY <3>1, <3>2
  <2>2. ASSUME NEW B \in blocks, IsSplit(B, D), y \in NewPairs(B, D, rest)
        PROVE  y \in (UNION {Pieces(C, D) : C \in blocks}) \X Symbol
    <3>1. Pieces(B, D) = {B \ D, B \cap D}
      BY <2>2 DEF Pieces
    <3>2. \E P \in {B \ D, B \cap D}, c \in Symbol : y = <<P, c>>
      BY <2>2 DEF NewPairs
    <3> QED BY <3>1, <3>2
  <2> QED BY <1>4, <2>1, <2>2 DEF NewWorklist
<1> HIDE DEF W
<1>5. \A C \in blocks, c \in Symbol : <<C, c>> \in rest => \A P \in Pieces(C, D) : <<P, c>> \in W
  BY <1>2
<1>6. \A C \in blocks, c \in Symbol : \A P, Q \in Pieces(C, D) : P # Q => <<P, c>> \in W \/ <<Q, c>> \in W
  BY <1>3, <1>5
<1>7. W \subseteq (UNION {Pieces(B, D) : B \in blocks}) \X Symbol
  BY <1>4
<1> QED BY <1>5, <1>6, <1>7 DEF W

(* A pair of the worklist is used: Hopcroft's invariant goes over to the   *)
(* pieces, because the states of a piece are led into the block that is    *)
(* split by together or not at all.                                        *)
LEMMA RefineKeeps ==
  ASSUME MInv, Refine, UNCHANGED <<dfa, dead_state>>
  PROVE  MInv' /\ (CoarseInv => CoarseInv')
<1>1. PICK x \in L :
        /\ pc = "refine" /\ pc' = "refine"
        /\ blocks' = UNION {Pieces(B, Predecessors(x[1], x[2])) : B \in blocks}
        /\ L' = NewWorklist(Predecessors(x[1], x[2]), L \ {x})
        /\ UNCHANGED <<dfa, dead_state, i, j, state_table, accepted_rules, size>>
  BY DEF Refine, NewWorklist
<1> DEFINE X == x[1]
           a == x[2]
           D == Predecessors(X, a)
           rest == L \ {x}
<1>2. /\ X \in blocks /\ a \in Symbol /\ x = <<X, a>> /\ rest \subseteq blocks \X Symbol
      /\ Complete(dfa) /\ PartitionInv /\ RulesInv /\ SplittersPending
  BY <1>1 DEF MInv, BlocksInv, RowsTypeOK
<1>3. \A s \in Universe : s \in D <=> Target(s, a) \in X
  BY <1>2 DEF PartitionInv, Predecessors
<1>4. /\ blocks' = UNION {Pieces(B, D) : B \in blocks}
      /\ L' = NewWorklist(D, rest)
  BY <1>1
<1> HIDE DEF X, a, D, rest
<1>5. \A B \in blocks :
        /\ \A P \in Pieces(B, D) : P # {} /\ P \subseteq B
        /\ \A P, Q \in Pieces(B, D) : P \cap Q # {} => P = Q
        /\ \A s \in B : \E P \in Pieces(B, D) : s \in P
        /\ \A P \in Pieces(B, D) : P \subseteq D \/ P \cap D = {}
        /\ \A P \in Pieces(B, D), t \in B : \A s \in P : (s \in D <=> t \in D) => t \in P
  BY <1>2, PiecesFacts DEF PartitionInv
<1>6. ASSUME NEW P \in blocks' PROVE \E B \in blocks : P \in Pieces(B, D) /\ P \subseteq B
  BY <1>4, <1>5
<1>7. PartitionInv'
  <2>1. {NO_STATE} \in blocks'
    <3>1. \E P \in Pieces({NO_STATE}, D) : P # {} /\ P \subseteq {NO_STATE}
      BY <1>2, <1>5 DEF PartitionInv
    <3>2. {NO_STATE} \in Pieces({NO_STATE}, D)
      BY <3>1
    <3> QED BY <1>2, <1>4, <3>2 DEF PartitionInv
  <2>2. ASSUME NEW P \in blocks' PROVE P # {} /\ P \subseteq Universe
    BY <1>2, <1>5, <1>6 DEF PartitionInv
  <2>3. ASSUME NEW s \in Universe PROVE \E P \in blocks' : s \in P
    BY <1>2, <1>4, <1>5 DEF PartitionInv
  <2>4. ASSUME NEW P \in blocks', NEW Q \in blocks', P \cap Q # {} PROVE P = Q
    <3>1. PICK B \in blocks : P \in Pieces(B, D) /\ P \subseteq B
      BY <1>6
    <3>2. PICK C \in blocks : Q \in Pieces(C, D) /\ Q \subseteq C
      BY <1>6
    <3>3. B = C
      BY <1>2, <2>4, <3>1, <3>2 DEF PartitionInv
    <3> QED BY <1>5, <2>4, <3>1, <3>2, <3>3
  <2> QED BY <1>1, <2>1, <2>2, <2>3, <2>4, DfaUnchanged DEF PartitionInv
<1>8. RulesInv'
  <2> SUFFICES ASSUME NEW P \in blocks', NEW s \in P \cap States, NEW t \in P \cap States
               PROVE  SameAcceptance(s, t)
    BY <1>1, DfaUnchanged DEF RulesInv
  <2> QED BY <1>2, <1>6 DEF RulesInv
<1>9. ASSUME CoarseInv PROVE CoarseInv'
  <2> SUFFICES ASSUME NEW k \in [States -> States],
                      Congruence(k, dfa.size, dfa.state_table, dfa.accepted_rules),
                      NEW s \in States, NEW t \in States, k[s] = k[t],
                      NEW P \in blocks', s \in P
               PROVE  t \in P
    BY <1>1, DfaUnchanged DEF CoarseInv, Congruence
  <2>1. PICK B \in blocks : P \in Pieces(B, D) /\ P \subseteq B
    BY <1>6
  <2>2. /\ Target(s, a) \in States /\ Target(t, a) \in States
        /\ Target(s, a) = dfa.state_table[s][a] /\ Target(t, a) = dfa.state_table[t][a]
    BY <1>2, DfaFacts
  <2>3. k[Target(s, a)] = k[Target(t, a)]
    <3>1. s \in 0..dfa.size-1 /\ t \in 0..dfa.size-1
      BY DEF States, StatesOf
    <3> QED BY <1>2, <2>2, <3>1 DEF Congruence
  <2>4. /\ \A u, v \in States : k[u] = k[v] => \A C \in blocks : u \in C => v \in C
    BY <1>9 DEF CoarseInv
  <2>5. Target(s, a) \in X <=> Target(t, a) \in X
    BY <1>2, <2>2, <2>3, <2>4
  <2>6. s \in D <=> t \in D
    BY <1>3, <2>5 DEF Universe
  <2>7. t \in B
    BY <2>1, <2>4
  <2> QED BY <1>5, <2>1, <2>6, <2>7
<1>10. SplittersPending'
  <2> SUFFICES ASSUME NEW P \in blocks', NEW Q \in blocks', NEW R \in blocks',
                      NEW s \in P, NEW t \in P, NEW c \in Symbol,
                      Target(s, c)' \in Q, Target(t, c)' \in R, Q # R
               PROVE  <<Q, c>> \in L' \/ <<R, c>> \in L'
    BY DEF SplittersPending
  <2>0. Target(s, c) \in Q /\ Target(t, c) \in R
    BY <1>1, DfaUnchanged
  <2>1. PICK B \in blocks : P \in Pieces(B, D) /\ P \subseteq B
    BY <1>6
  <2>2. PICK C \in blocks : Q \in Pieces(C, D) /\ Q \subseteq C
    BY <1>6
  <2>3. PICK E \in blocks : R \in Pieces(E, D) /\ R \subseteq E
    BY <1>6
  <2>4. /\ \A F \in blocks, d \in Symbol : <<F, d>> \in rest => \A S \in Pieces(F, D) : <<S, d>> \in L'
        /\ \A F \in blocks, d \in Symbol : \A S, T \in Pieces(F, D) : S # T =>
             <<S, d>> \in L' \/ <<T, d>> \in L'
    BY <1>2, <1>4, WorklistFacts
  <2>5. CASE C = E
    BY <2>2, <2>3, <2>4, <2>5
  <2>6. CASE C # E
    <3>1. <<C, c>> \in L \/ <<E, c>> \in L
      BY <1>1, <1>2, <2>1, <2>0, <2>2, <2>3, <2>6 DEF SplittersPending
    <3>2. ASSUME x = <<C, c>> \/ x = <<E, c>> PROVE FALSE
      <4>1. c = a /\ (X = C \/ X = E)
        BY <1>2, <3>2
      <4>2. s \in Universe /\ t \in Universe
        BY <1>2, <2>1 DEF PartitionInv
      <4>3. ~(Target(s, c) \in E) /\ ~(Target(t, c) \in C)
        BY <1>2, <2>0, <2>2, <2>3, <2>6 DEF PartitionInv
      <4>4. ~(s \in D <=> t \in D)
        BY <1>3, <2>0, <2>2, <2>3, <4>1, <4>2, <4>3
      <4> QED BY <1>5, <2>1, <4>4
    <3>3. <<C, c>> \in rest \/ <<E, c>> \in rest
      BY <3>1, <3>2 DEF rest
    <3> QED BY <2>2, <2>3, <2>4, <3>3
  <2> QED BY <2>5, <2>6
<1>11. L' \subseteq blocks' \X Symbol
  BY <1>2, <1>4, WorklistFacts
<1>12. RewriteInv'
  BY <1>1 DEF MInv, RewriteInv
<1>13. RowsTypeOK'
  BY <1>1, DfaUnchanged DEF MInv, RowsTypeOK
<1> QED BY <1>1, <1>7, <1>8, <1>9, <1>10, <1>11, <1>12, <1>13 DEF MInv, BlocksInv

(* The worklist is used up: no symbol tells the states of a block apart any *)
(* more.                                                                   *)
LEMMA RefinedStable ==
  ASSUME MInv, pc = "refine", L = {}
  PROVE  StableInv
<1> SUFFICES ASSUME NEW B \in blocks, NEW C \in blocks, NEW s \in B, NEW t \in B, NEW c \in Symbol,
                    Target(s, c) \in C
             PROVE  Target(t, c) \in C
  BY DEF StableInv
<1>1. Complete(dfa) /\ PartitionInv /\ SplittersPending
  BY DEF MInv, BlocksInv, RowsTypeOK
<1>2. Target(t, c) \in Universe
  BY <1>1, DfaFacts DEF PartitionInv
<1>3. PICK E \in blocks : Target(t, c) \in E
  BY <1>1, <1>2 DEF PartitionInv
<1>4. C = E
  BY <1>1, <1>3 DEF SplittersPending
<1> QED BY <1>3, <1>4

-----------------------------------------------------------------------------
(* Every state has a block and its smallest state, which replaces it. *)
LEMMA BlockFacts ==
  ASSUME Complete(dfa), PartitionInv
  PROVE  /\ \A s \in States : /\ BlockOf(s) \in blocks /\ s \in BlockOf(s) /\ BlockOf(s) \subseteq States
                              /\ trans(s) \in BlockOf(s) /\ trans(s) \in States /\ trans(s) <= s
                              /\ ~kill(trans(s))
         /\ \A s \in States, B \in blocks : s \in B => BlockOf(s) = B
         /\ \A s, t \in States : BlockOf(s) = BlockOf(t) => trans(s) = trans(t)
<1>1. States \in SUBSET Nat /\ NO_STATE \notin States
  BY DfaFacts
<1>2. ASSUME NEW s \in States
      PROVE  BlockOf(s) \in blocks /\ s \in BlockOf(s) /\ BlockOf(s) \subseteq States
  <2>1. \E B \in blocks : s \in B
    BY DEF PartitionInv, Universe
  <2>2. BlockOf(s) \in blocks /\ s \in BlockOf(s)
    BY <2>1 DEF BlockOf
  <2>3. NO_STATE \notin BlockOf(s)
    BY <1>1, <2>2 DEF PartitionInv
  <2> QED BY <2>2, <2>3 DEF PartitionInv, Universe
<1>3. ASSUME NEW s \in States, NEW B \in blocks, s \in B
      PROVE  BlockOf(s) = B
  BY <1>2, <1>3 DEF PartitionInv
<1>4. ASSUME NEW s \in States
      PROVE  trans(s) \in BlockOf(s) /\ \A u \in BlockOf(s) : trans(s) <= u
  <2>1. BlockOf(s) \in SUBSET Nat /\ BlockOf(s) # {}
    BY <1>1, <1>2
  <2> DEFINE B == BlockOf(s)
  <2> HIDE DEF B
  <2>2. \E t \in B : \A u \in B : t <= u
    BY <2>1, LeastElement DEF B
  <2> QED BY <2>2 DEF trans, B
<1>5. \A s, t \in States : BlockOf(s) = BlockOf(t) => trans(s) = trans(t)
  BY DEF trans
<1>6. ASSUME NEW s \in States PROVE trans(s) \in States /\ trans(s) <= s /\ ~kill(trans(s))
  <2>1. trans(s) \in States /\ trans(s) <= s
    BY <1>2, <1>4
  <2>2. BlockOf(trans(s)) = BlockOf(s)
    BY <1>2, <1>3, <1>4, <2>1
  <2>3. trans(trans(s)) = trans(s)
    BY <1>5, <2>1, <2>2
  <2> QED BY <2>1, <2>3 DEF kill
<1> QED BY <1>2, <1>3, <1>4, <1>5, <1>6

(* What is computed from the blocks changes with them only. *)
LEMMA BlocksUnchanged ==
  ASSUME blocks' = blocks
  PROVE  /\ \A s : BlockOf(s)' = BlockOf(s) /\ trans(s)' = trans(s) /\ kill(s)' = kill(s)
         /\ \A s : move(s)' = move(s) /\ Row(s)' = Row(s) /\ NewNumber(s)' = NewNumber(s)
<1>1. \A s : BlockOf(s)' = BlockOf(s)
  BY DEF BlockOf
<1>2. \A s : trans(s)' = trans(s)
  BY DEF trans, BlockOf
<1>3. \A s : kill(s)' = kill(s)
  BY <1>2 DEF kill
<1>4. \A s : move(s)' = move(s)
  BY DEF move, kill, trans, BlockOf
<1>5. \A s : Row(s)' = Row(s)
  BY <1>4 DEF Row
<1>6. \A s : NewNumber(s)' = NewNumber(s)
  BY DEF NewNumber, move, kill, trans, BlockOf
<1> QED BY <1>1, <1>2, <1>3, <1>4, <1>5, <1>6

(* Every state that is kept takes one more row, a killed one takes none. *)
LEMMA RowFacts ==
  /\ Row(0) = 0
  /\ \A n \in Nat : Row(n) \in 0..n /\ Row(n + 1) = IF kill(n) THEN Row(n) ELSE Row(n) + 1
<1> DEFINE K(n) == {k \in 0..n-1 : kill(k)}
<1>1. K(0) = {}
  OBVIOUS
<1>2. ASSUME NEW n \in Nat
      PROVE  /\ IsFiniteSet(K(n)) /\ Cardinality(K(n)) \in 0..n
             /\ K(n + 1) = (IF kill(n) THEN K(n) \cup {n} ELSE K(n)) /\ n \notin K(n)
  <2>1. IsFiniteSet(0..n-1) /\ Cardinality(0..n-1) = n
    BY FS_Interval
  <2>2. K(n) \in SUBSET (0..n-1)
    OBVIOUS
  <2>3. 0..(n+1)-1 = 0..n-1 \cup {n} /\ n \notin 0..n-1
    OBVIOUS
  <2> DEFINE A == 0..n-1
  <2> HIDE DEF A
  <2>4. IsFiniteSet(K(n)) /\ Cardinality(K(n)) \in Nat /\ Cardinality(K(n)) <= n
    BY <2>1, <2>2, MoreElements DEF A
  <2> QED BY <2>3, <2>4
<1>3. \A n : move(n) = Cardinality(K(n))
  BY DEF move
<1> HIDE DEF K
<1>4. move(0) = 0
  BY <1>1, <1>3, FS_EmptySet
<1>5. ASSUME NEW n \in Nat
      PROVE  move(n) \in 0..n /\ move(n + 1) = IF kill(n) THEN move(n) + 1 ELSE move(n)
  <2>1. Cardinality(K(n) \cup {n}) = Cardinality(K(n)) + 1
    BY <1>2, FS_AddElement
  <2> QED BY <1>2, <1>3, <2>1
<1>6. ASSUME NEW n \in Nat
      PROVE  Row(n) \in 0..n /\ Row(n + 1) = IF kill(n) THEN Row(n) ELSE Row(n) + 1
  BY <1>5 DEF Row
<1> QED BY <1>4, <1>6 DEF Row

(* States that are kept stay in order. *)
LEMMA RowsApart ==
  ASSUME NEW s \in Nat, ~kill(s), NEW n \in Nat, s < n
  PROVE  Row(s) < Row(n)
<1> DEFINE S == {m \in Nat : Row(s) < Row(s + 1 + m)}
<1>1. \A m \in Nat : Row(m) \in Int
  BY RowFacts
<1>2. 0 \in S
  BY RowFacts
<1>3. ASSUME NEW m \in Nat, m \in S PROVE m + 1 \in S
  <2>1. s + 1 + m \in Nat /\ s + 1 + (m + 1) = (s + 1 + m) + 1
    OBVIOUS
  <2>2. Row(s + 1 + (m + 1)) = IF kill(s + 1 + m) THEN Row(s + 1 + m) ELSE Row(s + 1 + m) + 1
    BY <2>1, RowFacts
  <2>3. Row(s) \in Int /\ Row(s + 1 + m) \in Int /\ Row(s) < Row(s + 1 + m)
    BY <1>1, <1>3
  <2> QED BY <2>2, <2>3
<1> HIDE DEF S
<1>4. \A m \in Nat : m \in S
  BY <1>2, <1>3, Inductive
<1>5. n - s - 1 \in S /\ s + 1 + (n - s - 1) = n
  BY <1>4
<1>6. Row(s) < Row(s + 1 + (n - s - 1))
  BY <1>5 DEF S
<1> QED BY <1>5, <1>6

(* The new numbers: those of the rows of the states that are kept. *)
LEMMA NewNumberFacts ==
  ASSUME Complete(dfa), PartitionInv
  PROVE  /\ \A s \in States : NewNumber(s) = Row(trans(s)) /\ NewNumber(s) \in 0..Row(dfa.size)-1
         /\ \A s \in States : ~kill(s) => trans(s) = s /\ NewNumber(s) = Row(s)
         /\ \A s, t \in States : BlockOf(s) = BlockOf(t) => NewNumber(s) = NewNumber(t)
         /\ NewNumber(0) = 0
         /\ Row(dfa.size) \in 1..dfa.size
<1>1. States = 0..dfa.size-1 /\ dfa.size \in Nat \ {0} /\ 0 \in States
  BY DfaFacts
<1>2. ASSUME NEW s \in States
      PROVE  NewNumber(s) = Row(trans(s)) /\ NewNumber(s) \in 0..Row(dfa.size)-1
  <2>1. trans(s) \in Nat /\ trans(s) < dfa.size /\ ~kill(trans(s))
    BY <1>1, BlockFacts
  <2>2. Row(trans(s)) < Row(dfa.size) /\ Row(trans(s)) \in Nat /\ Row(dfa.size) \in Nat
    <3>1. PICK t : t = trans(s)
      OBVIOUS
    <3>2. t \in Nat /\ ~kill(t) /\ t < dfa.size /\ dfa.size \in Nat
      BY <1>1, <2>1, <3>1
    <3>3. Row(t) < Row(dfa.size)
      BY <3>2, RowsApart
    <3>4. Row(t) \in 0..t /\ Row(dfa.size) \in 0..dfa.size
      BY <3>2, RowFacts
    <3> QED BY <3>1, <3>3, <3>4
  <2>3. NewNumber(s) = Row(trans(s))
    BY DEF NewNumber, Row
  <2> QED BY <2>2, <2>3
<1>3. ASSUME NEW s \in States, ~kill(s) PROVE trans(s) = s /\ NewNumber(s) = Row(s)
  BY <1>2, <1>3 DEF kill
<1>4. \A s, t \in States : BlockOf(s) = BlockOf(t) => NewNumber(s) = NewNumber(t)
  BY <1>2, BlockFacts
<1>5. trans(0) = 0
  <2>1. trans(0) \in Nat /\ trans(0) <= 0
    BY <1>1, BlockFacts
  <2> QED BY <2>1
<1>6. NewNumber(0) = 0
  BY <1>1, <1>2, <1>5, RowFacts
<1>7. Row(dfa.size) \in 1..dfa.size
  <2>1. Row(dfa.size) \in 0..dfa.size
    BY <1>1, RowFacts
  <2>2. 0 \in 0..Row(dfa.size)-1
    BY <1>1, <1>2, <1>6
  <2> QED BY <2>1, <2>2
<1> QED BY <1>2, <1>3, <1>4, <1>6, <1>7

(* The rewriting starts with nothing moved. *)
LEMMA RefinedKeeps ==
  ASSUME MInv, Refined, UNCHANGED <<dfa, dead_state>>
  PROVE  MInv'
<1>1. /\ pc = "refine" /\ L = {} /\ pc' = "rewrite"
      /\ UNCHANGED <<dfa, dead_state, blocks, L, i, j, state_table, accepted_rules, size>>
  BY DEF Refined
<1>2. /\ Complete(dfa) /\ PartitionInv /\ RulesInv /\ SplittersPending
      /\ L \subseteq blocks \X Symbol /\ RowsTypeOK
  BY <1>1 DEF MInv, BlocksInv, RowsTypeOK
<1>3. StableInv
  BY <1>1, RefinedStable
<1>4. (PartitionInv /\ RulesInv /\ StableInv)'
  BY <1>1, <1>2, <1>3, DfaUnchanged DEF PartitionInv, RulesInv, StableInv
<1>5. SplittersPending'
  BY <1>1, <1>2, DfaUnchanged DEF SplittersPending
<1>6. RowsTypeOK'
  BY <1>1, <1>2, DfaUnchanged DEF RowsTypeOK
<1>7. RewriteInv'
  <2>1. /\ i = 0 /\ j = 0 /\ size = dfa.size
        /\ state_table = dfa.state_table /\ accepted_rules = dfa.accepted_rules
    BY <1>1 DEF MInv, RewriteInv
  <2>2. Row(0) = 0 /\ dfa.size \in Nat
    BY <1>2, RowFacts, DfaFacts
  <2>3. Copied(0)
    BY <2>2 DEF Copied
  <2>4. Copied(0)' /\ Row(0)' = 0
    BY <1>1, <2>2, <2>3, BlocksUnchanged DEF Copied
  <2> QED BY <1>1, <2>1, <2>2, <2>4 DEF RewriteInv
<1> QED BY <1>1, <1>2, <1>4, <1>5, <1>6, <1>7 DEF MInv, BlocksInv

(* The invariant on the blocks, once they are final. *)
LEMMA FinalBlocksKeep ==
  ASSUME MInv, pc = "rewrite", pc' \in {"rewrite", "done"}, UNCHANGED <<dfa, blocks, L>>
  PROVE  BlocksInv'
<1>1. /\ PartitionInv /\ RulesInv /\ StableInv /\ SplittersPending
      /\ L \subseteq blocks \X Symbol
  BY DEF MInv, BlocksInv
<1>2. (PartitionInv /\ RulesInv /\ StableInv)'
  BY <1>1, DfaUnchanged DEF PartitionInv, RulesInv, StableInv
<1>3. SplittersPending'
  BY <1>1, DfaUnchanged DEF SplittersPending
<1> QED BY <1>1, <1>2, <1>3 DEF BlocksInv

(* A row that is killed is passed by. *)
LEMMA KillRowKeeps ==
  ASSUME MInv, KillRow, UNCHANGED <<dfa, dead_state>>
  PROVE  MInv'
<1>1. /\ pc = "rewrite" /\ pc' = "rewrite" /\ i < size /\ kill(i) /\ i' = i + 1
      /\ UNCHANGED <<dfa, dead_state, blocks, L, j, state_table, accepted_rules, size>>
  BY DEF KillRow
<1>2. /\ Complete(dfa) /\ size = dfa.size /\ size \in Nat /\ i \in 0..size /\ j = Row(i) /\ Copied(i)
      /\ \A s \in i..size-1 : state_table[s] = dfa.state_table[s] /\ accepted_rules[s] = dfa.accepted_rules[s]
  BY <1>1, DfaFacts DEF MInv, RewriteInv, RowsTypeOK
<1>3. BlocksInv' /\ RowsTypeOK'
  BY <1>1, FinalBlocksKeep, DfaUnchanged DEF MInv, RowsTypeOK
<1>4. Row(i + 1) = Row(i) /\ 0..(i+1)-1 = 0..i-1 \cup {i} /\ i + 1 \in 0..size
  BY <1>1, <1>2, RowFacts
<1>5. Copied(i + 1)
  BY <1>1, <1>2, <1>4 DEF Copied
<1>6. Copied(i)' /\ Row(i)' = j'
  BY <1>1, <1>2, <1>4, <1>5, BlocksUnchanged DEF Copied
<1>7. RewriteInv'
  BY <1>1, <1>2, <1>4, <1>6 DEF RewriteInv
<1> QED BY <1>3, <1>7 DEF MInv

(* A row is moved up in place: rows that are still to be read lie behind it, *)
(* rows that have been written before it.                                  *)
LEMMA CopyRowKeeps ==
  ASSUME MInv, CopyRow, UNCHANGED <<dfa, dead_state>>
  PROVE  MInv'
<1> DEFINE row == [c \in Symbol |-> NewNumber(dfa.state_table[i][c])]
<1>1. /\ pc = "rewrite" /\ pc' = "rewrite" /\ i < size /\ ~kill(i) /\ i' = i + 1 /\ j' = j + 1
      /\ state_table' = [state_table EXCEPT ![j] = [c \in Symbol |-> NewNumber(state_table[i][c])]]
      /\ accepted_rules' = [accepted_rules EXCEPT ![j] = accepted_rules[i]]
      /\ UNCHANGED <<dfa, dead_state, blocks, L, size>>
  BY DEF CopyRow
<1>2. /\ Complete(dfa) /\ size = dfa.size /\ size \in Nat \ {0} /\ i \in 0..size /\ j = Row(i)
      /\ Copied(i) /\ PartitionInv /\ RowsTypeOK
      /\ \A s \in i..size-1 : state_table[s] = dfa.state_table[s] /\ accepted_rules[s] = dfa.accepted_rules[s]
  BY <1>1, DfaFacts DEF MInv, RewriteInv, BlocksInv, RowsTypeOK
<1>3. i \in States /\ i \in Nat /\ i \in i..size-1 /\ States = 0..size-1
  BY <1>1, <1>2, DfaFacts
<1>4. /\ j \in Nat /\ j <= i /\ j \in States /\ Row(i + 1) = j + 1 /\ i + 1 \in 0..size
      /\ 0..(i+1)-1 = 0..i-1 \cup {i} /\ 0..(j+1)-1 = 0..j-1 \cup {j}
  BY <1>1, <1>2, <1>3, RowFacts
<1>5. row \in [Symbol -> States]
  <2>1. \A s \in States : NewNumber(s) \in 0..Row(dfa.size)-1 /\ Row(dfa.size) \in 1..dfa.size
    BY <1>2, NewNumberFacts
  <2>2. \A s \in States : NewNumber(s) \in States
    BY <1>2, <1>3, <2>1
  <2>3. \A c \in Symbol : dfa.state_table[i][c] \in States
    <3>1. Complete(dfa) BY <1>2
    <3>2. dfa.state_table \in [States -> [Symbol -> States]] BY <3>1, DfaFacts
    <3>3. dfa.state_table[i] \in [Symbol -> States] BY <1>3, <3>2
    <3> QED BY <3>3
  <2> QED BY <2>2, <2>3
<1>6. [c \in Symbol |-> NewNumber(state_table[i][c])] = row
  BY <1>2, <1>3
<1> HIDE DEF row
<1>7. /\ state_table \in [States -> [Symbol -> States]]
      /\ accepted_rules \in [States -> SUBSET Rule] /\ accepted_rules[i] \in SUBSET Rule
  BY <1>2, <1>3 DEF RowsTypeOK
<1>8. /\ state_table' \in [States -> [Symbol -> States]] /\ state_table'[j] = row
      /\ accepted_rules' \in [States -> SUBSET Rule] /\ accepted_rules'[j] = dfa.accepted_rules[i]
      /\ \A s \in States : s # j => state_table'[s] = state_table[s] /\ accepted_rules'[s] = accepted_rules[s]
  BY <1>1, <1>2, <1>3, <1>4, <1>5, <1>6, <1>7
<1>9. BlocksInv'
  BY <1>1, FinalBlocksKeep
<1>10. RowsTypeOK'
  BY <1>1, <1>2, <1>3, <1>8, DfaUnchanged DEF RowsTypeOK
<1>11. \A s \in 0..i-1 : ~kill(s) => Row(s) # j /\ Row(s) \in States
  <2> SUFFICES ASSUME NEW s \in 0..i-1, ~kill(s) PROVE Row(s) # j /\ Row(s) \in States
    OBVIOUS
  <2>1. s \in Nat /\ s < i
    BY <1>3
  <2>2. Row(s) < Row(i) /\ Row(s) \in 0..s
    BY <1>3, <2>1, RowsApart, RowFacts
  <2> QED BY <1>2, <1>3, <1>4, <2>1, <2>2
<1>12. /\ \A s \in 0..(i+1)-1 : ~kill(s) =>
            /\ state_table'[Row(s)] = [c \in Symbol |-> NewNumber(dfa.state_table[s][c])]
            /\ accepted_rules'[Row(s)] = dfa.accepted_rules[s]
       /\ \A r \in 0..Row(i + 1)-1 : \E s \in 0..(i+1)-1 : ~kill(s) /\ Row(s) = r
  <2>1. ASSUME NEW s \in 0..i-1, ~kill(s)
        PROVE  /\ state_table'[Row(s)] = [c \in Symbol |-> NewNumber(dfa.state_table[s][c])]
               /\ accepted_rules'[Row(s)] = dfa.accepted_rules[s]
    BY <1>2, <1>8, <1>11, <2>1 DEF Copied
  <2>2. /\ state_table'[Row(i)] = [c \in Symbol |-> NewNumber(dfa.state_table[i][c])]
        /\ accepted_rules'[Row(i)] = dfa.accepted_rules[i]
    BY <1>2, <1>8 DEF row
  <2>3. ASSUME NEW r \in 0..Row(i + 1)-1 PROVE \E s \in 0..(i+1)-1 : ~kill(s) /\ Row(s) = r
    <3>1. CASE r = j
      BY <1>1, <1>2, <1>4, <3>1
    <3>2. CASE r \in 0..j-1
      BY <1>2, <1>4, <3>2 DEF Copied
    <3> QED BY <1>4, <3>1, <3>2
  <2> QED BY <1>4, <2>1, <2>2, <2>3
<1>13. Copied(i)' /\ Row(i)' = j'
  BY <1>1, <1>4, <1>12, BlocksUnchanged DEF Copied
<1>14. \A s \in i+1..size-1 : state_table'[s] = dfa.state_table[s] /\ accepted_rules'[s] = dfa.accepted_rules[s]
  <2> SUFFICES ASSUME NEW s \in i+1..size-1
               PROVE  state_table'[s] = dfa.state_table[s] /\ accepted_rules'[s] = dfa.accepted_rules[s]
    OBVIOUS
  <2>1. s \in i..size-1 /\ s \in States /\ s # j
    BY <1>2, <1>3, <1>4
  <2> QED BY <1>2, <1>8, <2>1
<1>15. RewriteInv'
  BY <1>1, <1>2, <1>4, <1>13, <1>14 DEF RewriteInv
<1> QED BY <1>9, <1>10, <1>15 DEF MInv

(* The rows written are all that is left. *)
LEMMA TruncateKeeps ==
  ASSUME MInv, Truncate, UNCHANGED <<dfa, dead_state>>
  PROVE  MInv'
<1>1. /\ pc = "rewrite" /\ pc' = "done" /\ i = size /\ size' = j
      /\ state_table' = [s \in 0..j-1 |-> state_table[s]]
      /\ accepted_rules' = [s \in 0..j-1 |-> accepted_rules[s]]
      /\ UNCHANGED <<dfa, dead_state, blocks, L, i, j>>
  BY DEF Truncate
<1>2. /\ Complete(dfa) /\ size = dfa.size /\ size \in Nat \ {0} /\ j = Row(size)
      /\ Copied(size) /\ PartitionInv /\ RowsTypeOK
  BY <1>1, DfaFacts DEF MInv, RewriteInv, BlocksInv, RowsTypeOK
<1>3. /\ j \in 1..dfa.size /\ States = 0..size-1
      /\ \A s \in States : NewNumber(s) \in 0..j-1
  BY <1>2, NewNumberFacts, DfaFacts
<1>4. 0..j-1 \subseteq States
  BY <1>2, <1>3
<1>5. \A s \in 0..size-1 : ~kill(s) => Row(s) \in 0..j-1
  BY <1>2, <1>3, NewNumberFacts
<1>6. /\ \A s \in 0..size-1 : ~kill(s) =>
           /\ state_table'[Row(s)] = [c \in Symbol |-> NewNumber(dfa.state_table[s][c])]
           /\ accepted_rules'[Row(s)] = dfa.accepted_rules[s]
      /\ \A r \in 0..j-1 : \E s \in 0..size-1 : ~kill(s) /\ Row(s) = r
  BY <1>1, <1>2, <1>5 DEF Copied
<1>7. Copied(dfa.size)' /\ Row(dfa.size)' = size'
  BY <1>1, <1>2, <1>6, BlocksUnchanged DEF Copied
<1>8. RewriteInv'
  BY <1>1, <1>7 DEF RewriteInv
<1>9. state_table' \in [0..j-1 -> [Symbol -> 0..j-1]]
  <2>1. ASSUME NEW r \in 0..j-1 PROVE state_table'[r] \in [Symbol -> 0..j-1]
    <3>1. PICK s \in 0..size-1 : ~kill(s) /\ Row(s) = r
      BY <1>6
    <3>2. state_table'[r] = [c \in Symbol |-> NewNumber(dfa.state_table[s][c])]
      BY <1>6, <3>1
    <3>3. \A c \in Symbol : dfa.state_table[s][c] \in States
      <4>1. s \in States /\ dfa.state_table \in [States -> [Symbol -> States]]
        BY <1>2, <1>3, DfaFacts
      <4> QED BY <4>1
    <3> QED BY <1>3, <3>2, <3>3
  <2> QED BY <1>1, <2>1
<1>10. RowsTypeOK'
  <2>1. accepted_rules' \in [0..j-1 -> SUBSET Rule]
    BY <1>1, <1>2, <1>3, <1>4 DEF RowsTypeOK
  <2>2. state_table' \in [0..j-1 -> [Symbol -> States]]
    BY <1>4, <1>9
  <2> QED BY <1>1, <1>2, <1>3, <1>9, <2>1, <2>2, DfaUnchanged DEF RowsTypeOK
<1>11. BlocksInv'
  BY <1>1, FinalBlocksKeep
<1> QED BY <1>8, <1>10, <1>11 DEF MInv

(* Hence the invariant is inductive. *)
LEMMA MInvStutters ==
  ASSUME MInv, UNCHANGED minimizeVars
  PROVE  MInv'
<1>1. CASE UNCHANGED minimizeVars
  <2>1. UNCHANGED <<dfa, pc, blocks, L, state_table, accepted_rules, size, dead_state, i, j>>
    BY <1>1 DEF minimizeVars
  <2>2. RowsTypeOK'
    BY <2>1, DfaUnchanged DEF MInv, RowsTypeOK
  <2>3. /\ PartitionInv => PartitionInv'
        /\ RulesInv => RulesInv'
        /\ StableInv => StableInv'
    BY <2>1, DfaUnchanged DEF PartitionInv, RulesInv, StableInv
  <2>4. BlocksInv'
    BY <2>1, <2>3, DfaUnchanged DEF MInv, BlocksInv, SplittersPending
  <2>5. RewriteInv'
    <3>1. Row(i)' = Row(i) /\ Row(dfa.size)' = Row(dfa.size)
      BY <2>1, BlocksUnchanged
    <3>2. Copied(i) => Copied(i)'
      BY <2>1, BlocksUnchanged DEF Copied
    <3>3. Copied(dfa.size) => Copied(dfa.size)'
      BY <2>1, BlocksUnchanged DEF Copied
    <3> QED BY <2>1, <3>1, <3>2, <3>3 DEF MInv, RewriteInv
  <2> QED BY <2>2, <2>4, <2>5 DEF MInv
<1> QED BY <1>1

LEMMA MInvNext == MinimizeInv /\ [MinimizeNext]_minimizeVars => MinimizeInv'
<1> SUFFICES ASSUME MinimizeInv, [MinimizeNext]_minimizeVars PROVE MinimizeInv'
  OBVIOUS
<1>1. ASSUME dfa' = dfa, blocks' = blocks, CoarseInv PROVE CoarseInv'
  BY <1>1, DfaUnchanged DEF CoarseInv, Congruence
<1>2. MInv /\ dfa \in Dfas /\ (pc # "blocks" => CoarseInv)
  BY DEF MinimizeInv
<1>3. CASE UNCHANGED minimizeVars
  BY <1>1, <1>2, <1>3, MInvStutters DEF MinimizeInv, minimizeVars
<1>4. ASSUME MinimizeNext PROVE MinimizeInv'
  <2>0. UNCHANGED <<dfa, dead_state>>
    BY <1>4 DEF MinimizeNext
  <2>1. CASE InitializeBlocks
    BY <1>2, <2>0, <2>1, InitializeBlocksKeeps DEF MinimizeInv
  <2>2. CASE InitializeWorklist
    BY <1>1, <1>2, <2>0, <2>2, InitializeWorklistKeeps DEF MinimizeInv, InitializeWorklist
  <2>3. CASE Refine
    BY <1>2, <2>0, <2>3, RefineKeeps DEF MinimizeInv, Refine
  <2>4. CASE Refined
    BY <1>1, <1>2, <2>0, <2>4, RefinedKeeps DEF MinimizeInv, Refined
  <2>5. CASE KillRow
    BY <1>1, <1>2, <2>0, <2>5, KillRowKeeps DEF MinimizeInv, KillRow
  <2>6. CASE CopyRow
    BY <1>1, <1>2, <2>0, <2>6, CopyRowKeeps DEF MinimizeInv, CopyRow
  <2>7. CASE Truncate
    BY <1>1, <1>2, <2>0, <2>7, TruncateKeeps DEF MinimizeInv, Truncate
  <2> QED BY <1>4, <2>1, <2>2, <2>3, <2>4, <2>5, <2>6, <2>7 DEF MinimizeNext
<1> QED BY <1>3, <1>4

-----------------------------------------------------------------------------
(* What the invariant says of the result. *)
LEMMA ResultFacts ==
  ASSUME MInv, pc = "done"
  PROVE  /\ \A s \in States : /\ NewNumber(s) \in 0..size-1
                              /\ accepted_rules[NewNumber(s)] = dfa.accepted_rules[s]
                              /\ \A c \in Symbol :
                                   state_table[NewNumber(s)][c] = NewNumber(dfa.state_table[s][c])
         /\ NewNumber(0) = 0
         /\ \A r \in 0..size-1 : \E s \in States : NewNumber(s) = r
         /\ \A s \in States, B \in blocks : \A t \in B : s \in B => NewNumber(s) = NewNumber(t)
<1>1. /\ Complete(dfa) /\ PartitionInv /\ RulesInv /\ StableInv
      /\ size = Row(dfa.size) /\ Copied(dfa.size)
  BY DEF MInv, BlocksInv, RowsTypeOK, RewriteInv
<1>2. States = 0..dfa.size-1
  BY <1>1, DfaFacts
<1>3. ASSUME NEW s \in States, NEW B \in blocks, NEW t \in B, s \in B
      PROVE  t \in States /\ NewNumber(s) = NewNumber(t)
  <2>1. BlockOf(s) = B
    BY <1>1, <1>3, BlockFacts
  <2>2. t \in States
    BY <1>1, <2>1, BlockFacts
  <2>3. BlockOf(t) = B
    BY <1>1, <1>3, <2>2, BlockFacts
  <2> QED BY <1>1, <2>1, <2>2, <2>3, NewNumberFacts
<1>4. ASSUME NEW s \in States
      PROVE  /\ NewNumber(s) \in 0..size-1
             /\ accepted_rules[NewNumber(s)] = dfa.accepted_rules[s]
             /\ \A c \in Symbol : state_table[NewNumber(s)][c] = NewNumber(dfa.state_table[s][c])
  <2>1. PICK t : t = trans(s)
    OBVIOUS
  <2>2. PICK B \in blocks : s \in B /\ t \in B /\ t \in States /\ ~kill(t)
    BY <1>1, <2>1, BlockFacts
  <2>3. NewNumber(s) = Row(t) /\ NewNumber(s) \in 0..size-1
    BY <1>1, <2>1, NewNumberFacts
  <2>4. /\ state_table[Row(t)] = [c \in Symbol |-> NewNumber(dfa.state_table[t][c])]
        /\ accepted_rules[Row(t)] = dfa.accepted_rules[t]
    BY <1>1, <1>2, <2>2 DEF Copied
  <2>5. dfa.accepted_rules[t] = dfa.accepted_rules[s]
    BY <1>1, <2>2 DEF RulesInv, SameAcceptance
  <2>6. ASSUME NEW c \in Symbol
        PROVE  NewNumber(dfa.state_table[t][c]) = NewNumber(dfa.state_table[s][c])
    <3>1. /\ Target(s, c) = dfa.state_table[s][c] /\ Target(s, c) \in States
          /\ Target(t, c) = dfa.state_table[t][c] /\ Target(t, c) \in States
      BY <1>1, <2>2, DfaFacts
    <3>2. PICK C \in blocks : Target(s, c) \in C
      BY <1>1, <3>1 DEF PartitionInv, Universe
    <3>3. Target(t, c) \in C
      BY <1>1, <2>2, <3>2 DEF StableInv
    <3> QED BY <1>3, <3>1, <3>2, <3>3
  <2> QED BY <2>3, <2>4, <2>5, <2>6
<1>5. ASSUME NEW r \in 0..size-1 PROVE \E s \in States : NewNumber(s) = r
  <2>1. PICK s \in States : ~kill(s) /\ Row(s) = r
    BY <1>1, <1>2 DEF Copied
  <2> QED BY <1>1, <2>1, NewNumberFacts
<1>6. NewNumber(0) = 0
  BY <1>1, NewNumberFacts
<1> QED BY <1>3, <1>4, <1>5, <1>6

(* The result has the transitions and the rules of the DFA. *)
LEMMA MInvEquivalent == MInv => Equivalent
<1> SUFFICES ASSUME MInv, pc = "done"
             PROVE  \E h \in [States -> 0..size-1] :
                      /\ h[0] = 0
                      /\ \A s \in States :
                           /\ accepted_rules[h[s]] = dfa.accepted_rules[s]
                           /\ \A c \in Symbol : state_table[h[s]][c] = h[dfa.state_table[s][c]]
  BY DEF Equivalent
<1> DEFINE h == [s \in States |-> NewNumber(s)]
<1>1. 0 \in States /\ dfa.state_table \in [States -> [Symbol -> States]]
  BY DfaFacts DEF MInv, RowsTypeOK
<1>2. h \in [States -> 0..size-1] /\ h[0] = 0
  BY <1>1, ResultFacts
<1>3. \A s \in States : /\ accepted_rules[h[s]] = dfa.accepted_rules[s]
                        /\ \A c \in Symbol : state_table[h[s]][c] = h[dfa.state_table[s][c]]
  BY <1>1, ResultFacts
<1> HIDE DEF h
<1> QED BY <1>2, <1>3

(* A congruence of the result is one of the DFA, whose states it relates   *)
(* are in one block and therefore one state of the result.                 *)
LEMMA MInvMinimal == MinimizeInv => Minimal
<1> SUFFICES ASSUME MinimizeInv, pc = "done", NEW k \in [0..size-1 -> 0..size-1],
                    Congruence(k, size, state_table, accepted_rules),
                    NEW a \in 0..size-1, NEW b \in 0..size-1, k[a] = k[b]
             PROVE  a = b
  BY DEF Minimal
<1> DEFINE h == [s \in States |-> NewNumber(s)]
           q == [s \in States |-> k[h[s]]]
<1>1. /\ Complete(dfa) /\ CoarseInv /\ size \in 1..dfa.size /\ dfa.size \in Nat
      /\ States = 0..dfa.size-1 /\ dfa.state_table \in [States -> [Symbol -> States]]
      /\ PartitionInv
  BY DfaFacts DEF MinimizeInv, MInv, RowsTypeOK, BlocksInv
<1>2. h \in [States -> 0..size-1]
  BY ResultFacts DEF MinimizeInv
<1>3. /\ \A s \in States : /\ accepted_rules[h[s]] = dfa.accepted_rules[s]
                           /\ \A c \in Symbol : state_table[h[s]][c] = h[dfa.state_table[s][c]]
      /\ \A r \in 0..size-1 : \E s \in States : h[s] = r
      /\ \A s \in States, B \in blocks : \A t \in B \cap States : s \in B => h[s] = h[t]
  <2>1. \A s \in States, c \in Symbol : dfa.state_table[s][c] \in States
    BY <1>1
  <2> QED BY <2>1, ResultFacts DEF MinimizeInv
<1> HIDE DEF h
<1>4. q \in [States -> States]
  <2>1. 0..size-1 \subseteq States
    <3>1. size \in Nat /\ dfa.size \in Nat /\ size <= dfa.size /\ States = 0..dfa.size-1
      BY <1>1
    <3> QED BY <3>1
  <2>2. \A s \in States : k[h[s]] \in 0..size-1
    BY <1>2
  <2> QED BY <2>1, <2>2
<1>5. ASSUME NEW s \in States, NEW t \in States, q[s] = q[t]
      PROVE  /\ dfa.accepted_rules[s] = dfa.accepted_rules[t]
             /\ \A c \in Symbol : q[dfa.state_table[s][c]] = q[dfa.state_table[t][c]]
  <2>1. h[s] \in 0..size-1 /\ h[t] \in 0..size-1 /\ k[h[s]] = k[h[t]]
    BY <1>2, <1>5
  <2>2. /\ accepted_rules[h[s]] = accepted_rules[h[t]]
        /\ \A c \in Symbol : k[state_table[h[s]][c]] = k[state_table[h[t]][c]]
    BY <2>1 DEF Congruence
  <2>3. \A c \in Symbol : dfa.state_table[s][c] \in States /\ dfa.state_table[t][c] \in States
    BY <1>1
  <2> QED BY <1>3, <2>2, <2>3
<1>6. Congruence(q, dfa.size, dfa.state_table, dfa.accepted_rules)
  BY <1>1, <1>5 DEF Congruence
<1>7. PICK s \in States, t \in States : h[s] = a /\ h[t] = b
  BY <1>3
<1>8. q[s] = q[t]
  BY <1>7
<1> HIDE DEF q
<1>9. \A B \in blocks : s \in B => t \in B
  BY <1>1, <1>4, <1>6, <1>8 DEF CoarseInv
<1>10. PICK B \in blocks : s \in B
  BY <1>1 DEF PartitionInv, Universe
<1> QED BY <1>3, <1>7, <1>9, <1>10

(* A row or state number stored in the DFA that minimize is rewriting is    *)
(* always that of a state, of the old DFA or, at the end, of the new one.  *)
THEOREM MinimizeTypeCorrect == MinimizeSpec => []MinimizeTypeOK
<1>1. MinimizeInv => MinimizeTypeOK
  BY DEF MinimizeInv, MInv, MinimizeTypeOK
<1> QED BY <1>1, MInvInit, MInvNext, PTL DEF MinimizeSpec

(* Hopcroft's invariant, for every order in which the worklist is used: a  *)
(* symbol that leads the states of a block into different blocks will      *)
(* still be used on one of them, although only one piece of a split block  *)
(* was put into the list.                                                  *)
THEOREM SplittersNeverLost == MinimizeSpec => []SplittersPending
<1>1. MinimizeInv => SplittersPending
  BY DEF MinimizeInv, MInv, BlocksInv
<1> QED BY <1>1, MInvInit, MInvNext, PTL DEF MinimizeSpec

(* The minimized DFA, whose rows were moved up in place, does what the DFA  *)
(* did.                                                                    *)
THEOREM MinimizedIsEquivalent == MinimizeSpec => []Equivalent
<1>1. MinimizeInv => Equivalent
  BY MInvEquivalent DEF MinimizeInv
<1> QED BY <1>1, MInvInit, MInvNext, PTL DEF MinimizeSpec

(* No two states of the minimized DFA can be merged. *)
THEOREM MinimizedIsMinimal == MinimizeSpec => []Minimal
<1> QED BY MInvMinimal, MInvInit, MInvNext, PTL DEF MinimizeSpec


-----------------------------------------------------------------------------
(* The states of a table are numbered in the order in which a breadth-first  *)
(* traversal that takes the symbols in their order discovers them.          *)
DiscoveryOrder(table, n) ==
  \A q \in 1..n-1 : \E p \in 0..q-1, c \in Symbol :
    /\ table[p][c] = q
    /\ \A r \in 0..p, b \in Symbol : table[r][b] > q => r = p /\ b > c

OrderKept == pc = "done" /\ DiscoveryOrder(dfa.state_table, dfa.size) => DiscoveryOrder(state_table, size)

(* A state that is kept is moved up by fewer rows than a later one, so that *)
(* two of them are in the same order before and after.                      *)
LEMMA RowsInOrder ==
  ASSUME Complete(dfa), NEW s \in States, NEW t \in States, ~kill(s), ~kill(t)
  PROVE  (Row(s) < Row(t) <=> s < t) /\ (Row(s) = Row(t) <=> s = t)
<1>1. s \in Nat /\ t \in Nat /\ Row(s) \in Nat /\ Row(t) \in Nat
  BY DfaFacts, RowFacts
<1>2. (s < t => Row(s) < Row(t)) /\ (t < s => Row(t) < Row(s))
  BY <1>1, RowsApart
<1> QED BY <1>1, <1>2

(* The first transition to a block is the one to its smallest state, and    *)
(* the state it comes from is in front of it with its own block.            *)
LEMMA MInvOrderKept == MInv => OrderKept
<1> SUFFICES ASSUME MInv, pc = "done", DiscoveryOrder(dfa.state_table, dfa.size), NEW q \in 1..size-1
             PROVE  \E p \in 0..q-1, c \in Symbol :
                      /\ state_table[p][c] = q
                      /\ \A r \in 0..p, b \in Symbol : state_table[r][b] > q => r = p /\ b > c
  BY DEF OrderKept, DiscoveryOrder
<1>1. Complete(dfa) /\ PartitionInv /\ size \in Nat /\ size = Row(dfa.size) /\ Copied(dfa.size)
  BY DfaFacts DEF MInv, BlocksInv, RowsTypeOK, RewriteInv
<1>2. /\ States = 0..dfa.size-1 /\ dfa.size \in Nat
      /\ \A s \in States, c \in Symbol : dfa.state_table[s][c] \in States
  BY <1>1, DfaFacts
<1>3. PICK m \in States : ~kill(m) /\ Row(m) = q
  BY <1>1, <1>2 DEF Copied
<1>4. m \in 1..dfa.size-1
  BY <1>1, <1>2, <1>3, RowFacts
<1>5. PICK p0 \in 0..m-1, c \in Symbol :
        /\ dfa.state_table[p0][c] = m
        /\ \A r \in 0..p0, b \in Symbol : dfa.state_table[r][b] > m => r = p0 /\ b > c
  BY <1>4 DEF DiscoveryOrder
<1>6. PICK p : p = trans(p0)
  OBVIOUS
<1>7. /\ p0 \in States /\ p \in States /\ ~kill(p) /\ p <= p0 /\ NewNumber(p0) = Row(p)
  BY <1>1, <1>2, <1>4, <1>5, <1>6, BlockFacts, NewNumberFacts
<1>8. Row(p) \in 0..q-1 /\ Row(p) \in 0..size-1
  <2>1. Row(p) < Row(m)
    <3>1. p < m BY <1>2, <1>4, <1>5, <1>7
    <3> QED BY <1>1, <1>3, <1>7, <3>1, RowsInOrder
  <2>2. Row(p) \in Nat BY <1>2, <1>7, RowFacts
  <2> QED BY <1>3, <2>1, <2>2, <1>1
<1>9. state_table[Row(p)][c] = q
  <2>1. state_table[NewNumber(p0)][c] = NewNumber(dfa.state_table[p0][c])
    BY <1>7, ResultFacts
  <2>2. NewNumber(m) = Row(m) BY <1>1, <1>3, NewNumberFacts
  <2> QED BY <1>3, <1>5, <1>7, <2>1, <2>2
<1>10. ASSUME NEW r \in 0..Row(p), NEW b \in Symbol, state_table[r][b] > q
       PROVE  r = Row(p) /\ b > c
  <2>1. r \in 0..size-1 /\ r \in Nat BY <1>1, <1>8
  <2>2. PICK s \in States : ~kill(s) /\ Row(s) = r
    BY <1>1, <1>2, <2>1 DEF Copied
  <2>3. s <= p
    <3>1. ~(Row(p) < Row(s)) BY <1>8, <2>1, <2>2
    <3>2. ~(p < s) BY <1>1, <1>7, <2>2, <3>1, RowsInOrder
    <3> QED BY <1>2, <1>7, <3>2
  <2>4. PICK t : t = dfa.state_table[s][b]
    OBVIOUS
  <2>5. t \in States /\ state_table[r][b] = NewNumber(t)
    <3>1. NewNumber(s) = r BY <1>1, <2>2, NewNumberFacts
    <3> QED BY <1>2, <2>2, <2>4, <3>1, ResultFacts
  <2>6. trans(t) > m
    <3>1. trans(t) \in States /\ ~kill(trans(t)) /\ NewNumber(t) = Row(trans(t))
      BY <1>1, <2>5, BlockFacts, NewNumberFacts
    <3>2. Row(m) < Row(trans(t)) BY <1>3, <1>8, <1>10, <2>5, <3>1
    <3>3. m < trans(t) BY <1>1, <1>3, <3>1, <3>2, RowsInOrder
    <3> QED BY <3>3
  <2>7. dfa.state_table[s][b] > m
    <3>1. trans(t) <= t /\ trans(t) \in States BY <1>1, <2>5, BlockFacts
    <3> QED BY <1>2, <1>4, <2>4, <2>5, <2>6, <3>1
  <2>8. s \in 0..p0
    BY <1>2, <1>4, <1>5, <1>7, <2>2, <2>3
  <2>9. s = p0 /\ b > c
    BY <1>5, <2>7, <2>8
  <2>10. s = p
    BY <1>2, <1>4, <1>5, <1>7, <2>3, <2>9
  <2> QED BY <2>2, <2>9, <2>10
<1> QED BY <1>8, <1>9, <1>10

(* A minimized DFA is numbered in the order of discovery when the DFA was:  *)
(* what the depths and the image of the DFA rely on.                        *)
THEOREM DiscoveryOrderKept == MinimizeSpec => []OrderKept
<1>1. MinimizeInv => OrderKept
  BY MInvOrderKept DEF MinimizeInv
<1> QED BY <1>1, MInvInit, MInvNext, PTL DEF MinimizeSpec

-----------------------------------------------------------------------------
(***************************************************************************)
(* Hybrid automata.                                                        *)
(***************************************************************************)
LEMMA NodeFacts ==
  /\ NState \in Nat \ {0} /\ Parsed \subseteq Node /\ 0 \in Parsed /\ Node \subseteq Nat
  /\ IsFiniteSet(Node) /\ Cardinality(Node) \in Nat /\ Parsed \subseteq Nat
<1>1. NState \in Nat \ {0} /\ MaxCorrected \in Nat
  BY HybridAssumption
<1> DEFINE m == NState * MaxCorrected
<1>2. m \in Nat
  BY <1>1
<1>2a. \A a, b \in Nat : a * (b + 1) = a + a * b
  OBVIOUS
<1>2b. NState * (MaxCorrected + 1) = NState + m
  BY <1>1, <1>2a
<1> HIDE DEF m
<1>3. Node = 0..(NState + m) - 1
  BY <1>2b, Zenon DEF Node
<1>4. IsFiniteSet(Node)
  BY <1>1, <1>2, <1>3, FS_Interval
<1> QED BY <1>1, <1>2, <1>3, <1>4, FS_CardinalityType DEF Parsed

(* A closure has what it starts from, and next leads nowhere else. *)
LEMMA ClosureFacts ==
  ASSUME NEW S \in SUBSET Node, NEW next, \A q \in Node : next[q] \subseteq Node
  PROVE  /\ S \subseteq Closure(S, next) /\ Closure(S, next) \subseteq Node
         /\ \A q \in Closure(S, next) : next[q] \subseteq Closure(S, next)
<1> QED BY NodeFacts, WithinIsClosed DEF Closure

(* A set that next does not lead out of is not left by a closure. *)
LEMMA ClosureStays ==
  ASSUME NEW U, NEW S \in SUBSET U, NEW next, \A q \in U : next[q] \subseteq U
  PROVE  Closure(S, next) \subseteq U
<1> DEFINE N == Cardinality(Node)
<1>1. N \in Nat
  BY NodeFacts
<1>2. Within(S, next, N) \in Walks(U, S, next, N)
  BY <1>1, WithinFacts
<1> QED BY <1>1, <1>2 DEF Closure, Walks

(* The transitions of an NFA, and what they lead to. *)
Transitions == [Node -> SUBSET (Symbol \X Node)]

LEMMA TransitionFacts ==
  ASSUME NEW tx \in Transitions
  PROVE  /\ \A q \in Node : Targets(tx, q) \subseteq Node
         /\ \A q \in Node : \A t \in tx[q] : t = <<t[1], t[2]>> /\ t[1] \in Symbol /\ t[2] \in Node
         /\ \A q \in Node : \A t \in tx[q] : t[2] \in Targets(tx, q)
<1>1. \A q \in Node : \A t \in tx[q] : t = <<t[1], t[2]>> /\ t[1] \in Symbol /\ t[2] \in Node
  <2> SUFFICES ASSUME NEW q \in Node, NEW t \in tx[q]
               PROVE  t = <<t[1], t[2]>> /\ t[1] \in Symbol /\ t[2] \in Node
    OBVIOUS
  <2>1. t \in Symbol \X Node
    BY DEF Transitions
  <2> QED BY <2>1
<1> QED BY <1>1 DEF Targets

LEMMA ReachableFacts ==
  ASSUME NEW tx \in Transitions, NEW S \in SUBSET Node
  PROVE  /\ S \subseteq Reachable(tx, S) /\ Reachable(tx, S) \subseteq Node
         /\ \A q \in Reachable(tx, S) : Targets(tx, q) \subseteq Reachable(tx, S)
<1> DEFINE next == [q \in Node |-> Targets(tx, q)]
<1>1. \A q \in Node : next[q] = Targets(tx, q) /\ next[q] \subseteq Node
  BY TransitionFacts
<1>2. Reachable(tx, S) = Closure(S, next)
  BY DEF Reachable
<1> HIDE DEF next
<1>3. /\ S \subseteq Closure(S, next) /\ Closure(S, next) \subseteq Node
      /\ \A q \in Closure(S, next) : next[q] \subseteq Closure(S, next)
  BY <1>1, ClosureFacts
<1> QED BY <1>1, <1>2, <1>3

LEMMA TailFacts ==
  ASSUME NEW tx \in Transitions, NEW r \in Node
  PROVE  /\ r \in TailStates(tx, r) /\ TailStates(tx, r) \subseteq Node
         /\ \A q \in TailStates(tx, r) : ~Masks(tx, q) => Targets(tx, q) \subseteq TailStates(tx, r)
<1> DEFINE next == [p \in Node |-> IF Masks(tx, p) THEN {} ELSE Targets(tx, p)]
<1>1. \A q \in Node : next[q] \subseteq Node /\ (~Masks(tx, q) => next[q] = Targets(tx, q))
  BY TransitionFacts
<1>2. TailStates(tx, r) = Closure({r}, next)
  BY DEF TailStates
<1> HIDE DEF next
<1>3. {r} \in SUBSET Node
  OBVIOUS
<1>4. /\ {r} \subseteq Closure({r}, next) /\ Closure({r}, next) \subseteq Node
      /\ \A q \in Closure({r}, next) : next[q] \subseteq Closure({r}, next)
  BY <1>1, <1>3, ClosureFacts
<1> QED BY <1>1, <1>2, <1>4

(* The initial state has depth 0. *)
LEMMA DepthOfInitial ==
  ASSUME nfa \in Nfas
  PROVE  depth(0) = 0
<1> DEFINE next == [p \in Parsed |-> Targets(nfa.transitions, p)]
           within == Within({0}, next, NState)
<1>1. \A q \in Parsed : Targets(nfa.transitions, q) \subseteq Parsed
  <2> SUFFICES ASSUME NEW q \in Parsed, NEW t \in nfa.transitions[q] PROVE t[2] \in Parsed
    BY DEF Targets
  <2>1. nfa.transitions[q] \in SUBSET (Symbol \X Parsed)
    BY HybridAssumption
  <2> QED BY <2>1
<1>2. \A q \in Parsed : next[q] \subseteq Parsed
  BY <1>1
<1>3. {0} \in SUBSET Parsed /\ NState \in Nat
  BY NodeFacts
<1> HIDE DEF next
<1>4. within \in Walks(Parsed, {0}, next, NState)
  BY <1>2, <1>3, WithinFacts
<1>5. within[0] = {0}
  BY <1>4 DEF Walks
<1>6. depth(0) = IF \E k \in 0..NState : 0 \in within[k]
                 THEN CHOOSE k \in 0..NState : 0 \in within[k] /\ \A m \in 0..k-1 : 0 \notin within[m]
                 ELSE UNDEFINED
  BY DEF depth, next
<1> HIDE DEF within
<1>7. 0 \in 0..NState /\ 0..0-1 = {}
  BY <1>3
<1>8. \A k \in 0..NState : (0 \in within[k] /\ \A m \in 0..k-1 : 0 \notin within[m]) <=> k = 0
  <2> TAKE k \in 0..NState
  <2>1. CASE k = 0
    BY <1>5, <1>7, <2>1
  <2>2. CASE k # 0
    <3>1. 0 \in 0..k-1
      BY <1>3, <2>2
    <3> QED BY <1>5, <2>2, <3>1
  <2> QED BY <2>1, <2>2
<1> QED BY <1>5, <1>6, <1>7, <1>8

-----------------------------------------------------------------------------
(* The NFA: what has been split is typed, and what has not is as it was.    *)
Lifted(f) == [q \in Node |-> IF q \in Parsed THEN f[q] ELSE {}]

NfaOK ==
  /\ nfa \in Nfas
  /\ transitions \in Transitions /\ accepting \in [Node -> SUBSET Rule]
  /\ to_correct \subseteq Parsed /\ copies \in Nat
  /\ pc = "optimize" => copies = 0
  /\ copies = 0 => transitions = Lifted(nfa.transitions) /\ accepting = Lifted(nfa.accepting)

LEMMA NfaFacts ==
  ASSUME nfa \in Nfas
  PROVE  /\ nfa.transitions \in [Parsed -> SUBSET (Symbol \X Parsed)]
         /\ nfa.accepting \in [Parsed -> SUBSET Rule] /\ nfa.first \in [Parsed -> Parsed]
         /\ Lifted(nfa.transitions) \in Transitions /\ Lifted(nfa.accepting) \in [Node -> SUBSET Rule]
         /\ \A q \in Parsed : Targets(Lifted(nfa.transitions), q) \subseteq Parsed
<1>1. /\ nfa.transitions \in [Parsed -> SUBSET (Symbol \X Parsed)]
      /\ nfa.accepting \in [Parsed -> SUBSET Rule] /\ nfa.first \in [Parsed -> Parsed]
  BY HybridAssumption
<1>2. Parsed \subseteq Node
  BY NodeFacts
<1>3. \A q \in Parsed : Lifted(nfa.transitions)[q] = nfa.transitions[q]
  BY <1>2 DEF Lifted
<1>4. \A q \in Parsed : \A t \in nfa.transitions[q] : t[2] \in Parsed
  <2> TAKE q \in Parsed
  <2>1. nfa.transitions[q] \in SUBSET (Symbol \X Parsed)
    BY <1>1
  <2> QED BY <2>1
<1>5. \A q \in Node : (IF q \in Parsed THEN nfa.transitions[q] ELSE {}) \in SUBSET (Symbol \X Node)
  <2>1. SUBSET (Symbol \X Parsed) \subseteq SUBSET (Symbol \X Node)
    BY <1>2
  <2>2. \A q \in Parsed : nfa.transitions[q] \in SUBSET (Symbol \X Node)
    BY <1>1, <2>1
  <2> QED BY <2>2
<1>6. Lifted(nfa.transitions) \in Transitions
  BY <1>5 DEF Lifted, Transitions
<1>7. Lifted(nfa.accepting) \in [Node -> SUBSET Rule]
  BY <1>1 DEF Lifted
<1> QED BY <1>1, <1>3, <1>4, <1>6, <1>7 DEF Targets

(* The states to be split are states of the NFA. *)
LEMMA FindStatesKeeps ==
  ASSUME NfaOK, FindStatesToCorrect
  PROVE  NfaOK'
<1> DEFINE next == [p \in Node |-> IF Candidate(p) THEN {} ELSE Targets(transitions, p)]
           found == Closure({0}, next)
<1>1. /\ pc = "optimize" /\ pc' = "correct" /\ to_correct' \subseteq found
      /\ UNCHANGED <<nfa, transitions, accepting, copies>>
  BY DEF FindStatesToCorrect
<1>2. /\ nfa \in Nfas /\ transitions = Lifted(nfa.transitions)
  BY <1>1 DEF NfaOK
<1>3. \A q \in Parsed : Targets(transitions, q) \subseteq Parsed
  BY <1>2, NfaFacts
<1>4. \A q \in Parsed : next[q] \subseteq Parsed
  BY <1>3, NodeFacts
<1> HIDE DEF next
<1>5. {0} \in SUBSET Parsed
  BY NodeFacts
<1>6. found \subseteq Parsed
  BY <1>4, <1>5, ClosureStays
<1> QED BY <1>1, <1>6 DEF NfaOK

LEMMA LeaveAloneKeeps ==
  ASSUME NfaOK, LeaveAlone
  PROVE  NfaOK'
BY DEF NfaOK, LeaveAlone

(* Splitting adds the copy, removes transitions and enters the copy. *)
LEMMA DuplicateTyped ==
  ASSUME NEW tx \in Transitions, NEW s \in Parsed, nfa \in Nfas, copies \in Nat,
         \A q \in Reachable(tx, {nfa.first[s]}) : CopyOf(q) \in Node
  PROVE  Duplicate(tx, s) \in Transitions /\ nfa.first[s] \in Reachable(tx, {nfa.first[s]})
         /\ Reachable(tx, {nfa.first[s]}) \subseteq Node
<1> DEFINE all == Reachable(tx, {nfa.first[s]})
           before(q) == q - NState * (copies + 1)
<1>1. {nfa.first[s]} \in SUBSET Node
  BY NfaFacts, NodeFacts
<1>2. /\ nfa.first[s] \in all /\ all \subseteq Node
      /\ \A q \in all : Targets(tx, q) \subseteq all
  BY <1>1, ReachableFacts
<1>3. \A q \in all : \A t \in tx[q] : <<t[1], CopyOf(t[2])>> \in Symbol \X Node
  <2> SUFFICES ASSUME NEW q \in all, NEW t \in tx[q]
               PROVE  t[1] \in Symbol /\ CopyOf(t[2]) \in Node
    OBVIOUS
  <2>1. q \in Node
    BY <1>2
  <2>2. t[1] \in Symbol /\ t[2] \in Targets(tx, q)
    BY <2>1, TransitionFacts
  <2>3. t[2] \in all
    BY <1>2, <2>2
  <2> QED BY <2>2, <2>3
<1>4. \A q \in Node : tx[q] \in SUBSET (Symbol \X Node)
  BY DEF Transitions
<1>5. Duplicate(tx, s) = [q \in Node |-> IF before(q) \in all
                                         THEN {<<t[1], CopyOf(t[2])>> : t \in tx[before(q)]} ELSE tx[q]]
  BY DEF Duplicate
<1> HIDE DEF all, before
<1>6. \A q \in Node : (IF before(q) \in all THEN {<<t[1], CopyOf(t[2])>> : t \in tx[before(q)]} ELSE tx[q])
                        \in SUBSET (Symbol \X Node)
  BY <1>3, <1>4
<1>7. Duplicate(tx, s) \in Transitions
  BY <1>5, <1>6 DEF Transitions
<1> QED BY <1>2, <1>7 DEF all

LEMMA OriginalSideTyped ==
  ASSUME NEW tx \in Transitions, NEW s
  PROVE  OriginalSide(tx, s) \in Transitions
<1>1. \A q \in Node : tx[q] \in SUBSET (Symbol \X Node)
  BY DEF Transitions
<1> DEFINE Allowed(q) == {t \in tx[q] : t[1] \in SelfChars(tx, s) /\ t[2] \in Kept(tx, s)}
           processed == Closure({s}, [q \in Node |-> IF Masks(tx, q) THEN {} ELSE {t[2] : t \in Allowed(q)}])
<1>2. OriginalSide(tx, s) = [q \in Node |-> IF q \in processed /\ ~Masks(tx, q) THEN Allowed(q) ELSE tx[q]]
  BY DEF OriginalSide
<1>3. \A q : Allowed(q) \subseteq tx[q]
  OBVIOUS
<1> HIDE DEF Allowed, processed
<1>4. \A q \in Node : (IF q \in processed /\ ~Masks(tx, q) THEN Allowed(q) ELSE tx[q]) \in SUBSET (Symbol \X Node)
  BY <1>1, <1>3
<1> QED BY <1>2, <1>4 DEF Transitions

LEMMA CopySideTyped ==
  ASSUME NEW tx \in Transitions, NEW copy, NEW chars
  PROVE  CopySide(tx, copy, chars).transitions \in Transitions
<1>1. \A q \in Node : tx[q] \in SUBSET (Symbol \X Node)
  BY DEF Transitions
<1> DEFINE Forbidden(q) == {t \in tx[q] : t[1] \notin chars}
           marked == {q \in TailStates(tx, copy) : ~Masks(tx, q) /\ Forbidden(q) # {}}
           before == Closure(marked, [q \in Node |-> {p \in Reachable(tx, {copy}) : q \in Targets(tx, p)}])
           all == before \cup Reachable(tx, {t[2] : t \in UNION {Forbidden(q) : q \in marked}})
           reachable == IF copy \in all THEN all ELSE {}
           Removed(q) == {t \in tx[q] : \/ t[2] \notin reachable
                                        \/ t[1] \in chars /\ \E f \in Forbidden(q) : f[2] = t[2] /\ f[2] # q}
<1>2. CopySide(tx, copy, chars).transitions =
        [q \in Node |-> IF q \in reachable THEN tx[q] \ Removed(q) ELSE tx[q]]
  BY DEF CopySide
<1> HIDE DEF reachable, Removed
<1>3. \A q \in Node : (IF q \in reachable THEN tx[q] \ Removed(q) ELSE tx[q]) \in SUBSET (Symbol \X Node)
  BY <1>1
<1> QED BY <1>2, <1>3 DEF Transitions

LEMMA EnterCopyTyped ==
  ASSUME NEW tx \in Transitions, NEW s, NEW copy \in Node
  PROVE  EnterCopy(tx, s, copy) \in Transitions
<1>1. \A q \in Node : tx[q] \in SUBSET (Symbol \X Node)
  BY DEF Transitions
<1> DEFINE Added(q) == {<<t[1], copy>> : t \in {t \in tx[q] : t[2] = s}}
<1>2. \A q \in Node : Added(q) \in SUBSET (Symbol \X Node)
  <2> SUFFICES ASSUME NEW q \in Node, NEW t \in tx[q] PROVE <<t[1], copy>> \in Symbol \X Node
    OBVIOUS
  <2> QED BY TransitionFacts
<1>3. EnterCopy(tx, s, copy) = [q \in Node |-> IF q \in Reachable(tx, {0}) /\ q # s
                                               THEN tx[q] \cup Added(q) ELSE tx[q]]
  BY DEF EnterCopy
<1> HIDE DEF Added
<1>4. \A q \in Node : (IF q \in Reachable(tx, {0}) /\ q # s THEN tx[q] \cup Added(q) ELSE tx[q])
                        \in SUBSET (Symbol \X Node)
  BY <1>1, <1>2
<1> QED BY <1>3, <1>4 DEF Transitions

LEMMA CorrectKeeps ==
  ASSUME NfaOK, Correct
  PROVE  NfaOK'
<1>1. PICK s \in to_correct :
        /\ \A q \in Reachable(transitions, {nfa.first[s]}) : CopyOf(q) \in Node
        /\ LET original == OriginalSide(Duplicate(transitions, s), s)
               copy == CopyOf(nfa.first[s])
               side == CopySide(original, copy, SelfChars(transitions, s))
           IN transitions' = IF copy \in side.keeps THEN EnterCopy(side.transitions, s, copy)
                             ELSE side.transitions
        /\ to_correct' = to_correct \ {s}
        /\ accepting' = [q \in Node |-> IF q - NState * (copies + 1) \in Reachable(transitions, {nfa.first[s]})
                                        THEN accepting[q - NState * (copies + 1)] ELSE accepting[q]]
  BY DEF Correct
<1>2. pc = "correct" /\ pc' = pc /\ nfa' = nfa /\ copies' = copies + 1
  BY DEF Correct
<1>3. /\ nfa \in Nfas /\ transitions \in Transitions /\ accepting \in [Node -> SUBSET Rule]
      /\ to_correct \subseteq Parsed /\ copies \in Nat /\ s \in Parsed
  BY DEF NfaOK
<1> DEFINE copy == CopyOf(nfa.first[s])
           all == Reachable(transitions, {nfa.first[s]})
           before(q) == q - NState * (copies + 1)
           original == OriginalSide(Duplicate(transitions, s), s)
           chars == SelfChars(transitions, s)
           side == CopySide(original, copy, chars)
<1>4. /\ Duplicate(transitions, s) \in Transitions /\ nfa.first[s] \in all /\ all \subseteq Node
  BY <1>1, <1>3, DuplicateTyped
<1>5. copy \in Node
  BY <1>1, <1>4
<1>6. original \in Transitions
  BY <1>4, OriginalSideTyped
<1>7. transitions' = IF copy \in side.keeps THEN EnterCopy(side.transitions, s, copy) ELSE side.transitions
  BY <1>1
<1>8. accepting' = [q \in Node |-> IF before(q) \in all THEN accepting[before(q)] ELSE accepting[q]]
  BY <1>1
<1> HIDE DEF original, copy, chars, all, before
<1>9. side.transitions \in Transitions
  BY <1>6, CopySideTyped
<1> HIDE DEF side
<1>10. transitions' \in Transitions
  <2>1. CASE copy \in side.keeps
    BY <1>5, <1>7, <1>9, <2>1, EnterCopyTyped
  <2>2. CASE copy \notin side.keeps
    BY <1>7, <1>9, <2>2
  <2> QED BY <2>1, <2>2
<1>11. accepting' \in [Node -> SUBSET Rule]
  BY <1>3, <1>4, <1>8
<1>12. to_correct' \subseteq Parsed /\ copies' \in Nat /\ copies' # 0
  BY <1>1, <1>2, <1>3
<1> QED BY <1>2, <1>3, <1>10, <1>11, <1>12 DEF NfaOK

-----------------------------------------------------------------------------
(* A state whose tail is only left when it is: it masks all symbols, or its *)
(* tail has only symbols it loops on.                                      *)
Tied(tx, q) ==
  /\ Cardinality(SelfChars(tx, q)) > MAX_TX
  /\ Masks(tx, q) \/ ~ExcludedInTail(tx, q)

RulesIn(acc, S) == UNION {acc[q] : q \in S}

(* A row of a head stands for a set of states of the NFA: it has the rules  *)
(* of the set, its border is a part of the set, and a symbol leads it to a  *)
(* row that stands for what the rest of the set is led to.                 *)
Row_Rules(x, acc, rules) == rules[x[1]] = RulesIn(acc, x[2])
Row_Border(x, tx, bd) == bd[x[1]] \subseteq x[2] /\ \A q \in bd[x[1]] : Tied(tx, q)
Row_Next(x, R, tx, table, bd) ==
  \A c \in Symbol : <<table[x[1]][c], NfaStep(tx, x[2] \ bd[x[1]], c)>> \in R

IsHead(R, tx, acc, table, rules, bd) ==
  \A x \in R : /\ Row_Rules(x, acc, rules) /\ Row_Border(x, tx, bd)
               /\ Row_Next(x, R, tx, table, bd)

(* The rows of a head that has not been minimized are numbered. *)
Numbered(sets, n) == {<<s, sets[s + 1]>> : s \in 0..n-1}

InQueue(s) == \E n \in 1..Len(queue) : queue[n] = s

BuildInv ==
  /\ size \in Nat \ {0} /\ subsets \in Seq(SUBSET Node) /\ Len(subsets) = size
  /\ subsets[1] = {0}
  /\ queue \in Seq(0..size-1)
  /\ DOMAIN state_table \subseteq 0..size-1
  /\ \A s \in 0..size-1 : s \in DOMAIN state_table \/ InQueue(s)
  /\ accepted_rules = [s \in 0..size-1 |-> RulesIn(accepting, subsets[s + 1])]
  /\ border \in [0..size-1 -> SUBSET Node] /\ border[0] = {}
  /\ \A s \in 0..size-1 : Row_Border(<<s, subsets[s + 1]>>, transitions, border)
  /\ \A s \in DOMAIN state_table :
       /\ state_table[s] \in [Symbol -> 0..size-1]
       /\ Row_Next(<<s, subsets[s + 1]>>, Numbered(subsets, size), transitions, state_table, border)
  /\ state_table = [s \in DOMAIN state_table |-> state_table[s]]
  /\ dead_state \in 0..size-1 \cup {NO_STATE}

LEMMA StepFacts ==
  ASSUME NEW tx \in Transitions, NEW c
  PROVE  /\ \A S \in SUBSET Node : NfaStep(tx, S, c) \in SUBSET Node
         /\ \A S, T \in SUBSET Node : NfaStep(tx, S \cup T, c) = NfaStep(tx, S, c) \cup NfaStep(tx, T, c)
         /\ \A S \in SUBSET Node : \A p : p \in NfaStep(tx, S, c) <=> \E q \in S : <<c, p>> \in tx[q]
<1>1. ASSUME NEW S \in SUBSET Node, NEW p
      PROVE  p \in NfaStep(tx, S, c) <=> \E q \in S : <<c, p>> \in tx[q]
  <2>1. ASSUME NEW q \in S, <<c, p>> \in tx[q] PROVE p \in NfaStep(tx, S, c)
    <3>1. <<c, p>> \in UNION {tx[r] : r \in S} /\ <<c, p>>[1] = c /\ <<c, p>>[2] = p
      BY <2>1
    <3>2. <<c, p>> \in {t \in UNION {tx[r] : r \in S} : t[1] = c}
      BY <3>1
    <3> QED BY <3>1, <3>2 DEF NfaStep
  <2>2. ASSUME p \in NfaStep(tx, S, c) PROVE \E q \in S : <<c, p>> \in tx[q]
    <3>1. PICK t \in {t \in UNION {tx[q] : q \in S} : t[1] = c} : p = t[2]
      BY <2>2 DEF NfaStep
    <3>2. PICK q \in S : t \in tx[q]
      BY <3>1
    <3>3. t = <<t[1], t[2]>>
      BY <3>2, TransitionFacts
    <3>4. t[1] = c
      BY <3>1
    <3> QED BY <3>1, <3>2, <3>3, <3>4
  <2> QED BY <2>1, <2>2
<1>2. ASSUME NEW S \in SUBSET Node PROVE NfaStep(tx, S, c) \in SUBSET Node
  <2>1. \A q \in S : \A p : <<c, p>> \in tx[q] => p \in Node
    <3> TAKE q \in S
    <3> TAKE p
    <3>1. tx[q] \in SUBSET (Symbol \X Node)
      BY DEF Transitions
    <3> QED BY <3>1
  <2> QED BY <1>1, <2>1
<1>3. ASSUME NEW S \in SUBSET Node, NEW T \in SUBSET Node
      PROVE  NfaStep(tx, S \cup T, c) = NfaStep(tx, S, c) \cup NfaStep(tx, T, c)
  <2>1. S \cup T \in SUBSET Node
    OBVIOUS
  <2>2. \A p : p \in NfaStep(tx, S \cup T, c) <=> p \in NfaStep(tx, S, c) \/ p \in NfaStep(tx, T, c)
    BY <1>1, <2>1
  <2> QED BY <2>2
<1> QED BY <1>1, <1>2, <1>3

(* The head is built from the set of the initial state alone. *)
LEMMA BuildFirstKeeps ==
  ASSUME NfaOK, BuildFirst, dead_state = NO_STATE, UNCHANGED <<transitions, accepting>>
  PROVE  BuildInv'
<1>1. /\ subsets' = <<{0}>> /\ queue' = <<0>> /\ size' = 1
      /\ accepted_rules' = [s \in {0} |-> accepting[0]] /\ state_table' = [s \in {} |-> 0]
      /\ border' = [s \in {0} |-> {}] /\ dead_state' = NO_STATE
      /\ transitions' = transitions /\ accepting' = accepting
  BY DEF BuildFirst
<1>2. 0..1-1 = {0} /\ {0} \in SUBSET Node
  BY NodeFacts
<1>3. DOMAIN state_table' = {} /\ state_table' = [s \in DOMAIN state_table' |-> state_table'[s]]
  BY <1>1
<1>4. queue' \in Seq(0..size'-1) /\ Len(queue') = 1 /\ queue'[1] = 0
  BY <1>1, <1>2
<1>5. subsets' \in Seq(SUBSET Node) /\ Len(subsets') = 1 /\ subsets'[1] = {0}
  BY <1>1, <1>2
<1>6. \A s \in 0..size'-1 : \E n \in 1..Len(queue') : queue'[n] = s
  BY <1>1, <1>2, <1>4
<1>7. accepted_rules' = [s \in 0..size'-1 |-> RulesIn(accepting, subsets'[s + 1])]
  <2>1. RulesIn(accepting, {0}) = accepting[0]
    BY DEF RulesIn
  <2>2. 0 + 1 = 1
    OBVIOUS
  <2> QED BY <1>1, <1>2, <1>5, <2>1, <2>2
<1>8. \A s \in 0..size'-1 : border'[s] = {}
  BY <1>1, <1>2
<1>9. \A s \in 0..size'-1 : Row_Border(<<s, subsets'[s + 1]>>, transitions, border')
  BY <1>8 DEF Row_Border
<1>10. border' \in [0..size'-1 -> SUBSET Node] /\ border'[0] = {}
  BY <1>1, <1>2
<1>11. size' \in Nat \ {0} /\ size' = Len(subsets')
  BY <1>1, <1>5
<1> QED BY <1>1, <1>3, <1>4, <1>5, <1>6, <1>7, <1>9, <1>10, <1>11 DEF BuildInv, InQueue

(* Every set that a symbol leads to has a number among the old sets and the *)
(* new ones, of which every one is counted at its first symbol.            *)
LEMMA NewSubsetsFacts ==
  ASSUME subsets \in Seq(SUBSET Node), NEW next \in [Symbol -> SUBSET Node]
  PROVE  /\ NewSubsets(next) \in Seq(SUBSET Node)
         /\ \A c \in Symbol : \/ \E n \in 1..Len(subsets) : subsets[n] = next[c]
                              \/ \E n \in 1..Len(NewSubsets(next)) : NewSubsets(next)[n] = next[c]
<1> DEFINE new == {c \in Symbol : ~Contains(subsets, next[c]) /\ \A b \in 0..c-1 : next[b] # next[c]}
           at(n) == CHOOSE c \in new : Rank(new, c) = n
<1>1. CSize \in Nat \ {0} /\ Symbol = 0..CSize-1
  BY DfaAssumption DEF Symbol
<1>2. IsFiniteSet(Symbol) /\ Symbol \subseteq Int
  <2>1. 0 \in Int /\ CSize - 1 \in Int
    BY <1>1
  <2> QED BY <1>1, <2>1, FS_Interval
<1>3. new \in SUBSET Int /\ new \subseteq Symbol
  BY <1>2
<1>4. IsFiniteSet(new)
  BY <1>2, <1>3, FS_Subset
<1>5. NewSubsets(next) = [n \in 1..Cardinality(new) |-> next[at(n)]]
  BY DEF NewSubsets, Rank
<1>6. \A c \in Symbol : ~Contains(subsets, next[c]) => \E b \in new : next[b] = next[c]
  <2> SUFFICES ASSUME NEW c \in Symbol, ~Contains(subsets, next[c])
               PROVE  \E b \in new : next[b] = next[c]
    OBVIOUS
  <2> DEFINE Equal == {b \in Symbol : next[b] = next[c]}
  <2>1. Equal \in SUBSET Nat /\ c \in Equal
    BY <1>1
  <2>2. PICK b \in Equal : \A a \in Equal : b <= a
    BY <2>1, LeastElement
  <2>3. b \in Symbol /\ next[b] = next[c]
    BY <2>2
  <2>4. \A a \in 0..b-1 : next[a] # next[b]
    <3> SUFFICES ASSUME NEW a \in 0..b-1, next[a] = next[b] PROVE FALSE
      OBVIOUS
    <3>1. a \in Symbol /\ ~(b <= a)
      BY <1>1, <2>3
    <3> QED BY <2>2, <2>3, <3>1
  <2>5. b \in new
    BY <2>3, <2>4
  <2> QED BY <2>3, <2>5
<1>8. \A n : at(n) = CHOOSE c \in new : Rank(new, c) = n
  OBVIOUS
<1> HIDE DEF at, new
<1>9. /\ Cardinality(new) \in Nat
      /\ \A c \in new : Rank(new, c) \in 1..Cardinality(new)
      /\ \A b, c \in new : b < c => Rank(new, b) < Rank(new, c)
      /\ \A n \in 1..Cardinality(new) : \E c \in new : Rank(new, c) = n
  BY <1>3, <1>4, Ranks
<1>10. \A n \in 1..Cardinality(new) : at(n) \in new
  <2> TAKE n \in 1..Cardinality(new)
  <2>1. \E c \in new : Rank(new, c) = n
    BY <1>9
  <2> QED BY <1>8, <2>1
<1>11. \A c \in new : at(Rank(new, c)) = c
  <2> TAKE c \in new
  <2> DEFINE d == at(Rank(new, c))
  <2>1. d \in new /\ Rank(new, d) = Rank(new, c)
    BY <1>8
  <2> HIDE DEF d
  <2>2. c \in Int /\ d \in Int /\ Rank(new, c) \in Int
    BY <1>3, <1>9, <2>1
  <2>3. ~(c < d) /\ ~(d < c)
    BY <1>9, <2>1, <2>2
  <2>4. d = c
    BY <2>2, <2>3
  <2> QED BY <2>4 DEF d
<1>12. \A n \in 1..Cardinality(new) : next[at(n)] \in SUBSET Node
  BY <1>3, <1>10
<1>13. /\ NewSubsets(next) \in Seq(SUBSET Node) /\ Len(NewSubsets(next)) = Cardinality(new)
       /\ \A n \in 1..Cardinality(new) : NewSubsets(next)[n] = next[at(n)]
  BY <1>5, <1>9, <1>12
<1>14. ASSUME NEW c \in Symbol
       PROVE  \/ \E n \in 1..Len(subsets) : subsets[n] = next[c]
              \/ \E n \in 1..Len(NewSubsets(next)) : NewSubsets(next)[n] = next[c]
  <2>1. CASE Contains(subsets, next[c])
    BY <2>1 DEF Contains
  <2>2. CASE ~Contains(subsets, next[c])
    <3>1. PICK b \in new : next[b] = next[c]
      BY <1>6, <2>2
    <3>2. Rank(new, b) \in 1..Cardinality(new) /\ at(Rank(new, b)) = b
      BY <1>9, <1>11
    <3> QED BY <1>13, <3>1, <3>2
  <2> QED BY <2>1, <2>2
<1> QED BY <1>13, <1>14

(* A special state has a tail that is tied to it; the initial state is none. *)
LEMMA SpecialFacts ==
  ASSUME NfaOK, NEW q, special(q)
  PROVE  Tied(transitions, q) /\ q # 0
<1>1. q # 0
  <2>1. ~(depth(0) >= SPECIAL_MIN_DEPTH)
    BY DepthOfInitial, HybridAssumption DEF NfaOK
  <2> QED BY <2>1 DEF special
<1> QED BY <1>1 DEF special, Tied

LEMMA SuccessorsFacts ==
  \A S : \A c \in Symbol : Successors(S)[c] = NfaStep(transitions, S, c)
BY DEF Successors, NfaStep

LEMMA ExpandKeeps ==
  ASSUME NfaOK, BuildInv, Expand, UNCHANGED <<transitions, accepting>>
  PROVE  BuildInv'
<1> DEFINE s == Head(queue)
           specials == {q \in subsets[s + 1] : special(q)}
           rest == subsets[s + 1] \ specials
           next == Successors(rest)
           new == NewSubsets(next)
           all == subsets \o new
           row == [c \in Symbol |-> StateOf(all, next[c])]
<1>1. /\ queue # <<>>
      /\ border' = [n \in 0..Len(all)-1 |-> IF n = s THEN specials ELSE IF n < size THEN border[n] ELSE {}]
      /\ subsets' = all /\ size' = Len(all)
      /\ accepted_rules' = [n \in 0..Len(all)-1 |-> RulesOf(all[n + 1])]
      /\ queue' = Tail(queue) \o [n \in 1..(Len(all) - size) |-> size + n - 1]
      /\ state_table' = [n \in DOMAIN state_table \cup {s} |->
                           IF n = s THEN row ELSE state_table[n]]
      /\ dead_state' = IF dead_state = NO_STATE /\ Contains(all, {}) THEN StateOf(all, {}) ELSE dead_state
      /\ transitions' = transitions /\ accepting' = accepting
  BY DEF Expand
<1>2. /\ size \in Nat \ {0} /\ subsets \in Seq(SUBSET Node) /\ Len(subsets) = size
      /\ subsets[1] = {0} /\ queue \in Seq(0..size-1)
      /\ DOMAIN state_table \subseteq 0..size-1
      /\ \A n \in 0..size-1 : n \in DOMAIN state_table \/ InQueue(n)
      /\ border \in [0..size-1 -> SUBSET Node] /\ border[0] = {}
      /\ \A n \in 0..size-1 : Row_Border(<<n, subsets[n + 1]>>, transitions, border)
      /\ dead_state \in 0..size-1 \cup {NO_STATE}
      /\ transitions \in Transitions /\ accepting \in [Node -> SUBSET Rule]
  BY DEF BuildInv, NfaOK
<1>3. \A n \in DOMAIN state_table :
        /\ state_table[n] \in [Symbol -> 0..size-1]
        /\ Row_Next(<<n, subsets[n + 1]>>, Numbered(subsets, size), transitions, state_table, border)
  BY DEF BuildInv
<1>4. s \in 0..size-1 /\ subsets[s + 1] \in SUBSET Node /\ rest \in SUBSET Node
  <2>1. s \in 0..size-1
    BY <1>1, <1>2
  <2>2. subsets[s + 1] \in SUBSET Node
    BY <1>2, <2>1
  <2> QED BY <2>1, <2>2
<1>5. \A q \in specials : Tied(transitions, q) /\ q # 0
  BY SpecialFacts
<1>6. specials \subseteq subsets[s + 1] /\ rest = subsets[s + 1] \ specials
  OBVIOUS
<1> HIDE DEF specials, rest, s
<1>7. \A c \in Symbol : next[c] = NfaStep(transitions, rest, c) /\ next[c] \in SUBSET Node
  <2>1. \A c \in Symbol : next[c] = NfaStep(transitions, rest, c)
    BY SuccessorsFacts
  <2>2. \A c \in Symbol : NfaStep(transitions, rest, c) \in SUBSET Node
    BY <1>2, <1>4, StepFacts
  <2> QED BY <2>1, <2>2
<1>8. next \in [Symbol -> SUBSET Node]
  BY <1>7 DEF Successors
<1> HIDE DEF next
<1>9. new \in Seq(SUBSET Node) /\ \A c \in Symbol : \/ \E n \in 1..Len(subsets) : subsets[n] = next[c]
                                                    \/ \E n \in 1..Len(new) : new[n] = next[c]
  BY <1>2, <1>8, NewSubsetsFacts
<1> HIDE DEF new
<1>10. /\ all \in Seq(SUBSET Node) /\ Len(all) = size + Len(new) /\ Len(new) \in Nat
       /\ \A n \in 1..size : all[n] = subsets[n]
       /\ \A n \in 1..Len(new) : all[size + n] = new[n]
  <2>1. subsets \in Seq(SUBSET Node) /\ new \in Seq(SUBSET Node) /\ Len(subsets) = size
    BY <1>2, <1>9
  <2>2. /\ subsets \o new \in Seq(SUBSET Node) /\ Len(subsets \o new) = Len(subsets) + Len(new)
        /\ \A n \in 1..Len(subsets) + Len(new) :
             (subsets \o new)[n] = IF n <= Len(subsets) THEN subsets[n] ELSE new[n - Len(subsets)]
    BY <2>1, ConcatProperties
  <2>3. Len(new) \in Nat /\ size \in Nat
    BY <1>2, <2>1
  <2>4. \A n \in 1..size : n \in 1..size + Len(new) /\ n <= size
    BY <2>3
  <2>5. \A n \in 1..Len(new) : size + n \in 1..size + Len(new) /\ ~(size + n <= size) /\ (size + n) - size = n
    BY <2>3
  <2> QED BY <2>1, <2>2, <2>3, <2>4, <2>5
<1> HIDE DEF all
<1>11. Len(all) \in Nat \ {0} /\ 0..size-1 \subseteq 0..Len(all)-1 /\ DOMAIN all = 1..Len(all)
  BY <1>2, <1>10
<1>12. \A S : Contains(all, S) => StateOf(all, S) \in 0..Len(all)-1 /\ all[StateOf(all, S) + 1] = S
  <2> SUFFICES ASSUME NEW S, Contains(all, S)
               PROVE  StateOf(all, S) \in 0..Len(all)-1 /\ all[StateOf(all, S) + 1] = S
    OBVIOUS
  <2> DEFINE m == CHOOSE n \in DOMAIN all : all[n] = S
  <2>1. \E n \in DOMAIN all : all[n] = S
    BY <1>11 DEF Contains
  <2>2. m \in DOMAIN all /\ all[m] = S
    BY <2>1
  <2>3. StateOf(all, S) = m - 1
    BY DEF StateOf
  <2> HIDE DEF m
  <2>4. m \in 1..Len(all) /\ (m - 1) + 1 = m
    BY <1>11, <2>2
  <2> QED BY <1>11, <2>2, <2>3, <2>4
<1>13. \A c \in Symbol : Contains(all, next[c])
  <2> SUFFICES ASSUME NEW c \in Symbol PROVE \E n \in 1..Len(all) : all[n] = next[c]
    BY DEF Contains
  <2>1. CASE \E n \in 1..Len(subsets) : subsets[n] = next[c]
    BY <1>2, <1>10, <2>1
  <2>2. CASE \E n \in 1..Len(new) : new[n] = next[c]
    <3>1. PICK n \in 1..Len(new) : new[n] = next[c]
      BY <2>2
    <3>2. size + n \in 1..Len(all) /\ all[size + n] = next[c]
      BY <1>2, <1>10, <3>1
    <3> QED BY <3>2
  <2> QED BY <1>9, <2>1, <2>2
<1>14. row \in [Symbol -> 0..Len(all)-1] /\ \A c \in Symbol : all[row[c] + 1] = next[c]
  BY <1>12, <1>13
<1> HIDE DEF row
<1>15. s \in 0..Len(all)-1 /\ all[s + 1] = subsets[s + 1]
  BY <1>2, <1>4, <1>10, <1>11
(* the rows *)
<1>16. border' \in [0..Len(all)-1 -> SUBSET Node] /\ border'[0] = {}
  <2>1. specials \in SUBSET Node
    BY <1>4, <1>6
  <2>2. \A n \in 0..Len(all)-1 :
          (IF n = s THEN specials ELSE IF n < size THEN border[n] ELSE {}) \in SUBSET Node
    BY <1>2, <2>1
  <2>3. s = 0 => specials = {}
    BY <1>2, <1>5, <1>6
  <2>4. 0 \in 0..Len(all)-1 /\ 0 < size
    BY <1>2, <1>11
  <2> QED BY <1>1, <1>2, <2>2, <2>3, <2>4
<1>17. ASSUME NEW n \in 0..Len(all)-1 PROVE Row_Border(<<n, all[n + 1]>>, transitions, border')
  <2>1. CASE n = s
    <3>1. border'[n] = specials /\ all[n + 1] = subsets[s + 1]
      BY <1>1, <1>15, <2>1
    <3> QED BY <1>5, <1>6, <3>1 DEF Row_Border
  <2>2. CASE n # s /\ n < size
    <3>1. n \in 0..size-1 /\ n + 1 \in 1..size
      BY <1>2, <2>2
    <3>2. border'[n] = border[n] /\ all[n + 1] = subsets[n + 1]
      BY <1>1, <1>10, <2>2, <3>1
    <3> QED BY <1>2, <3>1, <3>2 DEF Row_Border
  <2>3. CASE n # s /\ ~(n < size)
    <3>1. border'[n] = {}
      BY <1>1, <2>3
    <3> QED BY <3>1 DEF Row_Border
  <2> QED BY <2>1, <2>2, <2>3
<1>18. ASSUME NEW n \in DOMAIN state_table'
       PROVE  /\ state_table'[n] \in [Symbol -> 0..Len(all)-1]
              /\ Row_Next(<<n, all[n + 1]>>, Numbered(all, Len(all)), transitions, state_table', border')
  <2>0. \A m \in 0..Len(all)-1 : <<m, all[m + 1]>> \in Numbered(all, Len(all))
    BY DEF Numbered
  <2>1. CASE n = s
    <3>1. state_table'[n] = row /\ border'[n] = specials /\ all[n + 1] = subsets[s + 1]
      BY <1>1, <1>15, <2>1
    <3>2. rest = all[n + 1] \ border'[n]
      BY <3>1 DEF rest
    <3>3. \A c \in Symbol : row[c] \in 0..Len(all)-1 /\ all[row[c] + 1] = NfaStep(transitions, rest, c)
      BY <1>7, <1>14
    <3>4. \A c \in Symbol : <<row[c], NfaStep(transitions, rest, c)>> \in Numbered(all, Len(all))
      BY <2>0, <3>3
    <3> QED BY <1>14, <3>1, <3>2, <3>4 DEF Row_Next
  <2>2. CASE n # s
    <3>1. n \in DOMAIN state_table /\ n \in 0..size-1 /\ n + 1 \in 1..size /\ n < size /\ n \in 0..Len(all)-1
      BY <1>1, <1>2, <1>11, <2>2
    <3>2. state_table'[n] = state_table[n] /\ border'[n] = border[n] /\ all[n + 1] = subsets[n + 1]
      BY <1>1, <1>10, <2>2, <3>1
    <3>3. state_table[n] \in [Symbol -> 0..size-1]
      BY <1>3, <3>1
    <3>4. \A x \in Numbered(subsets, size) : x \in Numbered(all, Len(all))
      <4> SUFFICES ASSUME NEW m \in 0..size-1 PROVE <<m, subsets[m + 1]>> \in Numbered(all, Len(all))
        BY DEF Numbered
      <4>1. m + 1 \in 1..size /\ m \in 0..Len(all)-1
        BY <1>2, <1>11
      <4> QED BY <1>10, <2>0, <4>1
    <3>5. \A c \in Symbol : <<state_table[n][c], NfaStep(transitions, subsets[n + 1] \ border[n], c)>>
                              \in Numbered(subsets, size)
      BY <1>3, <3>1 DEF Row_Next
    <3>6. state_table[n] \in [Symbol -> 0..Len(all)-1]
      BY <1>11, <3>3
    <3> QED BY <3>2, <3>4, <3>5, <3>6 DEF Row_Next
  <2> QED BY <2>1, <2>2
<1>19. DOMAIN state_table' \subseteq 0..Len(all)-1
       /\ state_table' = [n \in DOMAIN state_table' |-> state_table'[n]]
  BY <1>1, <1>2, <1>11, <1>15
(* the queue *)
<1> DEFINE found == [n \in 1..(Len(all) - size) |-> size + n - 1]
<1>20. found \in Seq(0..Len(all)-1) /\ Len(found) = Len(new)
  <2>1. Len(all) - size = Len(new)
    BY <1>2, <1>10
  <2>2. \A n \in 1..Len(new) : size + n - 1 \in 0..Len(all)-1
    BY <1>2, <1>10
  <2> QED BY <1>10, <2>1, <2>2
<1>21. /\ Tail(queue) \in Seq(0..Len(all)-1) /\ Len(Tail(queue)) = Len(queue) - 1 /\ Len(queue) \in Nat \ {0}
       /\ \A n \in 1..Len(queue)-1 : Tail(queue)[n] = queue[n + 1]
  <2>1. queue \in Seq(0..Len(all)-1)
    <3>1. Len(queue) \in Nat /\ queue \in [1..Len(queue) -> 0..size-1]
      BY <1>2
    <3>2. queue \in [1..Len(queue) -> 0..Len(all)-1]
      BY <1>11, <3>1
    <3> QED BY <3>1, <3>2
  <2>2. /\ Tail(queue) \in Seq(0..Len(all)-1) /\ Len(Tail(queue)) = Len(queue) - 1
        /\ \A n \in 1..Len(Tail(queue)) : Tail(queue)[n] = queue[n + 1]
    BY <1>1, <2>1, HeadTailProperties
  <2>3. Len(queue) \in Nat \ {0}
    BY <1>1, <2>1
  <2> QED BY <2>2, <2>3
<1>21a. /\ queue' \in Seq(0..Len(all)-1) /\ Len(queue') = Len(Tail(queue)) + Len(found)
        /\ \A n \in 1..Len(queue)-1 : queue'[n] = queue[n + 1]
        /\ \A n \in 1..Len(new) : queue'[Len(Tail(queue)) + n] = found[n]
  <2>1. queue' = Tail(queue) \o found
    BY <1>1
  <2> HIDE DEF found
  <2>2. /\ Tail(queue) \o found \in Seq(0..Len(all)-1)
        /\ Len(Tail(queue) \o found) = Len(Tail(queue)) + Len(found)
        /\ \A n \in 1..Len(Tail(queue)) + Len(found) :
             (Tail(queue) \o found)[n] = IF n <= Len(Tail(queue)) THEN Tail(queue)[n] ELSE found[n - Len(Tail(queue))]
    BY <1>20, <1>21, ConcatProperties
  <2>3. Len(Tail(queue)) \in Nat /\ Len(found) \in Nat /\ Len(queue)-1 = Len(Tail(queue))
    BY <1>10, <1>20, <1>21
  <2> DEFINE p == Len(Tail(queue))
             f == Len(found)
  <2>4. p \in Nat /\ f \in Nat
    BY <2>3
  <2> HIDE DEF p, f
  <2>5. \A n \in 1..p : n \in 1..p+f /\ n <= p
    BY <2>4
  <2>6. \A n \in 1..f : p + n \in 1..p+f /\ ~(p + n <= p) /\ (p + n) - p = n
    BY <2>4
  <2>7. \A n \in 1..p : queue'[n] = queue[n + 1]
    BY <1>21, <2>1, <2>2, <2>5 DEF p, f
  <2>8. \A n \in 1..f : queue'[p + n] = found[n]
    BY <2>1, <2>2, <2>6 DEF p, f
  <2> QED BY <1>20, <2>1, <2>2, <2>3, <2>7, <2>8 DEF p, f
<1>22. ASSUME NEW m \in 0..Len(all)-1
       PROVE  m \in DOMAIN state_table' \/ \E n \in 1..Len(queue') : queue'[n] = m
  <2>1. CASE m = s \/ m \in DOMAIN state_table
    BY <1>1, <2>1
  <2>2. CASE m < size /\ m # s /\ m \notin DOMAIN state_table
    <3>0. InQueue(m)
      <4>1. \A n \in 0..size-1 : n \in DOMAIN state_table \/ InQueue(n)
        BY <1>2
      <4>2. m \in 0..size-1
        BY <1>2, <2>2
      <4> HIDE DEF InQueue
      <4> QED BY <2>2, <4>1, <4>2
    <3>1. PICK n \in 1..Len(queue) : queue[n] = m
      BY <3>0 DEF InQueue
    <3>2. n # 1 /\ n - 1 \in 1..Len(queue)-1 /\ (n - 1) + 1 = n
      BY <2>2, <3>1 DEF s
    <3>3. queue'[n - 1] = m
      <4>1. queue'[n - 1] = queue[(n - 1) + 1]
        BY <1>21a, <3>2
      <4> QED BY <3>1, <3>2, <4>1
    <3>4. n - 1 \in 1..Len(queue')
      <4> HIDE DEF found
      <4>1. Len(queue') = (Len(queue) - 1) + Len(new) /\ Len(queue) \in Nat /\ Len(new) \in Nat
        BY <1>10, <1>20, <1>21, <1>21a
      <4> QED BY <3>2, <4>1
    <3> QED BY <3>3, <3>4
  <2>3. CASE ~(m < size)
    <3> DEFINE n == m - size + 1
    <3>1. n \in 1..Len(new) /\ found[n] = m
      BY <1>2, <1>10, <2>3
    <3> HIDE DEF n, found
    <3>2. Len(queue') = Len(Tail(queue)) + Len(found) /\ queue'[Len(Tail(queue)) + n] = found[n]
      BY <1>21a, <3>1
    <3>3. Len(Tail(queue)) + n \in 1..Len(queue')
      BY <1>10, <1>20, <1>21, <3>1, <3>2
    <3> QED BY <3>1, <3>2, <3>3
  <2> QED BY <2>1, <2>2, <2>3
<1>23. queue' \in Seq(0..Len(all)-1)
  BY <1>21a
(* the rest *)
<1>24. dead_state' \in 0..Len(all)-1 \cup {NO_STATE}
  BY <1>1, <1>2, <1>11, <1>12
<1>25. accepted_rules' = [n \in 0..Len(all)-1 |-> RulesIn(accepting, all[n + 1])]
  <2>1. \A S : RulesOf(S) = RulesIn(accepting, S)
    BY DEF RulesOf, RulesIn
  <2>2. \A n \in 0..Len(all)-1 : accepted_rules'[n] = RulesIn(accepting, all[n + 1])
    BY <1>1, <2>1
  <2>3. accepted_rules' = [n \in 0..Len(all)-1 |-> accepted_rules'[n]]
    BY <1>1
  <2> DEFINE d == 0..Len(all)-1
             r(n) == RulesIn(accepting, all[n + 1])
  <2> HIDE DEF d, r
  <2>4. \A n \in d : accepted_rules'[n] = r(n)
    BY <2>2 DEF d, r
  <2>5. accepted_rules' = [n \in d |-> accepted_rules'[n]]
    BY <2>3 DEF d
  <2>6. accepted_rules' = [n \in d |-> r(n)]
    BY <2>4, <2>5
  <2> QED BY <2>6 DEF d, r
<1>26. all[1] = {0}
  BY <1>2, <1>10
<1>27. /\ size' \in Nat \ {0} /\ subsets' \in Seq(SUBSET Node) /\ Len(subsets') = size'
       /\ subsets'[1] = {0} /\ queue' \in Seq(0..size'-1)
       /\ DOMAIN state_table' \subseteq 0..size'-1
       /\ border' \in [0..size'-1 -> SUBSET Node] /\ border'[0] = {}
       /\ state_table' = [n \in DOMAIN state_table' |-> state_table'[n]]
       /\ dead_state' \in 0..size'-1 \cup {NO_STATE}
  BY <1>1, <1>10, <1>11, <1>16, <1>19, <1>23, <1>24, <1>26
<1>28. \A n \in 0..size'-1 : n \in DOMAIN state_table' \/ InQueue(n)'
  BY <1>1, <1>22 DEF InQueue
<1>29. accepted_rules' = [n \in 0..size'-1 |-> RulesIn(accepting', subsets'[n + 1])]
  BY <1>1, <1>25
<1>30. \A n \in 0..size'-1 : Row_Border(<<n, subsets'[n + 1]>>, transitions', border')
  BY <1>1, <1>17
<1>31. \A n \in DOMAIN state_table' :
         /\ state_table'[n] \in [Symbol -> 0..size'-1]
         /\ Row_Next(<<n, subsets'[n + 1]>>, Numbered(subsets', size'), transitions', state_table', border')
  BY <1>1, <1>18
<1> QED BY <1>27, <1>28, <1>29, <1>30, <1>31 DEF BuildInv

-----------------------------------------------------------------------------
(* The head that is minimized has the borders bd; they are moved like the   *)
(* rows, and the states of a block have the same border.                   *)
Minimizing == pc \in {"blocks", "worklist", "refine", "rewrite", "done"}

HeadWith(bd) ==
  /\ bd \in [States -> SUBSET Node] /\ bd[0] = {} /\ subsets[1] = {0}
  /\ \A s \in States : subsets[s + 1] \in SUBSET Node
  /\ IsHead(Numbered(subsets, dfa.size), transitions, accepting, dfa.state_table, dfa.accepted_rules, bd)

OneBorder(bd) == \A B \in blocks : \A s, t \in B \cap States : bd[s] = bd[t]

Moved(bd, n) == \A s \in 0..n-1 : ~kill(s) => border[Row(s)] = bd[s]

BordersMoved(bd) ==
  /\ pc # "blocks" => OneBorder(bd)
  /\ pc \in {"blocks", "worklist", "refine"} => border = bd
  /\ pc = "rewrite" => /\ border \in [States -> SUBSET Node]
                       /\ \A s \in i..size-1 : border[s] = bd[s]
                       /\ Moved(bd, i)
  /\ pc = "done" => Moved(bd, dfa.size)

HopcroftInv == MInv /\ \E bd : HeadWith(bd) /\ BordersMoved(bd)

LEMMA HeadUnchanged ==
  ASSUME NEW bd, UNCHANGED <<dfa, subsets, transitions, accepting>>, HeadWith(bd)
  PROVE  HeadWith(bd)'
BY DfaUnchanged DEF HeadWith

(* At first the head is as build made it. *)
LEMMA HeadTaken ==
  ASSUME NfaOK, BuildInv, Built, pc' = "blocks", blocks = {}, L = {}, i = 0, j = 0,
         UNCHANGED <<transitions, accepting>>
  PROVE  HopcroftInv'
<1>1. /\ queue = <<>> /\ UNCHANGED <<blocks, L, i, j, headVars, buildVars, transitions, accepting>>
      /\ dfa' = [size |-> size, state_table |-> state_table, accepted_rules |-> accepted_rules,
                 dead_state |-> dead_state]
  BY DEF Built
<1>2. /\ blocks' = {} /\ L' = {} /\ i' = 0 /\ j' = 0
      /\ size' = size /\ state_table' = state_table /\ accepted_rules' = accepted_rules
      /\ dead_state' = dead_state /\ subsets' = subsets /\ border' = border
      /\ transitions' = transitions /\ accepting' = accepting
  BY <1>1 DEF headVars, buildVars
<1>3. /\ dfa'.size = size /\ dfa'.state_table = state_table /\ dfa'.accepted_rules = accepted_rules
      /\ dfa'.dead_state = dead_state
  BY <1>1
<1>4. /\ size \in Nat \ {0} /\ subsets \in Seq(SUBSET Node) /\ Len(subsets) = size
      /\ subsets[1] = {0} /\ queue \in Seq(0..size-1)
      /\ DOMAIN state_table \subseteq 0..size-1
      /\ \A s \in 0..size-1 : s \in DOMAIN state_table \/ InQueue(s)
      /\ accepted_rules = [s \in 0..size-1 |-> RulesIn(accepting, subsets[s + 1])]
      /\ border \in [0..size-1 -> SUBSET Node] /\ border[0] = {}
      /\ \A s \in 0..size-1 : Row_Border(<<s, subsets[s + 1]>>, transitions, border)
      /\ state_table = [s \in DOMAIN state_table |-> state_table[s]]
      /\ dead_state \in 0..size-1 \cup {NO_STATE}
      /\ accepting \in [Node -> SUBSET Rule]
  BY DEF BuildInv, NfaOK
<1>5. DOMAIN state_table = 0..size-1
  <2>1. \A s : ~InQueue(s)
    BY <1>1 DEF InQueue
  <2> QED BY <1>4, <2>1
<1>6. /\ state_table \in [0..size-1 -> [Symbol -> 0..size-1]]
      /\ \A s \in 0..size-1 :
           Row_Next(<<s, subsets[s + 1]>>, Numbered(subsets, size), transitions, state_table, border)
  <2>1. \A s \in 0..size-1 :
          /\ state_table[s] \in [Symbol -> 0..size-1]
          /\ Row_Next(<<s, subsets[s + 1]>>, Numbered(subsets, size), transitions, state_table, border)
    BY <1>5 DEF BuildInv
  <2> QED BY <1>4, <1>5, <2>1
<1>7. \A s \in 0..size-1 : subsets[s + 1] \in SUBSET Node
  BY <1>4
<1>8. \A s \in 0..size-1 : RulesIn(accepting, subsets[s + 1]) \in SUBSET Rule
  BY <1>4, <1>7 DEF RulesIn
<1>9. accepted_rules \in [0..size-1 -> SUBSET Rule]
  BY <1>4, <1>8
<1>10. States' = 0..size-1
  BY <1>3 DEF States, StatesOf
<1>11. Complete(dfa)'
  BY <1>3, <1>4, <1>6, <1>9 DEF Complete, StatesOf
<1>12. RowsTypeOK'
  BY <1>2, <1>3, <1>4, <1>6, <1>9, <1>10, <1>11 DEF RowsTypeOK
<1>13. BlocksInv'
  BY <1>2 DEF BlocksInv, SplittersPending
<1>14. RewriteInv'
  BY <1>2, <1>3 DEF RewriteInv
<1>15. IsHead(Numbered(subsets, size), transitions, accepting, state_table, accepted_rules, border)
  <2>1. \A s \in 0..size-1 : Row_Rules(<<s, subsets[s + 1]>>, accepting, accepted_rules)
    BY <1>4 DEF Row_Rules
  <2>2. \A x \in Numbered(subsets, size) : \E s \in 0..size-1 : x = <<s, subsets[s + 1]>>
    BY DEF Numbered
  <2>3. ASSUME NEW x \in Numbered(subsets, size)
        PROVE  /\ Row_Rules(x, accepting, accepted_rules) /\ Row_Border(x, transitions, border)
               /\ Row_Next(x, Numbered(subsets, size), transitions, state_table, border)
    BY <1>4, <1>6, <2>1, <2>2
  <2> QED BY <2>3 DEF IsHead
<1>16. HeadWith(border)'
  BY <1>2, <1>3, <1>4, <1>7, <1>10, <1>15 DEF HeadWith
<1>17. BordersMoved(border)'
  BY <1>2 DEF BordersMoved
<1>18. (\E bd : HeadWith(bd) /\ BordersMoved(bd))'
  BY <1>16, <1>17
<1> QED BY <1>12, <1>13, <1>14, <1>18 DEF HopcroftInv, MInv

(* States whose rules and borders are the same are a block at first. *)
LEMMA HeadInitializeBlocksKeeps ==
  ASSUME HopcroftInv, HybridInitializeBlocks, UNCHANGED <<dfa, dead_state, subsets, transitions, accepting>>
  PROVE  HopcroftInv'
<1> DEFINE key == [s \in States |-> <<dfa.accepted_rules[s], border[s]>>]
<1>1. /\ pc = "blocks" /\ pc' = "worklist"
      /\ blocks' = {{NO_STATE}} \cup {{t \in States : SameBehaviour(s, t)} : s \in States}
      /\ UNCHANGED <<dfa, dead_state, L, i, j, state_table, accepted_rules, size, border>>
  BY DEF HybridInitializeBlocks
<1>2. PICK bd : HeadWith(bd) /\ BordersMoved(bd)
  BY DEF HopcroftInv
<1>3. MInv /\ Complete(dfa) /\ border = bd
  BY <1>1, <1>2 DEF HopcroftInv, MInv, RowsTypeOK, BordersMoved
<1>4. \A s, t \in States : key[s] = key[t] <=> SameBehaviour(s, t)
  BY DEF SameBehaviour, SameAcceptance
<1>5. \A s, t \in States : SameBehaviour(s, t) => SameAcceptance(s, t) /\ bd[s] = bd[t]
  BY <1>3 DEF SameBehaviour
<1> HIDE DEF key
<1>6. blocks' = {{NO_STATE}} \cup {{t \in States : key[s] = key[t]} : s \in States}
  BY <1>1, <1>4
<1>7. PartitionInv' /\ RulesInv'
  BY <1>1, <1>3, <1>4, <1>5, <1>6, FirstBlocks
<1>8. MInv'
  BY <1>1, <1>3, <1>7, BlocksFound
<1>9. OneBorder(bd)'
  <2> SUFFICES ASSUME NEW B \in blocks', NEW s \in B \cap States, NEW t \in B \cap States
               PROVE  bd[s] = bd[t]
    BY <1>1, DfaUnchanged DEF OneBorder
  <2>1. NO_STATE \notin States
    BY <1>3, DfaFacts
  <2>2. PICK r \in States : B = {u \in States : SameBehaviour(r, u)}
    BY <1>1, <2>1
  <2> QED BY <1>5, <2>2
<1>10. BordersMoved(bd)'
  BY <1>1, <1>3, <1>9 DEF BordersMoved
<1>11. HeadWith(bd)'
  BY <1>2, HeadUnchanged
<1> QED BY <1>8, <1>10, <1>11 DEF HopcroftInv

LEMMA HeadInitializeWorklistKeeps ==
  ASSUME HopcroftInv, HybridInitializeWorklist, UNCHANGED <<dfa, dead_state, subsets, transitions, accepting>>
  PROVE  HopcroftInv'
<1>1. /\ pc = "worklist" /\ pc' = "refine" /\ InitializeWorklist
      /\ blocks' = blocks /\ border' = border /\ dfa' = dfa
  BY DEF HybridInitializeWorklist, InitializeWorklist
<1>2. PICK bd : HeadWith(bd) /\ BordersMoved(bd)
  BY DEF HopcroftInv
<1>3. MInv'
  BY <1>1, InitializeWorklistKeeps DEF HopcroftInv
<1>4. BordersMoved(bd)'
  BY <1>1, <1>2, DfaUnchanged DEF BordersMoved, OneBorder
<1>5. HeadWith(bd)'
  BY <1>2, HeadUnchanged
<1> QED BY <1>3, <1>4, <1>5 DEF HopcroftInv

(* A piece of a block has the border of the block. *)
LEMMA HeadRefineKeeps ==
  ASSUME HopcroftInv, HybridRefine, UNCHANGED <<dfa, dead_state, subsets, transitions, accepting>>
  PROVE  HopcroftInv'
<1>1. (Refine \/ Refined) /\ border' = border /\ pc = "refine"
  BY DEF HybridRefine, Refine, Refined
<1>2. PICK bd : HeadWith(bd) /\ BordersMoved(bd)
  BY DEF HopcroftInv
<1>3. /\ MInv /\ PartitionInv /\ OneBorder(bd) /\ border = bd
      /\ i = 0 /\ size = dfa.size /\ bd \in [States -> SUBSET Node]
  BY <1>1, <1>2 DEF HopcroftInv, MInv, BlocksInv, RewriteInv, BordersMoved, HeadWith
<1>4. HeadWith(bd)'
  BY <1>2, HeadUnchanged
<1>5. CASE Refine
  <2>1. PICK x \in L : pc' = "refine" /\ blocks' = UNION {Pieces(B, Predecessors(x[1], x[2])) : B \in blocks}
    BY <1>5 DEF Refine
  <2>2. \A P \in blocks' : \E B \in blocks : P \subseteq B
    <3> TAKE P \in blocks'
    <3>1. PICK B \in blocks : P \in Pieces(B, Predecessors(x[1], x[2]))
      BY <2>1
    <3>2. P \subseteq B
      BY <3>1 DEF Pieces
    <3> QED BY <3>2
  <2>3. OneBorder(bd)'
    BY <1>3, <2>2, DfaUnchanged DEF OneBorder
  <2>4. BordersMoved(bd)'
    BY <1>1, <1>3, <2>1, <2>3 DEF BordersMoved
  <2>5. MInv'
    BY <1>3, <1>5, RefineKeeps
  <2> QED BY <1>4, <2>4, <2>5 DEF HopcroftInv
<1>6. CASE Refined
  <2>1. pc' = "rewrite" /\ blocks' = blocks /\ i' = 0 /\ size' = size /\ dfa' = dfa
    BY <1>3, <1>6 DEF Refined
  <2>2. OneBorder(bd)'
    BY <1>3, <2>1, DfaUnchanged DEF OneBorder
  <2>3. Moved(bd, i)'
    BY <2>1 DEF Moved
  <2>4. border' \in [States' -> SUBSET Node]
    BY <1>1, <1>3, DfaUnchanged
  <2>5. BordersMoved(bd)'
    BY <1>1, <1>3, <2>1, <2>2, <2>3, <2>4 DEF BordersMoved
  <2>6. MInv'
    BY <1>3, <1>6, RefinedKeeps
  <2> QED BY <1>4, <2>5, <2>6 DEF HopcroftInv
<1> QED BY <1>1, <1>5, <1>6

LEMMA HeadKillRowKeeps ==
  ASSUME HopcroftInv, HybridKillRow, UNCHANGED <<dfa, dead_state, subsets, transitions, accepting>>
  PROVE  HopcroftInv'
<1>1. /\ KillRow /\ border' = border /\ pc = "rewrite" /\ pc' = "rewrite" /\ kill(i) /\ i' = i + 1
      /\ blocks' = blocks /\ size' = size /\ dfa' = dfa
  BY DEF HybridKillRow, KillRow
<1>2. PICK bd : HeadWith(bd) /\ BordersMoved(bd)
  BY DEF HopcroftInv
<1>3. /\ MInv /\ OneBorder(bd) /\ border \in [States -> SUBSET Node]
      /\ \A s \in i..size-1 : border[s] = bd[s]
      /\ Moved(bd, i) /\ i \in 0..size /\ size = dfa.size /\ dfa.size \in Nat
  BY <1>1, <1>2, DfaFacts DEF HopcroftInv, MInv, RowsTypeOK, RewriteInv, BordersMoved
<1>4. HeadWith(bd)'
  BY <1>2, HeadUnchanged
<1>5. Moved(bd, i + 1)
  <2>1. \A s \in 0..(i + 1)-1 : s = i \/ s \in 0..i-1
    BY <1>3
  <2> QED BY <1>1, <1>3, <2>1 DEF Moved
<1>6. Moved(bd, i)'
  BY <1>1, <1>5, BlocksUnchanged DEF Moved
<1>7. \A s \in i'..size'-1 : border'[s] = bd[s]
  BY <1>1, <1>3
<1>8. OneBorder(bd)' /\ States' = States
  BY <1>1, <1>3, DfaUnchanged DEF OneBorder
<1>9. BordersMoved(bd)'
  BY <1>1, <1>3, <1>6, <1>7, <1>8 DEF BordersMoved
<1>10. MInv'
  BY <1>1, <1>3, KillRowKeeps
<1> QED BY <1>4, <1>9, <1>10 DEF HopcroftInv

(* The border of the row that is moved up goes with it. *)
LEMMA HeadCopyRowKeeps ==
  ASSUME HopcroftInv, HybridCopyRow, UNCHANGED <<dfa, dead_state, subsets, transitions, accepting>>
  PROVE  HopcroftInv'
<1>1. /\ CopyRow /\ border' = [border EXCEPT ![j] = border[i]]
      /\ pc = "rewrite" /\ pc' = "rewrite" /\ i < size /\ ~kill(i) /\ i' = i + 1
      /\ blocks' = blocks /\ size' = size /\ dfa' = dfa
  BY DEF HybridCopyRow, MovedBorder, CopyRow
<1>2. PICK bd : HeadWith(bd) /\ BordersMoved(bd)
  BY DEF HopcroftInv
<1>3. /\ MInv /\ OneBorder(bd) /\ border \in [States -> SUBSET Node]
      /\ \A s \in i..size-1 : border[s] = bd[s]
      /\ Moved(bd, i) /\ i \in 0..size /\ j = Row(i) /\ size = dfa.size /\ dfa.size \in Nat
      /\ States = 0..size-1
  BY <1>1, <1>2, DfaFacts DEF HopcroftInv, MInv, RowsTypeOK, RewriteInv, BordersMoved
<1>4. HeadWith(bd)'
  BY <1>2, HeadUnchanged
<1>5. j \in 0..i /\ j \in States /\ i \in States
  <2>1. Row(i) \in 0..i
    BY <1>3, RowFacts
  <2> QED BY <1>1, <1>3, <2>1
<1>6. border' \in [States -> SUBSET Node] /\ border'[j] = bd[i]
      /\ \A s \in States : s # j => border'[s] = border[s]
  BY <1>1, <1>3, <1>5
<1>7. \A s \in 0..(i + 1)-1 : ~kill(s) => border'[Row(s)] = bd[s]
  <2> SUFFICES ASSUME NEW s \in 0..(i + 1)-1, ~kill(s) PROVE border'[Row(s)] = bd[s]
    OBVIOUS
  <2>1. CASE s = i
    BY <1>3, <1>6, <2>1
  <2>2. CASE s # i
    <3>1. s \in 0..i-1 /\ s \in Nat /\ s < i /\ i \in Nat
      BY <1>3, <2>2
    <3>2. Row(s) < Row(i) /\ Row(s) \in 0..s
      BY <3>1, RowsApart, RowFacts
    <3>3. Row(s) # j /\ Row(s) \in States
      BY <1>1, <1>3, <3>1, <3>2
    <3>4. border[Row(s)] = bd[s]
      BY <1>3, <3>1 DEF Moved
    <3> QED BY <1>6, <3>3, <3>4
  <2> QED BY <2>1, <2>2
<1>8. Moved(bd, i)'
  BY <1>1, <1>7, BlocksUnchanged DEF Moved
<1>9. \A s \in i'..size'-1 : border'[s] = bd[s]
  <2> SUFFICES ASSUME NEW s \in i+1..size-1 PROVE border'[s] = bd[s]
    BY <1>1
  <2>1. s \in States /\ s # j /\ s \in i..size-1
    BY <1>3, <1>5
  <2> QED BY <1>3, <1>6, <2>1
<1>10. OneBorder(bd)' /\ States' = States
  BY <1>1, <1>3, DfaUnchanged DEF OneBorder
<1>11. BordersMoved(bd)'
  BY <1>1, <1>6, <1>8, <1>9, <1>10 DEF BordersMoved
<1>12. MInv'
  BY <1>1, <1>3, CopyRowKeeps
<1> QED BY <1>4, <1>11, <1>12 DEF HopcroftInv

LEMMA HeadTruncateKeeps ==
  ASSUME HopcroftInv, HybridTruncate, UNCHANGED <<dfa, dead_state, subsets, transitions, accepting>>
  PROVE  HopcroftInv'
<1>1. /\ Truncate /\ border' = [s \in 0..j-1 |-> border[s]]
      /\ pc = "rewrite" /\ pc' = "done" /\ i = size /\ blocks' = blocks /\ dfa' = dfa
  BY DEF HybridTruncate, Truncate
<1>2. PICK bd : HeadWith(bd) /\ BordersMoved(bd)
  BY DEF HopcroftInv
<1>3. /\ MInv /\ OneBorder(bd) /\ Moved(bd, dfa.size) /\ j = Row(dfa.size) /\ dfa.size \in Nat
  BY <1>1, <1>2, DfaFacts DEF HopcroftInv, MInv, RowsTypeOK, RewriteInv, BordersMoved
<1>4. HeadWith(bd)'
  BY <1>2, HeadUnchanged
<1>5. \A s \in 0..dfa.size-1 : ~kill(s) => border'[Row(s)] = bd[s]
  <2> SUFFICES ASSUME NEW s \in 0..dfa.size-1, ~kill(s) PROVE border'[Row(s)] = bd[s]
    OBVIOUS
  <2>1. s \in Nat /\ s < dfa.size
    BY <1>3
  <2>2. Row(s) < Row(dfa.size) /\ Row(s) \in 0..s /\ Row(dfa.size) \in 0..dfa.size
    BY <1>3, <2>1, RowsApart, RowFacts
  <2>3. Row(s) \in 0..j-1
    BY <1>3, <2>1, <2>2
  <2> QED BY <1>1, <1>3, <2>3 DEF Moved
<1>6. Moved(bd, dfa.size)'
  BY <1>1, <1>5, BlocksUnchanged DEF Moved
<1>7. OneBorder(bd)'
  BY <1>1, <1>3, DfaUnchanged DEF OneBorder
<1>8. BordersMoved(bd)'
  BY <1>1, <1>6, <1>7 DEF BordersMoved
<1>9. MInv'
  BY <1>1, <1>3, TruncateKeeps
<1> QED BY <1>4, <1>8, <1>9 DEF HopcroftInv

-----------------------------------------------------------------------------
(* The traversal: head and tails together are in the states that the split  *)
(* NFA is in, and an active tail state is behind one that is tied to it.    *)
Anchored == \A p \in nfa_state : \E r \in nfa_state : p \in Behind(r) /\ Tied(transitions, r)

ScanInv ==
  /\ nfa_state \in SUBSET Node /\ Anchored
  /\ copies = 0 => active_split \in SUBSET Parsed /\ active = active_split
  /\ \E R : /\ \A x \in R : x[2] \in SUBSET Node
            /\ IsHead(R, transitions, accepting, state_table, accepted_rules, border)
            /\ \E S : /\ <<dfa_state, S>> \in R
                      /\ active_split = S \cup nfa_state /\ border[dfa_state] \subseteq nfa_state

NotScanning ==
  /\ dfa_state = 0 /\ nfa_state = {} /\ active = {0} /\ active_split = {0}
  /\ reported = <<{}, {}, {}>>

(* The traversal starts in a head that stands for the NFA. *)
LEMMA ScanStarts ==
  ASSUME NfaOK, NotScanning, NEW R, \A x \in R : x[2] \in SUBSET Node, <<0, {0}>> \in R,
         IsHead(R, transitions, accepting, state_table', accepted_rules', border'), border'[0] = {},
         UNCHANGED <<nfaVars, traverseVars>>
  PROVE  ScanInv'
<1>1. /\ nfa' = nfa /\ transitions' = transitions /\ accepting' = accepting /\ copies' = copies
      /\ dfa_state' = 0 /\ nfa_state' = {} /\ active' = {0} /\ active_split' = {0}
  BY DEF nfaVars, traverseVars, NotScanning
<1>2. {0} \in SUBSET Parsed
  BY NodeFacts
<1>3. Anchored'
  BY <1>1 DEF Anchored
<1>4. <<dfa_state', {0}>> \in R /\ active_split' = {0} \cup nfa_state' /\ border'[dfa_state'] \subseteq nfa_state'
  BY <1>1
<1>5. IsHead(R, transitions', accepting', state_table', accepted_rules', border')
  BY <1>1
<1> QED BY <1>1, <1>2, <1>3, <1>4, <1>5 DEF ScanInv

LEMMA HeadIsScanned ==
  ASSUME NfaOK, NotScanning, BuildInv, Built, UNCHANGED <<nfaVars, traverseVars>>
  PROVE  ScanInv'
<1>1. /\ queue = <<>> /\ UNCHANGED <<headVars, buildVars>>
  BY DEF Built
<1>2. /\ state_table' = state_table /\ accepted_rules' = accepted_rules /\ border' = border
  BY <1>1 DEF headVars, buildVars
<1>3. /\ size \in Nat \ {0} /\ subsets \in Seq(SUBSET Node) /\ Len(subsets) = size
      /\ subsets[1] = {0} /\ border[0] = {}
      /\ \A s \in 0..size-1 : s \in DOMAIN state_table \/ InQueue(s)
      /\ accepted_rules = [s \in 0..size-1 |-> RulesIn(accepting, subsets[s + 1])]
      /\ \A s \in 0..size-1 : Row_Border(<<s, subsets[s + 1]>>, transitions, border)
  BY DEF BuildInv
<1> DEFINE R == Numbered(subsets, size)
<1>4. \A s \in 0..size-1 : s \in DOMAIN state_table
  BY <1>1, <1>3 DEF InQueue
<1>5. \A s \in 0..size-1 : Row_Next(<<s, subsets[s + 1]>>, R, transitions, state_table, border)
  BY <1>4 DEF BuildInv
<1>6. \A s \in 0..size-1 : Row_Rules(<<s, subsets[s + 1]>>, accepting, accepted_rules)
  BY <1>3 DEF Row_Rules
<1>7. \A x \in R : \E s \in 0..size-1 : x = <<s, subsets[s + 1]>>
  BY DEF Numbered
<1>8. \A s \in 0..size-1 : subsets[s + 1] \in SUBSET Node
  BY <1>3
<1>9. <<0, {0}>> \in R
  <2>1. 0 \in 0..size-1 /\ subsets[0 + 1] = {0}
    BY <1>3
  <2> QED BY <2>1 DEF Numbered
<1> HIDE DEF R
<1>10. \A x \in R : x[2] \in SUBSET Node
  BY <1>7, <1>8
<1>11. IsHead(R, transitions, accepting, state_table, accepted_rules, border)
  BY <1>3, <1>5, <1>6, <1>7 DEF IsHead
<1> QED BY <1>2, <1>3, <1>9, <1>10, <1>11, ScanStarts

(* The minimized head does what the head did: its row of a state stands for *)
(* the set of the state.                                                   *)
LEMMA MinimizedHeadIsScanned ==
  ASSUME NfaOK, NotScanning, HopcroftInv, Minimized, UNCHANGED <<nfaVars, traverseVars>>
  PROVE  ScanInv'
<1>1. /\ pc = "done" /\ state_table' = state_table /\ accepted_rules' = accepted_rules /\ border' = border
  BY DEF Minimized
<1>2. PICK bd : HeadWith(bd) /\ BordersMoved(bd)
  BY DEF HopcroftInv
<1>3. /\ MInv /\ Complete(dfa) /\ PartitionInv /\ Moved(bd, dfa.size) /\ OneBorder(bd)
      /\ bd[0] = {} /\ subsets[1] = {0} /\ \A s \in States : subsets[s + 1] \in SUBSET Node
      /\ IsHead(Numbered(subsets, dfa.size), transitions, accepting, dfa.state_table, dfa.accepted_rules, bd)
  BY <1>1, <1>2 DEF HopcroftInv, MInv, RowsTypeOK, BlocksInv, HeadWith, BordersMoved
<1>4. States = 0..dfa.size-1 /\ 0 \in States
  BY <1>3, DfaFacts
<1>5. \A s \in States : border[NewNumber(s)] = bd[s]
  <2> TAKE s \in States
  <2>1. PICK t : t = trans(s)
    OBVIOUS
  <2>2. /\ BlockOf(s) \in blocks /\ s \in BlockOf(s) /\ t \in BlockOf(s) /\ t \in States /\ ~kill(t)
    BY <1>3, <2>1, BlockFacts
  <2>3. NewNumber(s) = Row(t)
    BY <1>3, <2>1, NewNumberFacts
  <2>4. border[Row(t)] = bd[t]
    BY <1>3, <1>4, <2>2 DEF Moved
  <2>5. bd[t] = bd[s]
    BY <1>3, <2>2 DEF OneBorder
  <2> QED BY <2>3, <2>4, <2>5
<1> DEFINE old == Numbered(subsets, dfa.size)
           R == {<<NewNumber(s), subsets[s + 1]>> : s \in States}
<1>6. \A s \in States : <<s, subsets[s + 1]>> \in old
  BY <1>4 DEF Numbered
<1>7. \A s, T : <<s, T>> \in old => s \in States /\ T = subsets[s + 1]
  <2> SUFFICES ASSUME NEW s, NEW T, <<s, T>> \in old PROVE s \in States /\ T = subsets[s + 1]
    OBVIOUS
  <2>1. PICK r \in 0..dfa.size-1 : <<s, T>> = <<r, subsets[r + 1]>>
    BY DEF Numbered
  <2> QED BY <1>4, <2>1
<1>8. /\ \A x \in R : \E s \in States : x = <<NewNumber(s), subsets[s + 1]>>
      /\ \A s \in States : <<NewNumber(s), subsets[s + 1]>> \in R
  OBVIOUS
<1> HIDE DEF old, R
<1>9. \A s \in States : /\ accepted_rules[NewNumber(s)] = dfa.accepted_rules[s]
                        /\ \A c \in Symbol : state_table[NewNumber(s)][c] = NewNumber(dfa.state_table[s][c])
  BY <1>1, <1>3, ResultFacts
<1>10. ASSUME NEW s \in States
       PROVE  /\ Row_Rules(<<NewNumber(s), subsets[s + 1]>>, accepting, accepted_rules)
              /\ Row_Border(<<NewNumber(s), subsets[s + 1]>>, transitions, border)
              /\ Row_Next(<<NewNumber(s), subsets[s + 1]>>, R, transitions, state_table, border)
  <2>1. /\ Row_Rules(<<s, subsets[s + 1]>>, accepting, dfa.accepted_rules)
        /\ Row_Border(<<s, subsets[s + 1]>>, transitions, bd)
        /\ Row_Next(<<s, subsets[s + 1]>>, old, transitions, dfa.state_table, bd)
    BY <1>3, <1>6 DEF IsHead, old
  <2>2. Row_Rules(<<NewNumber(s), subsets[s + 1]>>, accepting, accepted_rules)
    BY <1>9, <2>1 DEF Row_Rules
  <2>3. Row_Border(<<NewNumber(s), subsets[s + 1]>>, transitions, border)
    BY <1>5, <2>1 DEF Row_Border
  <2>4. ASSUME NEW c \in Symbol
        PROVE  <<state_table[NewNumber(s)][c], NfaStep(transitions, subsets[s + 1] \ border[NewNumber(s)], c)>> \in R
    <3> DEFINE t == dfa.state_table[s][c]
               T == NfaStep(transitions, subsets[s + 1] \ bd[s], c)
    <3>1. <<t, T>> \in old
      BY <2>1 DEF Row_Next
    <3>2. t \in States /\ T = subsets[t + 1]
      BY <1>7, <3>1
    <3>3. <<NewNumber(t), T>> \in R
      BY <1>8, <3>2
    <3>4. state_table[NewNumber(s)][c] = NewNumber(t)
      BY <1>9
    <3>5. border[NewNumber(s)] = bd[s]
      BY <1>5
    <3> QED BY <3>3, <3>4, <3>5
  <2> QED BY <2>2, <2>3, <2>4 DEF Row_Next
<1>11. IsHead(R, transitions, accepting, state_table, accepted_rules, border)
  BY <1>8, <1>10 DEF IsHead
<1>12. \A x \in R : x[2] \in SUBSET Node
  BY <1>3, <1>8
<1>13. NewNumber(0) = 0
  BY <1>3, NewNumberFacts
<1>14. <<0, {0}>> \in R /\ border[0] = {}
  <2>1. subsets[0 + 1] = {0}
    BY <1>3
  <2> QED BY <1>3, <1>4, <1>5, <1>8, <1>13, <2>1
<1> QED BY <1>1, <1>11, <1>12, <1>14, ScanStarts

(* A character leads an active tail state somewhere behind a state that it  *)
(* does not lead away from.                                                *)
LEMMA AnchorsStay ==
  ASSUME NfaOK, nfa_state \in SUBSET Node, Anchored, NEW c \in Symbol, NEW p \in nfa_state,
         NEW q, <<c, q>> \in transitions[p]
  PROVE  \E r \in NfaStep(transitions, nfa_state, c) : q \in Behind(r) /\ Tied(transitions, r)
<1>1. PICK r \in nfa_state : p \in Behind(r) /\ Tied(transitions, r)
  BY DEF Anchored
<1>2. transitions \in Transitions /\ p \in Node /\ r \in Node
  BY DEF NfaOK
<1>3. q \in Targets(transitions, p)
  <2>1. <<c, q>>[2] = q
    OBVIOUS
  <2> QED BY <2>1 DEF Targets
<1>4. \A s \in nfa_state : <<c, s>> \in transitions[s] => s \in NfaStep(transitions, nfa_state, c)
  BY <1>2, StepFacts
<1>5. \A s \in Node : s \in Reachable(transitions, {s})
                      /\ \A t \in Reachable(transitions, {s}) : Targets(transitions, t) \subseteq Reachable(transitions, {s})
  <2> TAKE s \in Node
  <2>1. {s} \in SUBSET Node
    OBVIOUS
  <2> QED BY <1>2, <2>1, ReachableFacts
<1>6. CASE Masks(transitions, r)
  <2>1. <<c, r>> \in transitions[r]
    BY <1>6 DEF Masks, SelfChars
  <2>2. p \in Reachable(transitions, {r})
    BY <1>1, <1>6 DEF Behind
  <2>3. q \in Reachable(transitions, {r})
    BY <1>2, <1>3, <1>5, <2>2
  <2>4. q \in Behind(r)
    BY <1>6, <2>3 DEF Behind
  <2> QED BY <1>1, <1>4, <2>1, <2>4
<1>7. CASE ~Masks(transitions, r) /\ Masks(transitions, p)
  <2>1. <<c, p>> \in transitions[p]
    BY <1>7 DEF Masks, SelfChars
  <2>2. q \in Behind(p)
    BY <1>2, <1>3, <1>5, <1>7 DEF Behind
  <2>3. Tied(transitions, p)
    <3>1. SelfChars(transitions, p) = Symbol /\ SelfChars(transitions, r) \in SUBSET Symbol
      BY <1>7 DEF Masks, SelfChars
    <3>2. IsFiniteSet(Symbol)
      <4>1. 0 \in Int /\ CSize - 1 \in Int
        BY DfaAssumption
      <4> QED BY <4>1, FS_Interval DEF Symbol
    <3>3. /\ Cardinality(SelfChars(transitions, r)) <= Cardinality(Symbol)
          /\ Cardinality(SelfChars(transitions, r)) \in Nat /\ Cardinality(Symbol) \in Nat
      BY <3>1, <3>2, MoreElements
    <3>4. Cardinality(SelfChars(transitions, r)) > MAX_TX /\ MAX_TX \in Nat
      BY <1>1, HybridAssumption DEF Tied
    <3>5. Cardinality(SelfChars(transitions, p)) > MAX_TX
      BY <3>1, <3>3, <3>4
    <3> QED BY <1>7, <3>5 DEF Tied
  <2> QED BY <1>4, <2>1, <2>2, <2>3
<1>8. CASE ~Masks(transitions, r) /\ ~Masks(transitions, p)
  <2>1. p \in TailStates(transitions, r)
    BY <1>1, <1>8 DEF Behind
  <2>2. c \in SelfChars(transitions, r)
    <3>1. ~ExcludedInTail(transitions, r)
      BY <1>1, <1>8 DEF Tied
    <3>2. <<c, q>>[1] = c
      OBVIOUS
    <3> QED BY <1>8, <2>1, <3>1, <3>2 DEF ExcludedInTail
  <2>3. <<c, r>> \in transitions[r]
    BY <2>2 DEF SelfChars
  <2>4. q \in TailStates(transitions, r)
    BY <1>2, <1>3, <1>8, <2>1, TailFacts
  <2>5. q \in Behind(r)
    BY <1>8, <2>4 DEF Behind
  <2> QED BY <1>1, <1>4, <2>3, <2>5
<1> QED BY <1>6, <1>7, <1>8

Reports == reported[1] = reported[3] /\ (copies = 0 => reported[2] = reported[3])

LEMMA TraverseKeeps ==
  ASSUME NfaOK, ScanInv, NEW c \in Symbol, TraverseHfa(c), UNCHANGED <<minimizeVars, nfaVars, buildVars>>
  PROVE  ScanInv' /\ Reports'
<1>1. /\ dfa_state' = state_table[dfa_state][c]
      /\ nfa_state' = NfaStep(transitions, nfa_state, c) \cup border[dfa_state']
      /\ active' = NfaStep(nfa.transitions, active, c)
      /\ active_split' = NfaStep(transitions, active_split, c)
      /\ reported' = <<accepted_rules[dfa_state'] \cup RulesOf(nfa_state'),
                       UNION {nfa.accepting[q] : q \in active'}, RulesOf(active_split')>>
  BY DEF TraverseHfa
<1>2. /\ state_table' = state_table /\ accepted_rules' = accepted_rules /\ border' = border
      /\ nfa' = nfa /\ transitions' = transitions /\ accepting' = accepting /\ copies' = copies
  BY DEF minimizeVars, nfaVars, buildVars
<1>3. transitions \in Transitions /\ nfa_state \in SUBSET Node /\ Anchored /\ nfa \in Nfas
  BY DEF NfaOK, ScanInv
<1>4. PICK R : /\ \A x \in R : x[2] \in SUBSET Node
               /\ IsHead(R, transitions, accepting, state_table, accepted_rules, border)
               /\ \E S : /\ <<dfa_state, S>> \in R
                         /\ active_split = S \cup nfa_state /\ border[dfa_state] \subseteq nfa_state
  BY DEF ScanInv
<1>5. PICK S : /\ <<dfa_state, S>> \in R
               /\ active_split = S \cup nfa_state /\ border[dfa_state] \subseteq nfa_state
  BY <1>4
<1> DEFINE rest == S \ border[dfa_state]
           T == NfaStep(transitions, rest, c)
           N == NfaStep(transitions, nfa_state, c)
<1>6. <<dfa_state', T>> \in R
  <2>1. Row_Next(<<dfa_state, S>>, R, transitions, state_table, border)
    BY <1>4, <1>5 DEF IsHead
  <2> QED BY <1>1, <2>1 DEF Row_Next
<1>7. /\ accepted_rules[dfa_state'] = RulesIn(accepting, T)
      /\ border[dfa_state'] \subseteq T /\ \A q \in border[dfa_state'] : Tied(transitions, q)
  BY <1>4, <1>6 DEF IsHead, Row_Rules, Row_Border
<1>8. S \in SUBSET Node /\ rest \in SUBSET Node /\ T \in SUBSET Node /\ N \in SUBSET Node
  <2>1. <<dfa_state, S>>[2] = S
    OBVIOUS
  <2>2. S \in SUBSET Node
    BY <1>4, <1>5, <2>1
  <2> QED BY <1>3, <2>2, StepFacts
<1>9. active_split' = T \cup N
  <2>1. active_split = rest \cup nfa_state
    BY <1>5
  <2> HIDE DEF rest
  <2> QED BY <1>1, <1>3, <1>8, <2>1, StepFacts
<1> HIDE DEF rest, T, N
<1>10. nfa_state' = N \cup border[dfa_state']
  BY <1>1 DEF N
<1>11. active_split' = T \cup nfa_state' /\ border'[dfa_state'] \subseteq nfa_state' /\ nfa_state' \in SUBSET Node
  BY <1>2, <1>7, <1>8, <1>9, <1>10
<1>12. reported'[1] = reported'[3]
  <2>1. RulesIn(accepting, T \cup nfa_state') = RulesIn(accepting, T) \cup RulesIn(accepting, nfa_state')
    BY DEF RulesIn
  <2>2. reported'[1] = RulesIn(accepting, T) \cup RulesIn(accepting, nfa_state')
    BY <1>1, <1>7 DEF RulesOf, RulesIn
  <2>3. reported'[3] = RulesIn(accepting, T \cup nfa_state')
    BY <1>1, <1>11 DEF RulesOf, RulesIn
  <2> QED BY <2>1, <2>2, <2>3
<1>13. Anchored'
  <2> SUFFICES ASSUME NEW p \in nfa_state'
               PROVE  \E r \in nfa_state' : p \in Behind(r) /\ Tied(transitions, r)
    BY <1>2 DEF Anchored, Behind
  <2>1. CASE p \in border[dfa_state']
    <3>1. Tied(transitions, p)
      BY <1>7, <2>1
    <3>2. p \in Node /\ {p} \in SUBSET Node
      BY <1>11
    <3>3. p \in Reachable(transitions, {p})
      BY <1>3, <3>2, ReachableFacts
    <3>4. p \in TailStates(transitions, p)
      BY <1>3, <3>2, TailFacts
    <3> QED BY <3>1, <3>3, <3>4 DEF Behind
  <2>2. CASE p \in N
    <3>1. PICK q \in nfa_state : <<c, p>> \in transitions[q]
      BY <1>3, <2>2, StepFacts DEF N
    <3>2. \E r \in N : p \in Behind(r) /\ Tied(transitions, r)
      BY <1>3, <3>1, AnchorsStay DEF N
    <3> QED BY <1>10, <3>2
  <2> QED BY <1>10, <2>1, <2>2
<1>14. copies = 0 => active_split' \in SUBSET Parsed /\ active' = active_split' /\ reported'[2] = reported'[3]
  <2> SUFFICES ASSUME copies = 0
               PROVE  active_split' \in SUBSET Parsed /\ active' = active_split' /\ reported'[2] = reported'[3]
    OBVIOUS
  <2>1. /\ transitions = Lifted(nfa.transitions) /\ accepting = Lifted(nfa.accepting)
        /\ active_split \in SUBSET Parsed /\ active = active_split
    BY DEF NfaOK, ScanInv
  <2>2. Parsed \subseteq Node
    BY NodeFacts
  <2>3. \A q \in Parsed : nfa.transitions[q] = transitions[q] /\ nfa.accepting[q] = accepting[q]
    BY <2>1, <2>2 DEF Lifted
  <2>4. active' = active_split'
    <3>1. \A q \in active : nfa.transitions[q] = transitions[q]
      BY <2>1, <2>3
    <3>2. {nfa.transitions[q] : q \in active} = {transitions[q] : q \in active}
      BY <3>1
    <3> QED BY <1>1, <2>1, <3>2 DEF NfaStep
  <2>5. active_split' \in SUBSET Parsed
    <3> SUFFICES ASSUME NEW p \in active_split' PROVE p \in Parsed
      OBVIOUS
    <3>1. active_split \in SUBSET Node
      BY <2>1, <2>2
    <3>2. PICK q \in active_split : <<c, p>> \in transitions[q]
      BY <1>1, <1>3, <3>1, StepFacts
    <3>3. q \in Parsed /\ transitions[q] \in SUBSET (Symbol \X Parsed)
      BY <1>3, <2>1, <2>3, NfaFacts
    <3> QED BY <3>2, <3>3
  <2>6. {nfa.accepting[q] : q \in active'} = {accepting[q] : q \in active_split'}
    BY <2>3, <2>4, <2>5
  <2> QED BY <1>1, <2>4, <2>5, <2>6 DEF RulesOf
<1>15. IsHead(R, transitions', accepting', state_table', accepted_rules', border')
  BY <1>2, <1>4
<1>16. ScanInv'
  BY <1>2, <1>4, <1>6, <1>11, <1>13, <1>14, <1>15 DEF ScanInv
<1> QED BY <1>2, <1>12, <1>14, <1>16 DEF Reports

-----------------------------------------------------------------------------
(* The invariant of the hybrid automaton: every stage hands over an         *)
(* automaton that does what the split NFA does.                            *)
HybridInv ==
  /\ pc \in {"optimize", "correct", "build", "scan"} \/ Minimizing
  /\ NfaOK /\ Reports
  /\ pc \in {"optimize", "correct", "build"} => blocks = {} /\ L = {} /\ i = 0 /\ j = 0
  /\ pc \in {"optimize", "correct"} => dead_state = NO_STATE
  /\ pc # "scan" => NotScanning
  /\ pc = "build" => BuildInv
  /\ Minimizing => HopcroftInv
  /\ pc = "scan" => ScanInv

LEMMA HybridInvInit == HybridInit => HybridInv
<1> SUFFICES ASSUME HybridInit PROVE HybridInv
  OBVIOUS
<1>1. /\ nfa \in Nfas /\ transitions = Lifted(nfa.transitions) /\ accepting = Lifted(nfa.accepting)
      /\ to_correct = {} /\ copies = 0 /\ pc = "optimize"
      /\ blocks = {} /\ L = {} /\ i = 0 /\ j = 0 /\ dead_state = NO_STATE
  BY DEF HybridInit, Lifted
<1>2. NotScanning
  BY DEF HybridInit, NotScanning
<1>3. NfaOK
  BY <1>1, NfaFacts DEF NfaOK
<1>4. Reports
  BY <1>2 DEF Reports, NotScanning
<1> QED BY <1>1, <1>2, <1>3, <1>4 DEF HybridInv, Minimizing

LEMMA NotScanningKept ==
  ASSUME NotScanning, UNCHANGED traverseVars
  PROVE  NotScanning' /\ Reports'
BY DEF NotScanning, traverseVars, Reports

LEMMA NfaKept ==
  ASSUME NfaOK, UNCHANGED nfaVars, pc' # "optimize"
  PROVE  NfaOK' /\ UNCHANGED <<transitions, accepting>>
<1>1. UNCHANGED <<nfa, transitions, accepting, to_correct, copies>>
  BY DEF nfaVars
<1> QED BY <1>1 DEF NfaOK

LEMMA OptimizeKeeps ==
  ASSUME HybridInv, OptimizeNext
  PROVE  HybridInv'
<1>1. /\ FindStatesToCorrect \/ LeaveAlone \/ Correct
      /\ UNCHANGED <<headVars, hopcroftVars, traverseVars>>
  BY DEF OptimizeNext
<1>2. pc \in {"optimize", "correct"} /\ pc' = "correct"
  BY <1>1 DEF FindStatesToCorrect, LeaveAlone, Correct
<1>3. NfaOK'
  BY <1>1, FindStatesKeeps, LeaveAloneKeeps, CorrectKeeps DEF HybridInv
<1>4. /\ blocks' = {} /\ L' = {} /\ i' = 0 /\ j' = 0 /\ dead_state' = NO_STATE
  BY <1>1, <1>2 DEF HybridInv, headVars, hopcroftVars
<1>5. NotScanning' /\ Reports'
  BY <1>1, <1>2, NotScanningKept DEF HybridInv
<1> QED BY <1>2, <1>3, <1>4, <1>5 DEF HybridInv, Minimizing

LEMMA ConstructKeeps ==
  ASSUME HybridInv, ConstructNext
  PROVE  HybridInv'
<1>1. /\ ((BuildFirst \/ Expand) /\ UNCHANGED hopcroftVars) \/ Built
      /\ UNCHANGED <<nfaVars, traverseVars>>
  BY DEF ConstructNext
<1>2. pc \in {"correct", "build"} /\ pc' \in {"build", "blocks", "scan"}
  BY <1>1 DEF BuildFirst, Expand, Built
<1>3. /\ NfaOK /\ NotScanning /\ blocks = {} /\ L = {} /\ i = 0 /\ j = 0
  BY <1>2 DEF HybridInv
<1>4. NfaOK' /\ UNCHANGED <<transitions, accepting>>
  BY <1>1, <1>2, <1>3, NfaKept
<1>5. NotScanning' /\ Reports'
  BY <1>1, <1>3, NotScanningKept
<1>6. CASE (BuildFirst \/ Expand) /\ UNCHANGED hopcroftVars
  <2>1. pc' = "build"
    BY <1>6 DEF BuildFirst, Expand
  <2>2. blocks' = {} /\ L' = {} /\ i' = 0 /\ j' = 0
    BY <1>3, <1>6 DEF hopcroftVars
  <2>3. CASE BuildFirst
    <3>1. dead_state = NO_STATE
      BY <2>3 DEF HybridInv, BuildFirst
    <3> QED BY <1>3, <1>4, <1>5, <2>1, <2>2, <2>3, <3>1, BuildFirstKeeps DEF HybridInv, Minimizing
  <2>4. CASE Expand
    <3>1. BuildInv
      BY <2>4 DEF HybridInv, Expand
    <3> QED BY <1>3, <1>4, <1>5, <2>1, <2>2, <2>4, <3>1, ExpandKeeps DEF HybridInv, Minimizing
  <2> QED BY <1>6, <2>3, <2>4
<1>7. CASE Built
  <2>1. BuildInv /\ pc' \in {"blocks", "scan"}
    BY <1>7 DEF HybridInv, Built
  <2>2. CASE pc' = "blocks"
    <3>1. HopcroftInv'
      BY <1>3, <1>4, <1>7, <2>1, <2>2, HeadTaken
    <3> QED BY <1>4, <1>5, <2>2, <3>1 DEF HybridInv, Minimizing
  <2>3. CASE pc' = "scan"
    <3>1. ScanInv'
      BY <1>1, <1>3, <1>7, <2>1, HeadIsScanned
    <3> QED BY <1>4, <1>5, <2>3, <3>1 DEF HybridInv, Minimizing
  <2> QED BY <2>1, <2>2, <2>3
<1> QED BY <1>1, <1>6, <1>7

LEMMA HybridMinimizeKeeps ==
  ASSUME HybridInv, HybridMinimizeNext
  PROVE  HybridInv'
<1>1. /\ \/ HybridInitializeBlocks \/ HybridInitializeWorklist \/ HybridRefine \/ HybridKillRow
         \/ HybridCopyRow \/ HybridTruncate \/ Minimized
      /\ UNCHANGED <<dfa, dead_state, nfaVars, subsets, traverseVars>>
  BY DEF HybridMinimizeNext
<1>2. Minimizing /\ pc # "scan" /\ pc' # "optimize"
  BY <1>1 DEF HybridInitializeBlocks, HybridInitializeWorklist, HybridRefine, HybridKillRow, HybridCopyRow,
              HybridTruncate, Minimized, InitializeWorklist, Refine, Refined, KillRow, CopyRow, Truncate, Minimizing
<1>3. NfaOK /\ NotScanning /\ HopcroftInv
  BY <1>2 DEF HybridInv
<1>4. NfaOK' /\ UNCHANGED <<transitions, accepting>>
  BY <1>1, <1>2, <1>3, NfaKept
<1>5. NotScanning' /\ Reports'
  BY <1>1, <1>3, NotScanningKept
<1>6. UNCHANGED <<dfa, dead_state, subsets, transitions, accepting>>
  BY <1>1, <1>4
<1>7. CASE Minimized
  <2>1. pc' = "scan"
    BY <1>7 DEF Minimized
  <2>2. ScanInv'
    BY <1>1, <1>3, <1>7, MinimizedHeadIsScanned
  <2> QED BY <1>4, <1>5, <2>1, <2>2 DEF HybridInv, Minimizing
<1>8. CASE ~Minimized
  <2>1. pc' \in {"worklist", "refine", "rewrite", "done"}
    BY <1>1, <1>8 DEF HybridInitializeBlocks, HybridInitializeWorklist, HybridRefine, HybridKillRow, HybridCopyRow,
                HybridTruncate, InitializeWorklist, Refine, Refined, KillRow, CopyRow, Truncate
  <2>2. HopcroftInv'
    BY <1>1, <1>3, <1>6, <1>8, HeadInitializeBlocksKeeps, HeadInitializeWorklistKeeps, HeadRefineKeeps,
       HeadKillRowKeeps, HeadCopyRowKeeps, HeadTruncateKeeps
  <2> QED BY <1>4, <1>5, <2>1, <2>2 DEF HybridInv, Minimizing
<1> QED BY <1>7, <1>8

LEMMA HybridStutters ==
  ASSUME HybridInv, UNCHANGED hybridVars
  PROVE  HybridInv'
<1>1. UNCHANGED <<minimizeVars, nfaVars, buildVars, traverseVars>>
  BY DEF hybridVars
<1>2. /\ UNCHANGED <<dfa, pc, blocks, L, state_table, accepted_rules, size, dead_state, i, j>>
      /\ UNCHANGED <<nfa, transitions, accepting, to_correct, copies>>
      /\ UNCHANGED <<subsets, queue, non_special, border>>
      /\ UNCHANGED <<dfa_state, nfa_state, active, active_split, reported>>
  BY <1>1 DEF minimizeVars, nfaVars, buildVars, traverseVars
<1>3. NfaOK' /\ Reports' /\ Minimizing' = Minimizing /\ NotScanning' = NotScanning
  BY <1>2 DEF HybridInv, NfaOK, Reports, Minimizing, NotScanning
<1>4. pc = "build" => BuildInv'
  <2> SUFFICES ASSUME BuildInv PROVE BuildInv'
    BY DEF HybridInv
  <2>1. \A s : InQueue(s)' = InQueue(s)
    BY <1>2 DEF InQueue
  <2> QED BY <1>2, <2>1 DEF BuildInv
<1>5. Minimizing => HopcroftInv'
  <2> SUFFICES ASSUME HopcroftInv PROVE HopcroftInv'
    BY DEF HybridInv
  <2>1. PICK bd : HeadWith(bd) /\ BordersMoved(bd)
    BY DEF HopcroftInv
  <2>2. HeadWith(bd)'
    BY <1>2, <2>1, HeadUnchanged
  <2>3. \A n : Moved(bd, n) => Moved(bd, n)'
    BY <1>2, BlocksUnchanged DEF Moved
  <2>4. Moved(bd, i) => Moved(bd, i)'
    BY <1>2, BlocksUnchanged DEF Moved
  <2>5. Moved(bd, dfa.size) => Moved(bd, dfa.size)'
    BY <1>2, BlocksUnchanged DEF Moved
  <2>6. (OneBorder(bd) => OneBorder(bd)') /\ States' = States
    BY <1>2, DfaUnchanged DEF OneBorder
  <2>7. BordersMoved(bd)'
    BY <1>2, <2>1, <2>4, <2>5, <2>6 DEF BordersMoved
  <2>8. MInv'
    BY <1>1, MInvStutters DEF HopcroftInv
  <2> QED BY <2>2, <2>7, <2>8 DEF HopcroftInv
<1>6. pc = "scan" => ScanInv'
  <2> SUFFICES ASSUME ScanInv PROVE ScanInv'
    BY DEF HybridInv
  <2>1. Anchored'
    BY <1>2 DEF ScanInv, Anchored, Behind
  <2> QED BY <1>2, <2>1 DEF ScanInv
<1> QED BY <1>2, <1>3, <1>4, <1>5, <1>6 DEF HybridInv

LEMMA HybridInvNext == HybridInv /\ [HybridNext]_hybridVars => HybridInv'
<1> SUFFICES ASSUME HybridInv, [HybridNext]_hybridVars PROVE HybridInv'
  OBVIOUS
<1>1. CASE UNCHANGED hybridVars
  BY <1>1, HybridStutters
<1>2. CASE OptimizeNext
  BY <1>2, OptimizeKeeps
<1>3. CASE ConstructNext
  BY <1>3, ConstructKeeps
<1>4. CASE HybridMinimizeNext
  BY <1>4, HybridMinimizeKeeps
<1>5. CASE \E c \in Symbol : TraverseHfa(c) /\ UNCHANGED <<minimizeVars, nfaVars, buildVars>>
  <2>1. PICK c \in Symbol : TraverseHfa(c) /\ UNCHANGED <<minimizeVars, nfaVars, buildVars>>
    BY <1>5
  <2>2. pc = "scan" /\ pc' = "scan"
    BY <2>1 DEF TraverseHfa, minimizeVars
  <2>3. NfaOK /\ ScanInv
    BY <2>2 DEF HybridInv
  <2>4. ScanInv' /\ Reports'
    BY <2>1, <2>3, TraverseKeeps
  <2>5. NfaOK'
    BY <2>1, <2>2, <2>3, NfaKept
  <2> QED BY <2>2, <2>4, <2>5 DEF HybridInv, Minimizing
<1> QED BY <1>1, <1>2, <1>3, <1>4, <1>5 DEF HybridNext

(* The head and the tails of a hybrid automaton together report what the   *)
(* split NFA does, whatever the states that were split and their order, and *)
(* whether or not the head was minimized.                                  *)
THEOREM HybridRunsAsSplitNfa == HybridSpec => []SameRulesAsSplitNfa
<1>1. HybridInv => SameRulesAsSplitNfa
  BY DEF HybridInv, Reports, SameRulesAsSplitNfa
<1> QED BY <1>1, HybridInvInit, HybridInvNext, PTL DEF HybridSpec

(* As long as no state has been split they report what the NFA does that    *)
(* the construction began with.                                            *)
THEOREM HybridRunsAsNfa == HybridSpec => [](copies = 0 => SameRulesAsNfa)
<1>1. HybridInv => (copies = 0 => SameRulesAsNfa)
  BY DEF HybridInv, Reports, SameRulesAsNfa
<1> QED BY <1>1, HybridInvInit, HybridInvNext, PTL DEF HybridSpec

(* Every active tail state is behind an active state that loops on many     *)
(* symbols: to enter a tail that is active adds nothing to it.             *)
THEOREM TailsActiveOnce == HybridSpec => []OneActivation
<1>1. HybridInv => OneActivation
  <2> SUFFICES ASSUME HybridInv, NEW p \in nfa_state
               PROVE  \E r \in nfa_state :
                        p \in Behind(r) /\ Cardinality(SelfChars(transitions, r)) > MAX_TX
    BY DEF OneActivation
  <2>1. Anchored
    BY DEF HybridInv, ScanInv, NotScanning
  <2> QED BY <2>1 DEF Anchored, Tied
<1> QED BY <1>1, HybridInvInit, HybridInvNext, PTL DEF HybridSpec

-----------------------------------------------------------------------------
(***************************************************************************)
(* The same of the DFAs that are minimized beside the hybrid automata.     *)
(***************************************************************************)
MCInv == kind = "minimize" => MinimizeInv

(* No two states of a minimized DFA can be merged, whatever else is done:   *)
(* what is minimized as a head can have such states.                       *)
THEOREM MinimizedDfaIsMinimal == MCSpec => []DfaMinimal
<1>1. MCInit => MCInv
  BY MInvInit DEF MCInit, MCInv, JustADfa
<1>2. MCInv /\ [MCNext]_<<kind, d2faState, hybridVars>> => MCInv'
  <2> SUFFICES ASSUME MCInv, [MCNext]_<<kind, d2faState, hybridVars>>, kind' = "minimize" PROVE MinimizeInv'
    BY DEF MCInv
  <2>1. CASE UNCHANGED <<kind, d2faState, hybridVars>>
    <3>1. kind = "minimize" /\ UNCHANGED minimizeVars
      BY <2>1 DEF hybridVars
    <3> QED BY <3>1, MInvNext DEF MCInv
  <2>2. CASE MCNext
    <3>1. kind = "minimize" /\ MinimizeNext
      BY <2>2 DEF MCNext, OfMinimize, OfHybrid, OfD2fa
    <3> QED BY <3>1, MInvNext DEF MCInv
  <2> QED BY <2>1, <2>2
<1>3. MCInv => DfaMinimal
  BY MInvMinimal DEF MCInv, DfaMinimal
<1> QED BY <1>1, <1>2, <1>3, PTL DEF MCSpec

===============================================================================
