------------------------------- MODULE HfaImage -------------------------------
(***************************************************************************)
(* The memory image of a hybrid automaton (generator/memory.c): one DFA for *)
(* the head and one for every border state, laid out and written one after  *)
(* the other, and memory::traverse_hfa, which runs them together.  The DFAs *)
(* have been compressed: a state has labeled transitions for some symbols,  *)
(* and a default transition for the others.                                 *)
(***************************************************************************)
EXTENDS Sequences, Ordered

CONSTANTS
  Hfas,          \* compressed hybrid automata: alphabet is the number of classes of
                 \* symbols, dfas[0] the head, dfas[1..tails] are the tails, and
                 \* border names those of a head state, by their addresses
  TX_THRESHOLD,  \* states with more labeled transitions are stored in full
  AddressLimit   \* a word has room for addresses below this one (2^20)

NONE == -1

(* What is assumed of the DFAs: states are numbered as they are discovered, *)
(* default transitions lead to states with smaller numbers (DefaultTx).     *)
CompressedDfa(d, Symbols) ==
  LET Q == 0..d.size-1 IN
  /\ d.size \in Nat \ {0}
  /\ d.table \in [Q -> [Symbols -> Q]] /\ d.labeled \in [Q -> SUBSET Symbols] /\ d.labeled[0] = Symbols
  /\ \A q \in Q \ {0} : \E p \in 0..q-1, c \in Symbols : d.table[p][c] = q
  /\ d.default \in [Q -> Q \cup {NONE}]
  /\ \A q \in Q : IF d.default[q] = NONE THEN d.labeled[q] = Symbols
                  ELSE d.default[q] < q /\ \A c \in Symbols \ d.labeled[q] : d.table[d.default[q]][c] = d.table[q][c]
  /\ d.accepting \subseteq Q

(* the first head state has no tails (HybridFA) *)
HfaAssumption ==
  /\ TX_THRESHOLD \in Nat /\ AddressLimit \in Nat \ {0}
  /\ \A h \in Hfas :
       /\ h.alphabet \in Nat \ {0} /\ h.tails \in Nat /\ DOMAIN h.dfas = 0..h.tails
       /\ \A i \in DOMAIN h.dfas :
            CompressedDfa(h.dfas[i], 0..h.alphabet-1) /\ h.dfas[i].dead_state \in Nat \cup {NONE}
       /\ h.border \in [0..h.dfas[0].size-1 -> Seq(DOMAIN h.dfas \ {0})] /\ h.border[0] = <<>>

VARIABLES
  hfa,             \* the automaton
  stage,           \* "layout", "map", "traverse", "undefined"
  dfa_no,          \* the DFA that is laid out or written
  queue, marking,  \* its states that are to be laid out, those that have been queued
  state_address, size,   \* of every DFA
  fa, row,         \* the words, and the state whose words are written next
  state, compressed,     \* where every DFA is, NONE when it is not active
  border,          \* the head has entered a state with tails
  char, turn,      \* the class of the character, and the DFA that processes it
  matches,         \* the DFAs that counted a match for the last character
  dfa_state, entered     \* where the DFAs of the automaton are, and those that
                         \* have just entered an accepting state

imageVars == <<dfa_no, queue, marking, state_address, size, fa, row>>
walkVars == <<state, compressed, border, char, turn, matches, dfa_state, entered>>
hfaVars == <<hfa, stage, imageVars, walkVars>>

-----------------------------------------------------------------------------
Symbol == 0..hfa.alphabet-1
Machines == DOMAIN hfa.dfas
States(i) == 0..hfa.dfas[i].size-1
Labeled(i, q) == hfa.dfas[i].labeled[q]
Default(i, q) == hfa.dfas[i].default[q]
Next(i, q, c) == hfa.dfas[i].table[q][c]
Accepts(i, q) == q \in hfa.dfas[i].accepting
IsDead(i, q) == i # 0 /\ q = hfa.dfas[i].dead_state
Tails(i, q) == IF i = 0 THEN hfa.border[q] ELSE <<>>

IsCompressed(i, q) == Cardinality(Labeled(i, q)) <= TX_THRESHOLD
Words(i, q) == IF IsCompressed(i, q) THEN Cardinality(Labeled(i, q)) + 1 ELSE hfa.alphabet

(* every packet starts with the head alone *)
AtStart == [i \in Machines |-> IF i = 0 THEN 0 ELSE NONE]

HfaImageInit ==
  /\ hfa \in Hfas
  /\ stage = "layout" /\ dfa_no = 0 /\ queue = <<0>> /\ marking = {0}
  /\ state_address = [i \in Machines |-> [q \in States(i) |-> NONE]]
  /\ size = [i \in Machines |-> 0]
  /\ fa = [i \in Machines |-> [a \in {} |-> 0]] /\ row = 0
  /\ state = AtStart /\ compressed = [i \in Machines |-> FALSE]
  /\ border = FALSE /\ char = NONE /\ turn = 0 /\ matches = {}
  /\ dfa_state = AtStart /\ entered = {}

FirstSymbol(i, q, p) ==
  CHOOSE c \in Labeled(i, q) : Next(i, q, c) = p /\ \A d \in Labeled(i, q) : Next(i, q, d) = p => c <= d

(* compute_hfa_memory_layout, one state of the breadth-first traversal of   *)
(* the labeled transitions: its words lie behind those that name its tails  *)
Layout ==
  /\ stage = "layout" /\ queue # <<>>
  /\ LET q == Head(queue)
         new == {Next(dfa_no, q, c) : c \in Labeled(dfa_no, q)} \ marking
     IN /\ state_address' = [state_address EXCEPT ![dfa_no][q] = size[dfa_no]]
        /\ size' = [size EXCEPT ![dfa_no] = @ + Words(dfa_no, q) + Len(Tails(dfa_no, q))]
        /\ queue' = Tail(queue) \o InOrder(new, [p \in new |-> FirstSymbol(dfa_no, q, p)])
        /\ marking' = marking \cup new
  /\ UNCHANGED <<stage, dfa_no, fa, row>>

(* the next DFA, or what comes after the last one *)
NextDfa(after) ==
  IF dfa_no + 1 \in Machines THEN dfa_no' = dfa_no + 1 /\ UNCHANGED stage ELSE dfa_no' = 0 /\ stage' = after

LaidOut ==
  /\ stage = "layout" /\ queue = <<>>
  /\ NextDfa("map") /\ queue' = <<0>> /\ marking' = {0}
  /\ UNCHANGED <<state_address, size, fa, row>>

-----------------------------------------------------------------------------
TailWord(n) == [tail |-> n]

(* what the flag says: a head state has tails, or a tail is dead *)
Flag(i, q) == Tails(i, q) # <<>> \/ IsDead(i, q)

Word(i, q, c, last) ==
  [tail |-> NONE, address |-> state_address[i][q] % AddressLimit, compressed |-> IsCompressed(i, q),
   match |-> Accepts(i, q), flag |-> Flag(i, q), symbol |-> c, last |-> last]

(* a default transition never enters tails and reports no match, and leads *)
(* behind the words that name the tails                                    *)
DefaultWord(i, q) ==
  LET t == Default(i, q) IN
  [Word(i, t, 0, Labeled(i, q) = {}) EXCEPT
     !.address = @ + Len(Tails(i, t)), !.match = FALSE, !.flag = IsDead(i, t)]

Tx(i, q) == InOrder(Labeled(i, q), [c \in Labeled(i, q) |-> c])

LabeledWord(i, q, n) == Word(i, Next(i, q, Tx(i, q)[n]), Tx(i, q)[n], n = Len(Tx(i, q)))

(* the n-th word of the transitions of a state *)
TxWord(i, q, n) ==
  IF ~IsCompressed(i, q) THEN Word(i, Next(i, q, n), 0, FALSE)
  ELSE IF n = 0 THEN DefaultWord(i, q) ELSE LabeledWord(i, q, n)

WordsOf(i, q) ==
  LET first == state_address[i][q]
      border_words == Len(Tails(i, q))
  IN [a \in first..first + border_words + Words(i, q) - 1 |->
        IF a < first + border_words THEN TailWord(Tails(i, q)[a - first + 1])
        ELSE TxWord(i, q, a - first - border_words)]

NoDefault == IsCompressed(dfa_no, row) /\ Default(dfa_no, row) = NONE

(* compute_hfa_memory_map, the words of one state *)
Map ==
  /\ stage = "map" /\ row \in States(dfa_no) /\ ~NoDefault
  /\ LET w == WordsOf(dfa_no, row) IN
       fa' = [fa EXCEPT ![dfa_no] = [a \in DOMAIN w \cup DOMAIN @ |-> IF a \in DOMAIN w THEN w[a] ELSE @[a]]]
  /\ row' = row + 1
  /\ UNCHANGED <<stage, dfa_no, queue, marking, state_address, size>>

(* the address of a default transition that does not exist *)
MapUndefined ==
  /\ stage = "map" /\ row \in States(dfa_no) /\ NoDefault
  /\ stage' = "undefined"
  /\ UNCHANGED imageVars

Mapped ==
  /\ stage = "map" /\ row \notin States(dfa_no)
  /\ NextDfa("traverse") /\ row' = 0
  /\ UNCHANGED <<queue, marking, state_address, size, fa>>

-----------------------------------------------------------------------------
IsTail(a) == a \in DOMAIN fa[0] /\ fa[0][a].tail # NONE
IsTx(i, a) == a \in DOMAIN fa[i] /\ fa[i][a].tail = NONE

(* Mutant: the head goes on from the words that name its tails. *)
Entered_NotSkipped ==
  IF border THEN [state EXCEPT ![fa[0][state[0]].tail] = IF @ = NONE THEN 0 ELSE @] ELSE state

(* The tail that the first word names is started, unless it is active, and  *)
(* the head's address moved by one word.  More words are not read: == binds *)
(* more tightly than & in the condition of the loop.  compressed[n] stays   *)
(* as the tail left it.                                                     *)
Entered ==
  IF border THEN [state EXCEPT ![fa[0][state[0]].tail] = IF @ = NONE THEN 0 ELSE @, ![0] = @ + 1] ELSE state

(* what the DFAs do: a head state starts its tails with the next character, *)
(* and a tail in a dead state ends                                         *)
DfaSteps(c) ==
  LET started == [i \in Machines |-> IF dfa_state[i] = NONE /\ \E n \in DOMAIN hfa.border[dfa_state[0]] :
                                                                 hfa.border[dfa_state[0]][n] = i
                                     THEN 0 ELSE dfa_state[i]]
      next == [i \in Machines |-> IF started[i] = NONE THEN NONE ELSE Next(i, started[i], c)]
  IN /\ dfa_state' = [i \in Machines |-> IF next[i] # NONE /\ IsDead(i, next[i]) THEN NONE ELSE next[i]]
     /\ entered' = {i \in Machines : next[i] # NONE /\ Accepts(i, next[i])}

(* the tails of a state of the border are entered before a character *)
NextChar(c) ==
  /\ stage = "traverse" /\ char = NONE /\ (border => IsTail(state[0]))
  /\ char' = c /\ turn' = 0 /\ state' = Entered /\ matches' = {} /\ DfaSteps(c)
  /\ UNCHANGED <<stage, compressed, border>>

NewPacket ==
  /\ stage = "traverse" /\ char = NONE
  /\ state' = AtStart /\ compressed' = [i \in Machines |-> FALSE]
  /\ border' = FALSE /\ matches' = {}
  /\ dfa_state' = AtStart /\ entered' = {}
  /\ UNCHANGED <<stage, char, turn>>

(* the word behind the default word where the search for the symbol ends *)
SearchEnd ==
  LET Ends(b) == ~IsTx(turn, b) \/ fa[turn][b].last \/ fa[turn][b].symbol = char
  IN CHOOSE b \in state[turn] + 1..size[turn] : Ends(b) /\ \A d \in state[turn] + 1..b - 1 : ~Ends(d)

(* where a word leads to; a tail that gets to its dead state ends, and what *)
(* it was, compressed or not, is not reset                                  *)
Goto(w) ==
  IF turn # 0 /\ w.flag
  THEN state' = [state EXCEPT ![turn] = NONE] /\ UNCHANGED compressed
  ELSE state' = [state EXCEPT ![turn] = w.address] /\ compressed' = [compressed EXCEPT ![turn] = w.compressed]

Consume(w) ==
  /\ Goto(w)
  /\ matches' = IF w.match THEN matches \cup {turn} ELSE matches
  /\ border' = IF turn = 0 THEN w.flag ELSE border
  /\ turn' = turn + 1

Follow(w) == Goto(w) /\ UNCHANGED <<border, turn, matches>>

Running == stage = "traverse" /\ char # NONE /\ turn \in Machines /\ state[turn] # NONE

FullStep ==
  /\ Running /\ ~compressed[turn] /\ IsTx(turn, state[turn] + char)
  /\ Consume(fa[turn][state[turn] + char])

(* a state with a default transition only, or without one for the symbol *)
DefaultStep ==
  /\ Running /\ compressed[turn] /\ IsTx(turn, state[turn])
  /\ fa[turn][state[turn]].last \/ (IsTx(turn, SearchEnd) /\ fa[turn][SearchEnd].symbol # char)
  /\ Follow(fa[turn][state[turn]])

LabeledStep ==
  /\ Running /\ compressed[turn] /\ IsTx(turn, state[turn]) /\ ~fa[turn][state[turn]].last
  /\ IsTx(turn, SearchEnd) /\ fa[turn][SearchEnd].symbol = char
  /\ Consume(fa[turn][SearchEnd])

Inactive ==
  /\ stage = "traverse" /\ char # NONE /\ turn \in Machines /\ state[turn] = NONE
  /\ turn' = turn + 1 /\ UNCHANGED <<state, compressed, border, matches>>

EndOfChar ==
  /\ stage = "traverse" /\ char # NONE /\ turn \notin Machines
  /\ char' = NONE /\ UNCHANGED <<state, compressed, border, turn, matches>>

(* a word is read that is not one of a state, or not one that names a tail *)
ReadUndefined ==
  /\ \/ stage = "traverse" /\ char = NONE /\ border /\ ~IsTail(state[0])
     \/ Running /\ ~compressed[turn] /\ ~IsTx(turn, state[turn] + char)
     \/ Running /\ compressed[turn] /\ ~IsTx(turn, state[turn])
     \/ Running /\ compressed[turn] /\ IsTx(turn, state[turn])
          /\ ~fa[turn][state[turn]].last /\ ~IsTx(turn, SearchEnd)
  /\ stage' = "undefined"
  /\ UNCHANGED walkVars

Traverse ==
  \/ NewPacket \/ (\E c \in Symbol : NextChar(c)) \/ ReadUndefined
  \/ EndOfChar /\ UNCHANGED <<stage, dfa_state, entered>>
  \/ (FullStep \/ DefaultStep \/ LabeledStep \/ Inactive) /\ UNCHANGED <<stage, char, dfa_state, entered>>

HfaImageNext ==
  /\ \/ (Layout \/ LaidOut \/ Map \/ MapUndefined \/ Mapped) /\ UNCHANGED walkVars
     \/ Traverse /\ UNCHANGED imageVars
  /\ UNCHANGED hfa

HfaImageSpec == HfaImageInit /\ [][HfaImageNext]_hfaVars

-----------------------------------------------------------------------------
(* what nfa2dfa records as the dead state is not left and does not accept;  *)
(* minimize does not keep it up to date when it renumbers the states        *)
DeadNumberRight(i) ==
  \A q \in States(i) : IsDead(i, q) => ~Accepts(i, q) /\ \A c \in Symbol : Next(i, q, c) = q

(* The automata the traversal is made for: state 0 is stored in full, the   *)
(* image is small enough, no head state has more than one tail, the dead    *)
(* states of tails are dead, and no tail dies in a compressed state, after  *)
(* which it would be restarted as one.                                      *)
Sound ==
  /\ hfa.alphabet > TX_THRESHOLD
  /\ \A i \in Machines : size[i] <= AddressLimit
  /\ \A q \in States(0) : Len(hfa.border[q]) <= 1
  /\ \A i \in Machines : DeadNumberRight(i)
  /\ \A i \in Machines \ {0} : \A q \in States(i) \ {hfa.dfas[i].dead_state} : \A c \in Symbol :
       IsCompressed(i, q) => Next(i, q, c) # hfa.dfas[i].dead_state

(* The image of a sound hybrid automaton runs as its DFAs do: no word is    *)
(* read as what it is not, the same DFAs are active, at the words of the    *)
(* states they are in, and the same ones report a match.                    *)
RunsAsHybrid ==
  Sound =>
    /\ stage # "undefined"
    /\ stage = "traverse" /\ char = NONE =>
         /\ matches = entered
         /\ \A i \in Machines : state[i] = (IF dfa_state[i] = NONE THEN NONE
                                         ELSE state_address[i][dfa_state[i]])
===============================================================================
