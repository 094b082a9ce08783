----------------------------- MODULE MemoryImage -----------------------------
(***************************************************************************)
(* The memory image of a DFA: compDFA of generator/comp_dfa.c, the layout   *)
(* and the words memory.c computes from it, and memory::traverse_dfa, which *)
(* runs the image on packets.  The alphabet has been reduced and default    *)
(* transitions have been found before.  traverse_dfa advances several DFAs  *)
(* that do not influence each other; the image has one.                     *)
(***************************************************************************)
EXTENDS DefaultTx

CONSTANTS
  TX_THRESHOLD,   \* states with more labeled transitions are stored in full
  AddressLimit    \* a word has room for addresses below this one (2^21)

ASSUME ImageAssumption ==
  /\ TX_THRESHOLD \in Nat
  /\ AddressLimit \in Nat \ {0}
  /\ \A d \in Dfas : d.accepting \subseteq StatesOf(d)

NO_ADDRESS == -1
NO_CHAR == -1

VARIABLES
  marking,         \* the states that have been put into the queue
  state_address,   \* where the words of a state start
  base_index,      \* the end of the image so far
  fa,              \* the words that have been written
  row,             \* the state whose words are written next
  address, compressed,   \* where traverse_dfa is
  char,            \* the class of the character being processed
  dfa_state, matched     \* where the DFA is, and if the last step was a match

layoutVars == <<marking, state_address, base_index>>
walkVars == <<address, compressed, char, dfa_state, matched>>
imageVars == <<defaultVars, layoutVars, fa, row, walkVars>>

-----------------------------------------------------------------------------
AlphabetSize == max_class + 1

(* compDFA: the classes that q has labeled transitions for, and where they *)
(* lead                                                                    *)
Own(q) == {alphabet_tx[c] : c \in labeled_tx[q]}
Tx(q) == InOrder(Own(q), [k \in Own(q) |-> k])
SymbolOf(k) == CHOOSE c \in Symbol : alphabet_tx[c] = k
Labeled(q, k) == Next(q, SymbolOf(k))

(* compDFA::next_state *)
NextState(q, k) == Labeled(Chain(q, SymbolOf(k))[dfa.size], k)

IsCompressed(q) == Cardinality(Own(q)) <= TX_THRESHOLD

Words(q) == IF IsCompressed(q) THEN Cardinality(Own(q)) + 1 ELSE AlphabetSize

ImageInit ==
  /\ DefaultInit
  /\ marking = {0}
  /\ state_address = [q \in States |-> NO_ADDRESS]
  /\ base_index = 0
  /\ fa = [a \in {} |-> 0]
  /\ row = 0
  /\ address = 0 /\ compressed = FALSE /\ char = NO_CHAR
  /\ dfa_state = 0 /\ matched = FALSE

(* the states that labeled transitions of q lead to first *)
NewTargets(q) == {Labeled(q, k) : k \in Own(q)} \ marking
FirstClass(q, p) == CHOOSE k \in Own(q) : Labeled(q, k) = p /\ \A l \in Own(q) : Labeled(q, l) = p => k <= l

(* compute_dfa_memory_layout, one state of the breadth-first traversal of  *)
(* the labeled transitions                                                 *)
Layout ==
  /\ stage = "layout" /\ queue # <<>>
  /\ LET q == Head(queue) IN
       /\ state_address' = [state_address EXCEPT ![q] = base_index]
       /\ base_index' = base_index + Words(q)
       /\ queue' = Tail(queue) \o InOrder(NewTargets(q), [p \in NewTargets(q) |-> FirstClass(q, p)])
       /\ marking' = marking \cup NewTargets(q)
  /\ UNCHANGED stage

LaidOut ==
  /\ stage = "layout" /\ queue = <<>>
  /\ stage' = "map"
  /\ UNCHANGED <<queue, layoutVars>>

-----------------------------------------------------------------------------
Word(q, k, match, last) ==
  [address |-> state_address[q] % AddressLimit, compressed |-> IsCompressed(q),
   symbol |-> k, match |-> match, last |-> last]

Accepts(q) == q \in dfa.accepting

(* Mutant: the match marker of the state that is left. *)
FullWord_SourceAccepts(q, k) == Word(NextState(q, k), 0, Accepts(q), FALSE)

(* the words of a full state: where every class leads to *)
FullWord(q, k) == Word(NextState(q, k), 0, Accepts(NextState(q, k)), FALSE)

(* Mutant: the end marker is missing on a state without labeled transition. *)
CompressedWord_NoEnd(q, n) ==
  IF n = 0 THEN Word(default_tx[q], 0, FALSE, FALSE)
  ELSE Word(Labeled(q, Tx(q)[n]), Tx(q)[n], Accepts(Labeled(q, Tx(q)[n])), n = Len(Tx(q)))

(* the words of a compressed state: its default transition, which never    *)
(* reports a match, and its labeled ones; the last word has a marker       *)
CompressedWord(q, n) ==
  IF n = 0 THEN Word(default_tx[q], 0, FALSE, Own(q) = {})
  ELSE Word(Labeled(q, Tx(q)[n]), Tx(q)[n], Accepts(Labeled(q, Tx(q)[n])), n = Len(Tx(q)))

WordsOf(q) ==
  [a \in state_address[q]..state_address[q] + Words(q) - 1 |->
     IF IsCompressed(q) THEN CompressedWord(q, a - state_address[q])
     ELSE FullWord(q, a - state_address[q])]

(* compute_dfa_memory_map *)
Map ==
  /\ stage = "map" /\ row < dfa.size
  /\ ~(IsCompressed(row) /\ default_tx[row] = NO_STATE)
  /\ LET w == WordsOf(row) IN
       fa' = [a \in DOMAIN w \cup DOMAIN fa |-> IF a \in DOMAIN w THEN w[a] ELSE fa[a]]
  /\ row' = row + 1
  /\ UNCHANGED stage

(* the address of a default transition that does not exist *)
MapUndefined ==
  /\ stage = "map" /\ row < dfa.size
  /\ IsCompressed(row) /\ default_tx[row] = NO_STATE
  /\ stage' = "undefined"
  /\ UNCHANGED <<fa, row>>

Mapped ==
  /\ stage = "map" /\ row = dfa.size
  /\ stage' = "traverse"
  /\ UNCHANGED <<fa, row>>

-----------------------------------------------------------------------------
(* Mutant: the flag of the last packet is kept. *)
NewPacket_FlagKept ==
  /\ stage = "traverse" /\ char = NO_CHAR
  /\ address' = 0
  /\ dfa_state' = 0 /\ matched' = FALSE
  /\ UNCHANGED <<stage, char, compressed>>

(* every packet is run from state 0, which is taken for a full one *)
NewPacket ==
  /\ stage = "traverse" /\ char = NO_CHAR
  /\ address' = 0 /\ compressed' = FALSE
  /\ dfa_state' = 0 /\ matched' = FALSE
  /\ UNCHANGED <<stage, char>>

NextChar(c) ==
  /\ stage = "traverse" /\ char = NO_CHAR
  /\ char' = alphabet_tx[c]
  /\ dfa_state' = Next(dfa_state, c)
  /\ UNCHANGED <<stage, address, compressed, matched>>

Consume(w) ==
  /\ address' = w.address /\ compressed' = w.compressed
  /\ matched' = w.match
  /\ char' = NO_CHAR
  /\ UNCHANGED <<stage, dfa_state>>

Follow(w) ==
  /\ address' = w.address /\ compressed' = w.compressed
  /\ UNCHANGED <<stage, char, dfa_state, matched>>

(* the word behind the default word at which the search for the class ends *)
SearchEnd ==
  CHOOSE a \in address + 1..base_index :
    /\ a = base_index \/ fa[a].last \/ fa[a].symbol = char
    /\ \A b \in address + 1..a - 1 : ~(fa[b].last \/ fa[b].symbol = char)

FullStep ==
  /\ stage = "traverse" /\ char # NO_CHAR /\ ~compressed
  /\ address + char < base_index
  /\ Consume(fa[address + char])

(* a state with a default transition only, or without one for the class *)
DefaultStep ==
  /\ stage = "traverse" /\ char # NO_CHAR /\ compressed
  /\ address < base_index
  /\ \/ fa[address].last
     \/ SearchEnd < base_index /\ fa[SearchEnd].symbol # char
  /\ Follow(fa[address])

LabeledStep ==
  /\ stage = "traverse" /\ char # NO_CHAR /\ compressed
  /\ address < base_index /\ ~fa[address].last
  /\ SearchEnd < base_index /\ fa[SearchEnd].symbol = char
  /\ Consume(fa[SearchEnd])

(* a read behind the image *)
ReadUndefined ==
  /\ stage = "traverse" /\ char # NO_CHAR
  /\ \/ ~compressed /\ address + char >= base_index
     \/ compressed /\ address < base_index /\ ~fa[address].last /\ SearchEnd = base_index
  /\ stage' = "undefined"
  /\ UNCHANGED walkVars

Traverse ==
  \/ NewPacket \/ (\E c \in Symbol : NextChar(c))
  \/ FullStep \/ DefaultStep \/ LabeledStep \/ ReadUndefined

reducedVars == <<dfa, given, alphabet_tx, max_class, s, t>>
compressedVars == <<depth, default_tx, labeled_tx, dt_length, state>>

Build ==
  \/ DefaultNext /\ UNCHANGED <<layoutVars, fa, row, walkVars>>
  \/ (Layout \/ LaidOut) /\ UNCHANGED <<reducedVars, compressedVars, fa, row, walkVars>>
  \/ (Map \/ MapUndefined \/ Mapped)
     /\ UNCHANGED <<reducedVars, compressVars, layoutVars, walkVars>>

Step == Traverse /\ UNCHANGED <<reducedVars, compressVars, layoutVars, fa, row>>

ImageSpec ==
  /\ ImageInit /\ [][Build \/ Step]_imageVars
  /\ WF_imageVars(Build)
  /\ WF_imageVars(Step /\ char # NO_CHAR)

-----------------------------------------------------------------------------
(* The images the traversal is made for: state 0 is stored in full and all *)
(* addresses fit into a word.                                              *)
Sound == AlphabetSize > TX_THRESHOLD /\ base_index <= AddressLimit

(* The image runs as the DFA does: between characters it is at the words   *)
(* of the DFA's state, knows how they are stored, and has reported a match *)
(* when the DFA has entered an accepting state.  No state is stored with a *)
(* default transition that it does not have, and nothing behind the image  *)
(* is read.                                                                *)
RunsAsDfa ==
  Sound =>
    /\ stage # "undefined"
    /\ stage = "traverse" /\ char = NO_CHAR =>
         /\ address = state_address[dfa_state]
         /\ compressed = IsCompressed(dfa_state)
         /\ matched => Accepts(dfa_state)

MatchReported ==
  [][Sound /\ char # NO_CHAR /\ char' = NO_CHAR => (matched' <=> Accepts(dfa_state'))]_imageVars

(* Every character is consumed: chains of default transitions end in a     *)
(* state that has a labeled one.                                           *)
CharConsumed == Sound /\ stage = "traverse" /\ char # NO_CHAR ~> char = NO_CHAR

=============================================================================
