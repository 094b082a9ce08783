------------------------------- MODULE NfaImage -------------------------------
(***************************************************************************)
(* The memory image of an NFA without epsilon transitions: compNFA of       *)
(* generator/comp_nfa.c, the layout and the words memory.c computes from    *)
(* it, and memory::traverse_nfa (with NFA_STATIC, as the code is built),    *)
(* which runs the image on one packet after the other.  An object of class  *)
(* memory has the image of a DFA or of an NFA: the queue, the marks, the    *)
(* addresses and the words are the variables of MemoryImage.               *)
(***************************************************************************)
EXTENDS MemoryImage

CONSTANTS
  Nfas,             \* the NFAs; states 0..size-1
  MAX_ACTIVE_SET,
  MaxPacket         \* bound: packets of a run

(* compNFA takes the states from a traversal: all can be reached from 0 *)
AllReachable(a) ==
  \A S \in SUBSET StatesOf(a) :
    0 \in S /\ (\A q \in S : \A x \in a.transitions[q] : x[2] \in S) => S = StatesOf(a)

ASSUME NfaImageAssumption ==
  /\ MAX_ACTIVE_SET \in Nat \ {0} /\ MaxPacket \in Nat \ {0}
  /\ \A a \in Nfas :
       /\ a.size \in Nat \ {0}
       /\ a.transitions \in [StatesOf(a) -> SUBSET (Symbol \X StatesOf(a))]
       /\ a.accepting \subseteq StatesOf(a)
       /\ AllReachable(a)

VARIABLES
  nfa,            \* the NFA
  stable,         \* the states that keep themselves active on every symbol
  active_set,     \* two lists of entries: an address and the stable flag
  active,         \* which of them is current
  entry,          \* the entry to be processed next
  packet,         \* number of the packet
  nfa_state, entered   \* the active states of the NFA, and those newly entered

nfaLayoutVars == <<queue, layoutVars, stable>>
nfaWalkVars == <<active_set, active, entry, char, matched, packet, nfa_state, entered>>
nfaImageVars == <<nfa, stage, nfaLayoutVars, fa, row, nfaWalkVars>>

-----------------------------------------------------------------------------
NfaStates == StatesOf(nfa)
Targets(q) == {x[2] : x \in nfa.transitions[q]}

IsStable(q) == \A c \in Symbol : <<c, q>> \in nfa.transitions[q]

(* sorted_tx_list: by symbol, then by state *)
TxKey(x) == x[1] * nfa.size + x[2]

(* the transitions that are stored: without the self-loops of stable states *)
Kept(q) == {x \in nfa.transitions[q] : ~(IsStable(q) /\ x[2] = q)}
Stored(q) == InOrder(Kept(q), [x \in Kept(q) |-> TxKey(x)])

NfaWords(q) == IF Kept(q) = {} THEN 1 ELSE Cardinality(Kept(q))

Start == [address |-> 0, stable |-> TRUE]   \* "state 0 is stable"

NfaImageInit ==
  /\ nfa \in Nfas
  /\ stage = "nfa_layout"
  /\ queue = <<0>> /\ marking = {0}
  /\ state_address = [q \in NfaStates |-> NO_ADDRESS] /\ base_index = 0
  /\ stable = {}
  /\ fa = [a \in {} |-> 0] /\ row = 0
  /\ active_set = [b \in 0..1 |-> IF b = 0 THEN <<Start>> ELSE <<>>]
  /\ active = 0 /\ entry = 1
  /\ char = NO_CHAR /\ matched = FALSE /\ packet = 1
  /\ nfa_state = {0} /\ entered = {}

(* the first transition of q to p: of the least key *)
FirstKey(q, p) == CHOOSE k \in {TxKey(x) : x \in {x \in nfa.transitions[q] : x[2] = p}} :
                    \A x \in nfa.transitions[q] : x[2] = p => k <= TxKey(x)

(* compute_nfa_memory_layout, one state of the queue *)
NfaLayout ==
  /\ stage = "nfa_layout" /\ queue # <<>>
  /\ LET q == Head(queue)
         new == Targets(q) \ marking IN
       /\ stable' = IF IsStable(q) THEN stable \cup {q} ELSE stable
       /\ state_address' = [state_address EXCEPT ![q] = base_index]
       /\ base_index' = base_index + NfaWords(q)
       /\ queue' = Tail(queue) \o InOrder(new, [p \in new |-> FirstKey(q, p)])
       /\ marking' = marking \cup new
  /\ UNCHANGED <<stage, fa, row>>

NfaLaidOut ==
  /\ stage = "nfa_layout" /\ queue = <<>>
  /\ stage' = "nfa_map"
  /\ UNCHANGED <<nfaLayoutVars, fa, row>>

-----------------------------------------------------------------------------
(* 0xFFFFFFFF: as a word it has the end marker, too *)
EmptyWord == [empty |-> TRUE, symbol |-> CSize - 1, last |-> TRUE]

(* Mutant: the end marker on the last transition of each symbol. *)
TxWord_EndOfSymbol(q, n) ==
  LET x == Stored(q)[n] IN
    [empty |-> FALSE, address |-> state_address[x[2]] % AddressLimit, symbol |-> x[1],
     match |-> x[2] \in nfa.accepting, stable |-> x[2] \in stable,
     last |-> n = Len(Stored(q)) \/ Stored(q)[n+1][1] # x[1]]

TxWord(q, n) ==
  LET x == Stored(q)[n] IN
    [empty |-> FALSE, address |-> state_address[x[2]] % AddressLimit, symbol |-> x[1],
     match |-> x[2] \in nfa.accepting, stable |-> x[2] \in stable, last |-> n = Len(Stored(q))]

NfaWordsOf(q) ==
  [a \in state_address[q]..state_address[q] + NfaWords(q) - 1 |->
     IF Kept(q) = {} THEN EmptyWord ELSE TxWord(q, a - state_address[q] + 1)]

(* compute_nfa_memory_map *)
NfaMap ==
  /\ stage = "nfa_map" /\ row < nfa.size
  /\ LET w == NfaWordsOf(row) IN
       fa' = [a \in DOMAIN w \cup DOMAIN fa |-> IF a \in DOMAIN w THEN w[a] ELSE fa[a]]
  /\ row' = row + 1
  /\ UNCHANGED <<stage, nfaLayoutVars>>

NfaMapped ==
  /\ stage = "nfa_map" /\ row = nfa.size
  /\ stage' = "nfa_traverse"
  /\ UNCHANGED <<nfaLayoutVars, fa, row>>

-----------------------------------------------------------------------------
(* Reset: the first entry is written and the first list made the current   *)
(* one; the lengths are kept.                                              *)
NextPacket ==
  /\ stage = "nfa_traverse" /\ char = NO_CHAR /\ packet < MaxPacket
  /\ packet' = packet + 1
  /\ active' = 0 /\ entry' = 1 /\ matched' = FALSE
  /\ active_set' = [active_set EXCEPT ![0] = IF @ = <<>> THEN @ ELSE <<Start>> \o Tail(@)]
  /\ nfa_state' = {0} /\ entered' = {}
  /\ UNCHANGED <<stage, char>>

(* what a state is led to by c; stable states stay active by themselves *)
Led(q, c) == {p \in NfaStates : <<c, p>> \in nfa.transitions[q]}
LedAnew(q, c) == Led(q, c) \ (IF IsStable(q) THEN {q} ELSE {})

NfaNextChar(c) ==
  /\ stage = "nfa_traverse" /\ char = NO_CHAR
  /\ char' = c /\ matched' = FALSE
  /\ nfa_state' = UNION {Led(q, c) : q \in nfa_state}
  /\ entered' = UNION {LedAnew(q, c) : q \in nfa_state}
  /\ UNCHANGED <<stage, active_set, active, entry, packet>>

(* the end of the do-while loop over the words from a: the first word with *)
(* the end marker or of a greater symbol                                   *)
EndsLoop(b) == fa[b].last \/ fa[b].symbol > char
LoopEnd(a) == CHOOSE b \in a..base_index - 1 : EndsLoop(b) /\ \A d \in a..b-1 : ~EndsLoop(d)

Hits(a) == {b \in a..LoopEnd(a) : ~fa[b].empty /\ fa[b].symbol = char}

(* the entries an active entry adds: itself when it is stable, and the     *)
(* targets of its transitions, in the order of their words                 *)
Added(e) ==
  LET hits == InOrder(Hits(e.address), [b \in Hits(e.address) |-> b])
      targets == [n \in 1..Len(hits) |->
                    [address |-> fa[hits[n]].address, stable |-> fa[hits[n]].stable]]
  IN IF e.stable THEN <<e>> \o targets ELSE targets

(* each entry only once *)
AddEntry(list, e) == IF \E n \in 1..Len(list) : list[n] = e THEN list ELSE Append(list, e)

AddAll(list, new) ==
  LET added[n \in 0..Len(new)] == IF n = 0 THEN list ELSE AddEntry(added[n-1], new[n])
  IN added[Len(new)]

NextList == AddAll(active_set[1 - active], Added(active_set[active][entry]))

ProcessEntry ==
  /\ stage = "nfa_traverse" /\ char # NO_CHAR /\ entry <= Len(active_set[active])
  /\ IF Len(NextList) >= MAX_ACTIVE_SET
     THEN stage' = "fatal" /\ UNCHANGED nfaWalkVars
     ELSE /\ active_set' = [active_set EXCEPT ![1 - active] = NextList]
          /\ matched' = (matched \/ \E b \in Hits(active_set[active][entry].address) : fa[b].match)
          /\ entry' = entry + 1
          /\ UNCHANGED <<stage, active, char, packet, nfa_state, entered>>

EndOfChar ==
  /\ stage = "nfa_traverse" /\ char # NO_CHAR /\ entry > Len(active_set[active])
  /\ active_set' = [active_set EXCEPT ![active] = <<>>]
  /\ active' = 1 - active /\ entry' = 1
  /\ char' = NO_CHAR
  /\ UNCHANGED <<stage, matched, packet, nfa_state, entered>>

BuildNfa == (NfaLayout \/ NfaLaidOut \/ NfaMap \/ NfaMapped) /\ UNCHANGED <<nfa, nfaWalkVars>>

Process == (ProcessEntry \/ EndOfChar) /\ UNCHANGED <<nfa, nfaLayoutVars, fa, row>>
Input == (NextPacket \/ \E c \in Symbol : NfaNextChar(c)) /\ UNCHANGED <<nfa, nfaLayoutVars, fa, row>>

NfaImageSpec == NfaImageInit /\ [][BuildNfa \/ Process \/ Input]_nfaImageVars

-----------------------------------------------------------------------------
(* The NFAs traverse_nfa is made for. *)
NfaSound == IsStable(0) /\ base_index <= AddressLimit

EntryOf(q) == [address |-> state_address[q], stable |-> q \in stable]

Entries(list) == {list[n] : n \in 1..Len(list)}

(* In the first packet, between two symbols, the current list has an entry *)
(* for every active state of the NFA, and no other; the symbol was counted *)
(* as a match when it led to an accepting state, other than by the loop of *)
(* a stable state, which has no word.  An NFA with fewer states than the   *)
(* lists have room never overflows them.                                   *)
RunsAsNfa ==
  NfaSound /\ packet = 1 =>
    /\ nfa.size < MAX_ACTIVE_SET => stage # "fatal"
    /\ stage = "nfa_traverse" /\ char = NO_CHAR =>
         /\ Entries(active_set[active]) = {EntryOf(q) : q \in nfa_state}
         /\ matched <=> entered \cap nfa.accepting # {}

===============================================================================
