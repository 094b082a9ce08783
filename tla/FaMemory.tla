------------------------------- MODULE FaMemory -------------------------------
(***************************************************************************)
(* The simulation of memory layouts: fa_memory.c (of one DFA or one NFA)    *)
(* and dfas_memory.c (of several DFAs) give every state an address and say  *)
(* which words a state reads for a symbol; the traversals of trace.c follow *)
(* a trace and send these reads through the cache of cache.c.               *)
(* A state is in full, with an entry for every symbol, when it has more     *)
(* than threshold transitions, or it has a layout of its own: the entry of  *)
(* its default or epsilon transition, and its labeled transitions.          *)
(***************************************************************************)
EXTENDS Integers, FiniteSets, SequencesExt

CONSTANTS
  CSIZE,      \* symbols are 0..CSIZE-1
  CHUNK,      \* symbols per bit of the first-level bitmap: 8
  PER_WORD,   \* second-level bitmaps per word: 4
  Simulations \* what is simulated: kind, fas, layout, threshold, cache (see below)

Char == 0..CSIZE-1

(* A DFA: a symbol that is not labeled takes the default transition, which  *)
(* leads to a state with the same next state; an NFA.                       *)
IsDfa(fa) ==
  /\ fa.state_table \in [0..fa.size-1 -> [Char -> 0..fa.size-1]]
  /\ fa.labeled \in [0..fa.size-1 -> SUBSET Char]
  /\ \A q \in 0..fa.size-1 : \A s \in Char \ fa.labeled[q] :
       /\ fa.default_tx[q] \in 0..fa.size-1
       /\ fa.state_table[q][s] = fa.state_table[fa.default_tx[q]][s]

IsAnNfa(fa) ==
  /\ fa.transitions \in [0..fa.size-1 -> SUBSET (Char \X (0..fa.size-1))]
  /\ fa.epsilon \in [0..fa.size-1 -> SUBSET (0..fa.size-1)]

(* kind "dfas": fas is a sequence of DFAs with default transitions; "dfa":  *)
(* of one DFA, in an fa_memory; "nfa": of one NFA.  The width of an entry   *)
(* of INDIRECT_ADDR must be a number of words.                              *)
FaMemoryAssumption ==
  /\ CHUNK \in Nat \ {0} /\ CSIZE \in Nat \ {0} /\ CSIZE % CHUNK = 0 /\ PER_WORD \in Nat \ {0}
  /\ \A m \in Simulations :
       /\ m.kind \in {"dfas", "dfa", "nfa"}
       /\ Len(m.fas) \in Nat \ {0} /\ DOMAIN m.fas = 1..Len(m.fas) /\ (m.kind # "dfas" => Len(m.fas) = 1)
       /\ \A k \in DOMAIN m.fas :
            /\ m.fas[k].size \in Nat \ {0}
            /\ IF m.kind = "nfa" THEN IsAnNfa(m.fas[k]) ELSE IsDfa(m.fas[k])
       /\ m.layout \in {"LINEAR", "BITMAP", "INDIRECT_ADDR"} /\ m.threshold \in Nat
       /\ m.layout = "INDIRECT_ADDR" => (m.threshold + 1) % 4 = 0
       /\ m.cache.line_size \in Nat \ {0} /\ m.cache.assoc \in Nat \ {0} /\ m.cache.lines_per_set \in Nat \ {0}

ASSUME SimulationsAssumption == FaMemoryAssumption

VARIABLES
  mem,        \* the simulation
  address,    \* state_address of every state <<number of the automaton, state>>
  offset,     \* memory_offset of every DFA: its states in full come before
  content,    \* the lines of the cache
  c,          \* the symbol that is processed
  todo,       \* DFAs (in order) or active NFA states that have not processed it
  reads,      \* addresses still to be read for the state that is looked at
  active,     \* the state of every DFA, the active states of the NFA
  accepted_rules,
  exact, exact_rules   \* where the automata are, and the rules they have met

memoryVars == <<mem, address, offset>>
exactVars == <<exact, exact_rules>>
faMemoryVars == <<memoryVars, content, c, todo, reads, active, accepted_rules, exactVars>>

NO_CHAR == -1
NO_LINE == -1  \* a line of the cache that is not valid

-----------------------------------------------------------------------------
IsNfa == mem.kind = "nfa"
Fa(x) == mem.fas[x[1]]
AllStates == UNION {{<<k, q>> : q \in 0..mem.fas[k].size-1} : k \in DOMAIN mem.fas}

(* transitions that are labeled, their number, and their symbols *)
Labeled(x) == IF IsNfa THEN {t[1] : t \in Fa(x).transitions[x[2]]} ELSE Fa(x).labeled[x[2]]
num_labeled_tr(x) == Cardinality(IF IsNfa THEN Fa(x).transitions[x[2]] ELSE Fa(x).labeled[x[2]])

HasEpsilon(x) == IsNfa /\ Fa(x).epsilon[x[2]] # {}

(* the entry in front of the labeled transitions: default or epsilon *)
HasFirst(x) == ~IsNfa \/ HasEpsilon(x)

InFull(x) == num_labeled_tr(x) > mem.threshold

Width == mem.threshold + 1   \* of an entry of INDIRECT_ADDR, in bytes

RoundUp(n, d) == (n + d - 1) \div d
One(b) == IF b THEN 1 ELSE 0

(* the chunks of symbols with transitions; bits that are set are words      *)
bitmap(x) == {s \div CHUNK : s \in Labeled(x)}
BitmapWords(x) == RoundUp(Cardinality(bitmap(x)), PER_WORD)

FullBytes(x) ==
  (CSIZE + One(HasEpsilon(x))) * (IF mem.layout = "INDIRECT_ADDR" THEN Width ELSE 4)

(* Mutant: the entry of the default transition is forgotten. *)
OwnBytes_NoDefault(x) ==
  CASE mem.layout = "LINEAR" -> num_labeled_tr(x) * 4
    [] mem.layout = "BITMAP" -> (1 + BitmapWords(x) + num_labeled_tr(x) + One(HasFirst(x))) * 4
    [] mem.layout = "INDIRECT_ADDR" -> (num_labeled_tr(x) + One(HasFirst(x))) * Width

OwnBytes(x) ==
  CASE mem.layout = "LINEAR" -> (num_labeled_tr(x) + One(HasFirst(x))) * 4
    [] mem.layout = "BITMAP" -> (1 + BitmapWords(x) + num_labeled_tr(x) + One(HasFirst(x))) * 4
    [] mem.layout = "INDIRECT_ADDR" -> (num_labeled_tr(x) + One(HasFirst(x))) * Width

Bytes(x) == IF InFull(x) THEN FullBytes(x) ELSE OwnBytes(x)

(* The states of an automaton: those in full come first, and of the states  *)
(* of an NFA those with an epsilon transition before the ones without.      *)
Group(x) == (IF InFull(x) THEN 0 ELSE 2) + (IF HasEpsilon(x) THEN 0 ELSE 1)

(* init places the states of one group after the other, DFA by DFA *)
Precedes(x, y) ==
  \/ x[1] < y[1]
  \/ x[1] = y[1] /\ Group(x) < Group(y)
  \/ x[1] = y[1] /\ Group(x) = Group(y) /\ x[2] < y[2]

(* next_address when the states of S have been placed *)
BytesOf(S) == Cardinality(UNION {{x} \X (1..Bytes(x)) : x \in S})

Placed == [x \in AllStates |-> BytesOf({y \in AllStates : Precedes(y, x)})]

Offsets ==
  [k \in DOMAIN mem.fas |-> BytesOf({y \in AllStates : y[1] < k \/ (y[1] = k /\ InFull(y))})]

-----------------------------------------------------------------------------
(* the words of an entry *)
Word(a) == <<a>>
Entry(a) == [i \in 1..Width \div 4 |-> a + (i - 1) * 4]

(* transitions of x whose symbols come before s *)
Before(x, s) == Cardinality({d \in Labeled(x) : d < s})

(* The mask of the bitmaps is a negative int, and >> copies its sign: a     *)
(* chunk is taken for set when it or a chunk before it is.                  *)
Marked(x) == {n \in 0..CSIZE \div CHUNK - 1 : \E k \in bitmap(x) : k <= n}

FullAccesses(x, s) ==
  LET first == One(HasEpsilon(x))
  IN IF mem.layout = "INDIRECT_ADDR"
     THEN (IF HasEpsilon(x) THEN Entry(address[x]) ELSE <<>>) \o Entry(address[x] + (first + s) * Width)
     ELSE (IF HasEpsilon(x) THEN Word(address[x]) ELSE <<>>) \o Word(address[x] + (first + s) * 4)

(* one word after the other, up to the transition on s or the one behind it *)
LinearAccesses(x, s) ==
  [i \in 1..One(HasFirst(x)) + Before(x, s) + 1 |-> address[x] + (i - 1) * 4]

(* the bitmap of the first level, at base, and those of the second up to s  *)
Bitmaps(x, s, base) ==
  Word(base) \o
  (IF s \div CHUNK \notin Marked(x) THEN <<>>
   ELSE [i \in 1..RoundUp(Cardinality({n \in Marked(x) : n <= s \div CHUNK}), PER_WORD) |-> base + i * 4])

(* the word behind the second level, as far as the reader knows *)
BehindBitmaps(x, base) == base + (1 + RoundUp(Cardinality(Marked(x)), PER_WORD)) * 4

(* a DFA: then the transition or the default transition *)
get_dfa_accesses(x, s) ==
  IF InFull(x) THEN FullAccesses(x, s)
  ELSE CASE mem.layout = "LINEAR" -> LinearAccesses(x, s)
         [] mem.layout = "BITMAP" ->
              Bitmaps(x, s, address[x]) \o
              Word(BehindBitmaps(x, address[x]) + (IF s \in Labeled(x) THEN 1 + Before(x, s) ELSE 0) * 4)
         [] mem.layout = "INDIRECT_ADDR" ->
              Entry(address[x] + (IF s \in Labeled(x) THEN 1 + Before(x, s) ELSE 0) * Width)

(* an NFA: the epsilon transition is always read.  Without one, the word of *)
(* a transition is looked for one word early in a bitmapped state.          *)
get_nfa_accesses(x, s) ==
  LET first == One(HasEpsilon(x))
      epsilon == IF HasEpsilon(x) THEN Word(address[x]) ELSE <<>>
      base == address[x] + 4 * first
  IN IF InFull(x) THEN FullAccesses(x, s)
     ELSE CASE mem.layout = "LINEAR" -> LinearAccesses(x, s)
            [] mem.layout = "BITMAP" ->
                 epsilon \o Bitmaps(x, s, base) \o
                 (IF s \notin Labeled(x) THEN <<>>
                  ELSE Word(BehindBitmaps(x, base) + (first - 1 + Before(x, s)) * 4))
            [] mem.layout = "INDIRECT_ADDR" ->
                 (IF HasEpsilon(x) THEN Entry(address[x]) ELSE <<>>) \o
                 (IF s \notin Labeled(x) THEN <<>>
                  ELSE Entry(address[x] + (first + Before(x, s)) * Width))

Accesses(x, s) == IF IsNfa THEN get_nfa_accesses(x, s) ELSE get_dfa_accesses(x, s)

-----------------------------------------------------------------------------
Line(a) == a \div mem.cache.line_size
Ways(a) == {(Line(a) % mem.cache.lines_per_set) + i * mem.cache.lines_per_set : i \in 0..mem.cache.assoc - 1}

(* Mutant: only the first way is searched. *)
Hit_FirstWay(a) == content[Line(a) % mem.cache.lines_per_set] = Line(a)

Hit(a) == \E w \in Ways(a) : content[w] = Line(a)

(* where a line is put: the first way that is free, else any *)
Victims(a) ==
  LET free == {w \in Ways(a) : content[w] = NO_LINE}
  IN IF free = {} THEN Ways(a) ELSE {CHOOSE w \in free : \A v \in free : w <= v}

(* cache::read of the next address *)
ReadWord ==
  /\ reads # <<>>
  /\ IF Hit(Head(reads)) THEN UNCHANGED content
     ELSE \E w \in Victims(Head(reads)) : content' = [content EXCEPT ![w] = Line(Head(reads))]
  /\ reads' = Tail(reads)
  /\ UNCHANGED <<memoryVars, c, todo, active, accepted_rules, exactVars>>

-----------------------------------------------------------------------------
(* the states epsilon transitions lead to from S *)
Closure(S) ==
  {q \in 0..mem.fas[1].size-1 :
     \A T \in SUBSET (0..mem.fas[1].size-1) :
       S \subseteq T /\ (\A r \in T : mem.fas[1].epsilon[r] \subseteq T) => q \in T}

RulesOf(k, q) == mem.fas[k].accepting[q]

(* no state has an address; init gives it one *)
FaMemoryInit ==
  /\ mem \in Simulations
  /\ address = [x \in {} |-> 0] /\ offset = [k \in {} |-> 0]
  /\ content = [w \in 0..mem.cache.assoc * mem.cache.lines_per_set - 1 |-> NO_LINE]
  /\ c = NO_CHAR /\ todo = {} /\ reads = <<>>
  /\ active = IF mem.kind = "nfa" THEN Closure({0}) ELSE [k \in DOMAIN mem.fas |-> 0]
  /\ accepted_rules = {}
  /\ exact = active /\ exact_rules = {}

LayOut ==
  /\ address = [x \in {} |-> 0]
  /\ address' = Placed /\ offset' = Offsets
  /\ UNCHANGED <<mem, content, c, todo, reads, active, accepted_rules, exactVars>>

(* the states of an automaton that c leads to *)
get_next(k, S, s) == Closure(UNION {{t[2] : t \in {t \in mem.fas[k].transitions[q] : t[1] = s}} : q \in S})

(* Every DFA, or every active state, processes a character; what the        *)
(* automata do is written down for comparison.                              *)
NextChar ==
  /\ address # [x \in {} |-> 0] /\ c = NO_CHAR
  /\ c' \in Char
  /\ todo' = IF IsNfa THEN active ELSE DOMAIN mem.fas
  /\ reads' = IF IsNfa THEN <<>> ELSE Accesses(<<1, active[1]>>, c')
  /\ exact' = IF IsNfa THEN get_next(1, exact, c')
              ELSE [k \in DOMAIN mem.fas |-> mem.fas[k].state_table[exact[k]][c']]
  /\ exact_rules' = exact_rules \cup
       (IF IsNfa THEN UNION {RulesOf(1, q) : q \in exact'} ELSE UNION {RulesOf(k, exact'[k]) : k \in DOMAIN mem.fas})
  /\ UNCHANGED <<memoryVars, content, active, accepted_rules>>

(* the DFA whose turn it is *)
Turn == CHOOSE k \in todo : \A n \in todo : k <= n

allow_def_tx(k, q) == address[<<k, q>>] >= offset[k]

(* whether a state moves on a symbol, or follows its default transition *)
Consumed(k, s) == s \in mem.fas[k].labeled[active[k]] \/ ~allow_def_tx(k, active[k])

(* Mutant: states in full follow default transitions, too. *)
NextState_Default(k, s) ==
  IF s \in mem.fas[k].labeled[active[k]] THEN mem.fas[k].state_table[active[k]][s]
  ELSE mem.fas[k].default_tx[active[k]]

(* the state a DFA is looked at in next *)
NextState(k, s) ==
  IF Consumed(k, s) THEN mem.fas[k].state_table[active[k]][s] ELSE mem.fas[k].default_tx[active[k]]

(* trace::traverse: rules count when the character has been consumed *)
DfasStep ==
  /\ mem.kind = "dfas" /\ c # NO_CHAR /\ reads = <<>> /\ todo # {}
  /\ LET k == Turn
         left == IF Consumed(k, c) THEN todo \ {k} ELSE todo
     IN /\ active' = [active EXCEPT ![k] = NextState(k, c)]
        /\ todo' = left
        /\ accepted_rules' = accepted_rules \cup (IF Consumed(k, c) THEN RulesOf(k, NextState(k, c)) ELSE {})
        /\ reads' = IF left = {} THEN <<>>
                    ELSE LET n == CHOOSE n \in left : \A i \in left : n <= i
                         IN Accesses(<<n, active'[n]>>, c)
        /\ c' = IF left = {} THEN NO_CHAR ELSE c
  /\ UNCHANGED <<memoryVars, content, exactVars>>

(* trace::traverse_dfa: rules of every state that is passed count *)
DfaStep ==
  /\ mem.kind = "dfa" /\ c # NO_CHAR /\ reads = <<>>
  /\ active' = [active EXCEPT ![1] = NextState(1, c)]
  /\ accepted_rules' = accepted_rules \cup RulesOf(1, NextState(1, c))
  /\ IF Consumed(1, c) THEN todo' = {} /\ c' = NO_CHAR /\ reads' = <<>>
     ELSE UNCHANGED <<todo, c>> /\ reads' = Accesses(<<1, active'[1]>>, c)
  /\ UNCHANGED <<memoryVars, content, exactVars>>

(* trace::traverse_nfa: an active state, in the order of the addresses;     *)
(* its own rules count, not those of the states it leads to                 *)
NfaStep ==
  /\ IsNfa /\ c # NO_CHAR /\ reads = <<>>
  /\ \E q \in todo :
       /\ todo' = todo \ {q}
       /\ reads' = Accesses(<<1, q>>, c)
       /\ accepted_rules' = accepted_rules \cup RulesOf(1, q)
  /\ UNCHANGED <<memoryVars, content, c, active, exactVars>>

NfaAdvance ==
  /\ IsNfa /\ c # NO_CHAR /\ reads = <<>> /\ todo = {}
  /\ active' = get_next(1, active, c)
  /\ c' = NO_CHAR
  /\ UNCHANGED <<memoryVars, content, todo, reads, accepted_rules, exactVars>>

FaMemoryNext == LayOut \/ NextChar \/ ReadWord \/ DfasStep \/ DfaStep \/ NfaStep \/ NfaAdvance

FaMemorySpec == FaMemoryInit /\ [][FaMemoryNext]_faMemoryVars

-----------------------------------------------------------------------------
(* the second level is as long as the reader thinks: all chunks behind the  *)
(* first one with a transition have one, or there is room in the last word  *)
WordsCounted(x) == BitmapWords(x) = RoundUp(Cardinality(Marked(x)), PER_WORD)

(* The words of states do not overlap, and a state finds every transition   *)
(* in a word of its own: no two transitions, of one or of two states, share *)
(* the word that is read last.                                              *)
TransitionsApart ==
  address # [x \in {} |-> 0] /\ c = NO_CHAR =>
    LET found == {p \in AllStates \X Char :
                    /\ p[2] \in Labeled(p[1])
                    /\ mem.layout = "BITMAP" => WordsCounted(p[1])}
        Found(p) == Last(Accesses(p[1], p[2]))
    IN /\ \A p \in found : Found(p) \in address[p[1]]..address[p[1]] + Bytes(p[1]) - 4
       /\ \A p, r \in found : Found(p) = Found(r) => p = r
       /\ \A x \in AllStates, k \in DOMAIN offset : x[1] = k => (allow_def_tx(k, x[2]) <=> ~InFull(x)) \/ IsNfa

(* The simulation runs as the automata do, and counts their rules; that of  *)
(* one DFA may count more, that of an NFA is one character late.            *)
SimulationIsRun ==
  c = NO_CHAR =>
    /\ active = exact
    /\ mem.kind = "dfas" => accepted_rules = exact_rules
    /\ mem.kind = "dfa" => exact_rules \subseteq accepted_rules
    /\ IsNfa => accepted_rules \cup UNION {RulesOf(1, q) : q \in active}
                  = exact_rules \cup UNION {RulesOf(1, q) : q \in Closure({0})}

(* No line is twice in the cache, and every line is in a way of its set. *)
CacheIsASet ==
  \A v, w \in DOMAIN content :
    content[v] # NO_LINE =>
      /\ content[v] % mem.cache.lines_per_set = v % mem.cache.lines_per_set
      /\ content[v] = content[w] => v = w
=============================================================================
