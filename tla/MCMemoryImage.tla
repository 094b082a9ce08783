---------------------------- MODULE MCMemoryImage ----------------------------
(* The images of memory.c: of a DFA, of an NFA and of a hybrid automaton.   *)
(* A behaviour builds and runs one of them; the variables of the others     *)
(* stay as they are.                                                       *)
EXTENDS NfaImage, TLC

VARIABLE kind  \* which image

VARIABLES
  h_hfa, h_stage, h_dfa_no, h_queue, h_marking, h_state_address, h_size, h_fa, h_row, h_state,
  h_compressed, h_border, h_char, h_turn, h_matches, h_dfa_state, h_entered

CONSTANTS HfaAddresses, ImageHfas

-----------------------------------------------------------------------------
(* DFAs whose states are numbered as they are discovered.  Some have        *)
(* alphabets that are too small and some images are too large.              *)
FoundInOrder(table, n) ==
  \A q \in 1..n-1 : \E p \in 0..q-1 : \E c \in DOMAIN table[0] :
    /\ table[p][c] = q
    /\ \A r \in 0..p : \A b \in DOMAIN table[0] : table[r][b] > q => r = p /\ b > c

MCTables(n) ==
  {[q \in 0..n-1 |-> [c \in Symbol |->
      CASE c = 0 -> 0 [] c \in 1..2 -> f[q][c] [] c = 3 -> IF q \in back THEN 0 ELSE f[q][2]]] :
    f \in [0..n-1 -> [1..2 -> 0..n-1]], back \in SUBSET (0..n-1)}

(* four states: one of them may be left only as state 0 is *)
MCChains ==
  {(0 :> (0 :> 0 @@ 1 :> 1 @@ 2 :> a[1] @@ 3 :> 0) @@ 1 :> (0 :> a[2] @@ 1 :> 2 @@ 2 :> a[3] @@ 3 :> 0)
    @@ 2 :> (0 :> a[4] @@ 1 :> 1 @@ 2 :> 3 @@ 3 :> 3) @@ 3 :> (0 :> a[5] @@ 1 :> a[1] @@ 2 :> 1 @@ 3 :> 3)) :
    a \in [1..5 -> {0, 1}]}

MCDfas ==
  {[size |-> Cardinality(DOMAIN f), state_table |-> f, accepting |-> {Cardinality(DOMAIN f) - 1}] :
     f \in {f \in MCTables(2) \cup MCTables(3) \cup MCChains :
              FoundInOrder(f, Cardinality(DOMAIN f))}}

MCAlphabets == {[c \in Symbol |-> 0], [c \in Symbol |-> IF c < 2 THEN 1 ELSE 0]}

-----------------------------------------------------------------------------
(* NFAs in which a state may stay on a symbol, go on to the next state,     *)
(* both or neither; some have a stable state 0, as without anchored rules.  *)
(* The symbols 2 and 3 do what 0 and 1 do.                                  *)
NfasOf(n) ==
  {[size |-> n,
    transitions |-> [q \in 0..n-1 |->
      {<<c, q>> : c \in {c \in Symbol : 0 \in f[<<q, c % 2>>]}} \cup
      {<<c, q + 1>> : c \in {c \in Symbol : 1 \in f[<<q, c % 2>>]}}],
    accepting |-> {n - 1}] :
   f \in {g \in [(0..n-1) \X (0..1) -> {{}, {0}, {1}, {0, 1}}] :
            /\ \A c \in 0..1 : 1 \notin g[<<n - 1, c>>]
            /\ \A q \in 0..n-2 : \E c \in 0..1 : 1 \in g[<<q, c>>]}}

MCNfas == NfasOf(2) \cup NfasOf(3)

-----------------------------------------------------------------------------
(* Hybrid automata: heads and tails of two and three states over three      *)
(* classes, with default transitions to any state with a smaller number.    *)
Compress(table, default, accepting, dead) ==
  [size |-> Cardinality(DOMAIN table), table |-> table, accepting |-> accepting, dead_state |-> dead,
   default |-> [q \in DOMAIN table |-> IF q = 0 THEN -1 ELSE default[q]],
   labeled |-> [q \in DOMAIN table |-> IF q = 0 THEN 0..2
                                       ELSE {c \in 0..2 : table[q][c] # table[default[q]][c]}]]

Row(a, b, c) == 0 :> a @@ 1 :> b @@ 2 :> c

Heads ==
  {Compress(0 :> Row(0, 1, x) @@ 1 :> Row(y, 2, 1) @@ 2 :> Row(y, z, x), 1 :> 0 @@ 2 :> d, {2}, NO_STATE) :
     x \in 0..1, y \in 0..1, z \in 0..2, d \in 0..1}

(* tails that end in a dead state, or in a state that accepts for ever, one *)
(* that dies when it is in a compressed state, and some with the number of  *)
(* a dead state that minimize has moved                                     *)
MCTails ==
  {Compress(0 :> Row(1, x, 2) @@ 1 :> Row(1, x, y) @@ 2 :> Row(2, 2, 2), 1 :> 0 @@ 2 :> 0, {1}, 2) :
     x \in 1..2, y \in 0..2}
  \cup {Compress(0 :> Row(1, x, 2) @@ 1 :> Row(0, 1, 2) @@ 2 :> Row(2, 2, 2), 1 :> 0 @@ 2 :> d, {2},
                 IF x = 1 THEN 3 - d ELSE NO_STATE) :
          x \in 0..1, d \in 0..1}

MCBorders == {[q \in 0..2 |-> IF q \in S THEN ts ELSE <<>>] : S \in {{1}, {2}, {1, 2}}, ts \in {<<1>>, <<2, 1>>}}
             \cup {[q \in 0..2 |-> IF q = 0 THEN <<>> ELSE <<q>>]}

(* one with an alphabet that is too small *)
MCSmall ==
  [alphabet |-> 2, tails |-> 0, border |-> [q \in {0} |-> <<>>],
   dfas |-> 0 :> [size |-> 1, table |-> [q \in {0} |-> [c \in 0..1 |-> 0]], accepting |-> {}, dead_state |-> NO_STATE,
                  default |-> [q \in {0} |-> -1], labeled |-> [q \in {0} |-> 0..1]]]

MCHfas ==
  {[alphabet |-> 3, tails |-> 2, dfas |-> 0 :> h @@ 1 :> v @@ 2 :> u, border |-> b] : h \in Heads, v \in MCTails,
     u \in {CHOOSE v \in MCTails : v.dead_state = 2 /\ v.table[1][2] = 0}, b \in MCBorders}
  \cup {MCSmall}

H == INSTANCE HfaImage_proofs WITH
  Hfas <- ImageHfas, AddressLimit <- HfaAddresses,
  hfa <- h_hfa, stage <- h_stage, dfa_no <- h_dfa_no, queue <- h_queue, marking <- h_marking,
  state_address <- h_state_address, size <- h_size, fa <- h_fa, row <- h_row, state <- h_state,
  compressed <- h_compressed, border <- h_border, char <- h_char, turn <- h_turn, matches <- h_matches, dfa_state <- h_dfa_state, entered <- h_entered

-----------------------------------------------------------------------------
hfaImage == <<h_hfa, h_stage, h_dfa_no, h_queue, h_marking, h_state_address, h_size, h_fa, h_row,
              h_state, h_compressed, h_border, h_char, h_turn, h_matches, h_dfa_state, h_entered>>

(* what only the image of a DFA, or only that of an NFA, has *)
dfaOnly == <<reducedVars, compressedVars, address, compressed, dfa_state>>
nfaOnly == <<nfa, stable, active_set, active, entry, packet, nfa_state, entered>>

ASSUME ImagesAssumption == H!HfaAssumption

(* the automata and the traversal of the images that are not built *)
NoDfa ==
  /\ dfa = [size |-> 1, state_table |-> [q \in {0} |-> [c \in Symbol |-> 0]], accepting |-> {}]
  /\ given = [c \in Symbol |-> 0]
  /\ alphabet_tx = given /\ max_class = 0 /\ s = 0 /\ t = 0
  /\ depth = <<>> /\ default_tx = <<>> /\ labeled_tx = <<>> /\ dt_length = <<>> /\ state = 1
  /\ address = 0 /\ compressed = FALSE /\ dfa_state = 0
NoNfa ==
  /\ nfa = (CHOOSE a \in Nfas : TRUE) /\ stable = {}
  /\ active_set = <<>> /\ active = 0 /\ entry = 1 /\ packet = 1 /\ nfa_state = {} /\ entered = {}
NoImage ==
  /\ stage = "none" /\ queue = <<>> /\ marking = {} /\ state_address = <<>> /\ base_index = 0
  /\ fa = <<>> /\ row = 0 /\ char = NO_CHAR /\ matched = FALSE
NoHfa == h_hfa = (CHOOSE a \in ImageHfas : TRUE) /\ H!HfaImageInit

MCInit ==
  \/ kind = "dfa" /\ NoHfa /\ NoNfa /\ ImageInit
  \/ kind = "nfa" /\ NoHfa /\ NoDfa /\ NfaImageInit
  \/ kind = "hfa" /\ NoDfa /\ NoNfa /\ NoImage /\ H!HfaImageInit

OfDfa == kind = "dfa" /\ UNCHANGED <<kind, nfaOnly, hfaImage>>
OfNfa == kind = "nfa" /\ UNCHANGED <<kind, dfaOnly, hfaImage>>
OfHfa == kind = "hfa" /\ UNCHANGED <<kind, imageVars, nfaOnly>>

MCNext ==
  \/ OfDfa /\ (Build \/ Step)
  \/ OfNfa /\ (BuildNfa \/ Process \/ Input)
  \/ OfHfa /\ H!HfaImageNext

MCSpec ==
  /\ MCInit /\ [][MCNext]_<<kind, imageVars, nfaOnly, hfaImage>>
  /\ WF_imageVars(OfDfa /\ Build)
  /\ WF_imageVars(OfDfa /\ Step /\ char # NO_CHAR)

(* HfaImage.tla: the image of a hybrid automaton runs as its DFAs do. *)
RunsAsHybrid == H!RunsAsHybrid
=============================================================================
