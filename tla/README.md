# DFAGE in TLA+

DFAGE has two programs. A *generator* (`src/generator/`, C++ in `.c` files)
turns regular expressions or NFAs into DFAs and can simulate several compressed
representations on traces. A *GPU engine* (`src/dfa_engine/`, CUDA) loads the
DFAs and runs them in parallel over an input file that is cut into packets.
This directory specifies both: TLA+ modules translated from the code, TLC runs
on small instances, and TLAPS proofs for every value of the constants.

`PROJECT.json` is the index: for every definition the lines it stands for, for
every run its properties, for every property a mutant that breaks it, and the
list of the code's hazards.

## 1. Inventory

| Component | State | Operations | What makes it correct |
|---|---|---|---|
| input packets (`udfa_main.cu`, `packets.cu`) | packet being filled, packed array, sizes, running padding | read byte, pad, add packet | no byte lost; the layout the kernel indexes |
| kernel (`udfa_gpu.cu`, texture twin in `udfa_host.cu`) | per thread: offset, state, match count; shared match arrays | one thread per packet and DFA | threads never mix results, stay in bounds, cover everything |
| host (`udfa_host.cu`, `udfa_main.cu`) | device arrays, launch geometry | allocate, tune, launch, synchronize, report | reads only what was written; reports exact |
| automaton loader (`finite_automaton.cpp`) | state table, rules of states | read binary, read MNRL, map states to rules | table is the DFA's; accepting states marked |
| NFA (`nfa.c`) | graph of states with epsilon transitions, marks, ids | build, epsilon removal, reduction, numbering, subset construction | language preserved; ids unique |
| subset map (`subset.c`) | trie over sorted ids | lookup | one number per set |
| DFA (`dfa.c`) | table, accepted rules, dead state, depth, default transitions | add state, minimize, compress (fast, D2FA), lookup, dump, load | language preserved; default chains end |
| hybrid FA (`hybrid_fa.c`) | special states and their copies, head DFA, border states with tail automata | split, build, minimize | same matches as the NFA |
| traces (`trace.c`) | active state or states, rules, statistics | traverse NFA, DFA, compressed, hybrid; generate | same rules from every representation |
| memory image (`memory.c`, `comp_dfa.c`, `comp_nfa.c`, `sorted_tx_list.c`) | word array, address of every state | layout, map, put, get, traverse | traversal of the image is that of the automaton |
| simulation layouts (`fa_memory.c`, `dfas_memory.c`, `ixp_memory.c`, `cache.c`) | addresses, cache lines | lay out, access | as above, cache bookkeeping |
| servers (`main_pthread.c`, `main_memory*.c`, `tcp*.c`) | sockets, threads, done flags | accept, receive, traverse, wait | every round ends; traces are not mixed |
| parser (`parser.c`) | position in the pattern, parts of the file still to be parsed | recursive descent; halves the file until every part gives a DFA | the automata accept what the patterns mean, under the right rule numbers |
| data structures (`linked_set.c`, `int_set.c`, `dheap.c`, `partition.c`, `wgraph.c`) | sorted lists, heaps, union-find | insert, remove, find | order, no duplicates |

Interaction: parser -> NFA -> (epsilon removal, reduction) -> subset
construction -> minimization -> binary dump -> (files) -> loader -> kernel
-> report. The generator's programs are sequential except the threaded server;
the engine is sequential on the host and massively parallel on the device. The
hard behaviours are the shared index arithmetic of the kernel's threads, the
asynchronous launch, the boundary arithmetic of packets and padding, the
consistency of several representations of one automaton, and the server's
barrier. Nothing is persisted across a crash, so there is no recovery to model.

## 2. Modules

| Module | Models | Kind |
|---|---|---|
| `Packetizer` | the input loop of `main` and `Packets` | state machine, one action per byte and one for the end of the file |
| `PacketScan` | what the engine promises: independent scans of packets | abstract specification |
| `UdfaKernel` | `udfa_kernel`: the threads of one launch | state machine; implements `PacketScan` |
| `RegexParser` | `parser.c`: lines, recursive descent, ranges, modifiers, the halving of a file; the NFA then runs on traces | state machine, one action per call or return of `parse_re`, line, part and symbol |
| `NfaBuild` | the operations of `nfa.c` that build machines: transitions, epsilons, `link`, `make_dup`, `make_rep`, `make_mult_or` | operators from heaps of objects to heaps |
| `UdfaEngine` | `main` and `udfa_run`, from the file to the reports | composes `Packetizer` and `UdfaKernel` |
| `SubsetConstruction` | `NFA::nfa2dfa` with `subset::lookup`, `DFA::add_state` | state machine, one action per queue element and per symbol |
| `NfaReduction` | `remove_epsilon`, `remove_duplicates`, `reduce`, then both NFAs on traces | state machine, one action per pair of a state and per queue element |
| `TraceScan` | `trace::traverse` for the NFA and for the DFA built from it | composes with `SubsetConstruction` |
| `Minimize` | `DFA::minimize`: partition refinement, then the table rewritten in place | state machine, one action per pair of the worklist and per row |
| `HybridFA` | `hybrid_fa.c`: the split of special states, head and border, the minimization that keeps borders apart, the traversal of `trace.c` | extends `Minimize` |
| `D2fa` | `DFA::D2FA`: the graph of common transitions, Kruskal's algorithm with the bound on the diameter, default transitions along the forest | state machine, one action per edge, pass and tree |
| `AlphabetReduction` | `DFA::alphabet_reduction` | state machine, one action per pair of a state and a target |
| `DefaultTx` | `set_depth`, `fast_compression_algorithm`, `lookup` | state machine, one action per state |
| `MemoryImage` | `compDFA`, layout, map and traversal of a DFA in `memory.c` | composes `AlphabetReduction` and `DefaultTx` |
| `NfaImage` | `compNFA`, layout, map and traversal of an NFA in `memory.c` | extends `MemoryImage`, whose variables for the queue, the marks, the addresses and the words it shares |
| `HfaImage` | layout, map and traversal of a hybrid automaton in `memory.c` | state machine, one action per state that is laid out or written, and per word that is followed |
| `Ordered` | lists that are kept in the order of a key, and what a traversal reaches | operators shared by the parts of the generator |
| `FaMemory` | `fa_memory.c`, `dfas_memory.c`, `cache.c` and the traversals of `trace.c` that use them | state machine, one action per symbol, state and read |
| `AutomatonLoader` | the dump of `main_memory_regen.c` and `FiniteAutomaton`'s constructor | state machine, one action per node, pair or table |
| `TraceServer` | `load_servers` and `receive_and_process` of `main_pthread.c`, `load_servers` of `main_memory.c`, the clients `tcpclients.c` | state machine of threads or processes, clients and connections |
| `MC*` | instances for TLC; `kind` or `part` selects what a behaviour does; `MCReduction` is the reduction with variables of its own | |
| `ArithmeticLemmas`, `*_proofs` | theorems | TLAPS |

### From the code to the models

*Packetizer.* `pos` is `cnt2`, `payload` with its length the loop's payload and
`cnt`; `payloads`, `payload_sizes`, `padded_sizes` are the members of
`Packets`. `AddPacket` is the padding, `set_padded_bytes`, `add_packet` and
`clear` together, since nothing can happen between them.

*UdfaKernel.* `thr[t]` holds the local variables of thread `t`. A step is one
byte: the reads of the table and the input are of memory no thread writes, and
a thread writes one match array entry per byte at most, so finer steps would
interleave only reads of constants. `match_array` and `match_count` are
functions on the addresses that have been written, so "unwritten" is part of
the state and writing out of bounds is visible. A thread that reads a word
reads its bytes one by one; `MoreInput` tests the loop condition only at the
start of a word, as the code does. Device memory is never written by the host
during a launch. The texture kernel differs in the instruction that reads the
table only.

*UdfaEngine.* `phase` is the position in `main` and `udfa_run`. A report is
written packet by packet (`ReportPacket`, the outer loop of
`mapping_states2rules`), one DFA after the other (`NextSubset`). The answers of
the CUDA runtime (occupancy) are nondeterministic: tuning may stop at any block
size its other conditions allow. A read behind the end of `padded_sizes`
returns any value of `Garbage`; reading `payload_sizes[0]` of an empty file
leads to the phase `undefined`.

*SubsetConstruction.* A set of NFA states is a set, not a path of trie nodes:
`subset::lookup` finds a known set or creates a number for it. `mapping`,
`state_table` and `accepts` are functions that grow with `size`.
`epsilon_closure` is the least closed set, which is what the worklist in the
code computes. An NFA is a value of the constant `Nfas`.

*NfaReduction.* `parsed` is the NFA as the parser leaves it; its construction
is that of `NfaBuild`. `pairs` are the objects of a symbol and a state
in the sets of transitions: merging redirects them, so that a state may have
two equal ones, which `same_transitions` counts twice. The sets are ordered by
address: `NextSource` and `ComparePair` take the states and pairs in any order.
`Expand` is one element of the queue of `reduce`, with the numbers
`subset::lookup` gives to new sets. The initial state is an object of the old
and of the new NFA; once it is deleted, everything the program does next is
undefined, and `stage` says so.

*RegexParser, NfaBuild.* A regular expression is the sequence of tokens a
pattern is made of, and `stack` holds the calls of `parse_re` that are open,
with the local variables of each. The states of an NFA are objects with
`transitions`, `epsilon`, `first` and `last`, as in `nfa.h`, numbered in the
order of their allocation; `heap` also has the static members. A range is its
items, read one by one as in `process_range`. `parse_to_dfa` asks whether a DFA
is too large: any part may be (`TooLarge`), so that every way to halve a file
occurs, and a part of one line that is too large ends the program (`fatal`).
`num_rules` is static and goes on counting when lines are parsed again, so rule
numbers are not line numbers after a halving; `regex_of` says which line a
number stands for. What follows the parser (epsilon removal, reduction, subset
construction, minimization) is the subject of other modules, and the NFA runs
here with the closure of its epsilon transitions instead. In `make_dup` the
pointers of copies lead to the copied start in one step, in the code in several.
Syntax errors, which end the program, and what escape sequences stand for are
left out.

*HybridFA.* The first loop over the NFA splits states in the order of their
addresses, which is any order (`to_correct`). As in the code, `set_depth`
returns at once when it is called again, so that copies keep the depth
`UNDEFINED`, and the copy behind a state that was entered by "." starts one
state too early. `build` and `minimize` follow the code of `nfa2dfa` and
`DFA::minimize`, with the border as a second thing that tells states apart, and
reuse `Minimize`. `active` is the NFA before any split and `active_split` the NFA
after the splits, stepped with the same symbols; `reported` holds the rules of the
hybrid automaton and of both. `SameRulesAsNfa` compares it with the first, which
judges the split and the construction together; `SameRulesAsSplitNfa` with the
second, which judges head, border, minimization and traversal alone and holds for
every NFA, also for those a split damages. `OneActivation` is the comment's "each tail has only one
activation": every active tail state is behind an active special state that loops
(`Behind`), so that entering the tail again adds nothing. At most `MaxCorrected`
states are split, which bounds the states there are (`Node`).
`SPECIAL_MIN_DEPTH`, 3 in the code, is any number but 0; a run has 1.

*D2fa.* Edges are numbered in the order of the loops, the heap is the set of
numbers that are left, and of equal keys any one is taken. `P` and `rank` are
the arrays of the partition. The forest's edges are looked up by the numbers
the code uses, those of `T` or of `G`, which is what the finding is about.

*FaMemory.* A state of a layout has an address; `reads` are the addresses of
the words that `get_dfa_accesses` and its relatives give for a symbol, consumed
one by one by `cache::read`. Contents of words are not kept: the properties are
about which words are read. `init` counts addresses up in the order of `Precedes`;
here the address of a state is the number of bytes of the states before it. `exact`
are the automata themselves. Of the DFAs is assumed (`IsDfa`) what the compression
guarantees and `D2faLookup` and `LookupIsTable` check: a symbol that is not labeled takes
the default transition to a state with the same next state.

*TraceScan.* After the construction, any sequence of symbols is fed to both
traversals; `NfaByte` and `DfaByte` are the bodies of the two loops.

*Minimize.* `blocks` is the partition, `worklist` the pairs of a block and a
symbol the code keeps in two arrays; the linked lists in which blocks live are
sets. The loops that mark the predecessors of a pair, split the blocks and
update the worklist run without any other step in between, so they are one
action, `Refine`. Rewriting is one action per row (`KillRow`, `CopyRow`), since
row `j` is overwritten while later rows are still to be read.

*AlphabetReduction, DefaultTx.* `remap` is the array of symbol classes;
`ReducePair` is the body of the loop over states and targets, with the
renumbering of the touched classes. `SetDepth` is one element of the queue of
`set_depth`, `CompressState` the body of the loop over states. `dt_length` is
uninitialized memory in the code: only entries that were assigned are in the
domain of the function.

*MemoryImage, NfaImage, HfaImage.* `fa` is the array of 32-bit words. A word is a record
of its fields; the address field is cut to the bits it has (`AddressLimit`
stands for 2^21). The layout gives addresses in the order in which states are
discovered, the map fills in the words, the traversal reads words and nothing
else. `dfa_state` and `nfa_state` are what the automaton itself does with the
same characters; no action reads them except to step them. A read of a word or
a default that does not exist leads to `stage = "undefined"`.
The DFAs of a hybrid automaton are laid out, written and run one after the other:
`dfa_no` is the loop over them in the layout and the map, `turn` the one in the
traversal. A character begins with `NextChar`, which enters the tail a border state
names, as the code does before the head moves; then each DFA follows a word per step
(`FullStep`, `LabeledStep`, `DefaultStep`, the last without consuming the character)
until all have had their turn. What `memory::memory` gets is a value of `Hfas`: the
number of classes, the compressed DFA of the head and those of the tails, and the
tails each head state enters.

*AutomatonLoader.* An MNRL network is a value: the nodes in the order of the
library's map, their symbol sets, sinks, and the flags start and report. `Build`
is the loop body both worklists share. Entries of a row no sink has are
`UNINIT`, as the memory from `new[]` is; using one as an index leads to
`pc = "undefined"`. The binary dump is the pairs of a state and a rule, read in
the order of the states, and the table. The sequences of the code (start states,
the queue) are sequences; `Ascending` and `Unmarked` are written without the
recursive helpers of the libraries so that the module can be proved about.

*TraceServer.* `kind` selects the program: in `main_pthread.c` a main thread
(`main` is its place, `param` the `i` of its loops, an index of `params`) accepts a connection for every thread,
creates the threads, runs thread 0 itself and then reads the `done` flags one
by one; in `main_memory.c` every process accepts for itself. A connection is a
program and a number, with a bounded buffer (`inbox`). `Send` puts one unit
into it, so that a client blocks in the middle of a piece when a buffer is
full; `Recv` takes any part that has arrived. The kernel's calls are external:
`accept` fails when a process has no file left, `recv` fails for ever on what
it returned, a client is killed when the other side is gone, and by a signal at
any time (`Crash`). `Exit` is the `exit(1)` of `get_payload`: the traversals
take their packets from a capture file and end the process with it.

## 3. Runs

A run puts together what its module models and checks several questions over
one state space per kind of behaviour; the kinds do not interact.

| Run | Shows | Bounds and why they are enough |
|---|---|---|
| `threads` | part `kernel`: interleavings of the threads; refinement of `PacketScan`. Part `servers`: traces arrive whole and in order; rounds do not mix; a round ends | 2 packets of one word, 2 DFAs, block sizes 1 to 3: idle threads, full and partial blocks, a shorter last packet. 2 servers; clients with 2 and 3 connections and two clients at a time; traces of 3 units in pieces of 2, buffers of 2; a process runs out of files at 3 |
| `kernel_unaligned` | violated: a thread reads another packet's bytes | packet size 1 byte short of a word |
| `engine` | kind `engine`, end to end: packets hold the file in the layout of their consumers, legal launch, defined reads, exact reports, termination. Kind `load`: dump and load, and MNRL to table, preserve the automaton; the worklist forgets no node and ends | files of up to 5 bytes in 2 packets, words of 2 bytes: empty, shorter than a packet, aligned, unaligned, partial last packets. DFAs of up to 3 states; networks of up to 4 nodes with self loops, shared sinks, several starts, and symbols that lead nowhere |
| `engine_offsets` | violated: offsets after a padded last packet | files of up to 3 bytes |
| `trace_scan` | kind `parse`: files of regular expressions report the rules that match, however they are halved. Kind `scan`: the DFA is complete and right, or construction is abandoned; then both traversals report the same rules on traces of any length. Kind `reduce`: the reduced NFA accepts on every trace what the parsed one accepts. Kind `simulate`: every transition is found in a word of its own, the traversals are where the automata are, the cache holds a line once | see below the table |
| `minimize` | kind `minimize`: the result is equivalent to the input and minimal; the worklist loses no pair; it ends. Kind `hybrid`: head and tails report what the split NFA does, and what the NFA of the rules does, and a tail has one activation. Kind `d2fa`: lookup along default transitions is the table, and a bound that does not matter leaves the heaviest forest | all DFAs of up to 3 states over 2 symbols in the numbering `nfa2dfa` gives them, some of 4: splits into unequal halves, pending and finished twins, rows that move; NFAs of 4 states with one or two states to be split, anchored and not; DFAs of 4 states over 4 symbols, bounds below and above what the forests need, edges of equal weight |
| `hybrid_loss` | violated: a split loses matches | rules such as `a[^b]*bb` |
| `d2fa_diameter` | violated: a tree is wider than the bound | 4 states |
| `memory_image` | classes of symbols are equal columns; lookup along default transitions is the table; the images run as the DFA, the NFA and the hybrid automaton | 4 symbols in up to 4 classes, a threshold of 2 (8 in the code), so that full and compressed states and chains of defaults occur; an address limit that some images reach; NFAs of up to 3 states, lists of 3 entries; heads with up to two tails; packets of 2 symbols |
| `nfa_reduction_loops` | violated: the initial state is deleted | the NFAs of kind `reduce`, with an epsilon transition back to the start of the rules |
| `regex_repetition` | violated: a group that may be skipped, or a loop behind `{n,}`, accepts too much | `^(a+b)?b`, `^a{2,}b*` and files like them |
| `nfa_merge_loss` | violated: merging duplicates loses transitions | the NFA of `^((a\|a)a+){2}` |

The bounds of `trace_scan`. *parse*: single anchored rules made of symbols, of
symbols repeated by `*`, `+`, `?`, `{2}`, `{0,2}`, `{1,2}`, `{2,3}`, `{1,3}` and
`{2,}`, of pairs of these, of alternatives (an empty one included) and of groups
of them that are repeated and followed by a symbol; and files of two and three
rules, anchored or not, with ranges, negated ranges and the modifiers i and m.
There are three symbols, a letter in both cases and the end of a line, and
traces have up to four, which is longer than any path without repetition through
these machines. *scan*: 3 NFA states, 2 symbols, with and without epsilon
transitions; some exceed the limit of 5 DFA states. *reduce*: NFAs of 5 states
over 2 symbols, with anchored and other rules, common targets, self loops,
duplicates and epsilon transitions; `MAX_TX` is 1, so that a state that loops on
both symbols is special, and `MaxNode` is more than any of them needs.
*simulate*: DFAs of 3 states with default transitions, alone and two together,
and NFAs of 3 states, in all three layouts with thresholds that leave some
states in full and some not, and a cache of few lines, so that lines are evicted.

Deadlock is checked in none of them: each of these programs stops when its work
is done (a part of a file that is too large, a finished report, a full trace),
and a stop that is not an end is found by a liveness property where a run has one.
The violated runs are real disagreements between the code and what its comments
say; `PROJECT.json` quotes them under "findings".

Fairness, where a run checks liveness: weak fairness of the whole next-state
relation (`UdfaEngine`, `Minimize`), of the whole construction (`MemoryImage`,
`AutomatonLoader`), since the traversal that follows may stop at any character,
and of a traversal inside a character (`MemoryImage`). A run with several kinds
has the fairness of each kind for its own steps only (`RunEnds`, `LoadEnds` and
`MinimizeEnds` are stated of behaviours of their kind). Each of these programs
is a sequential process that never waits for another one (the host waits for
the kernel, whose threads never wait), so it is enough that steps keep being
taken. In `TraceServer` every thread, process and client has weak fairness of
its own, which is what the operating system's scheduler gives them; nothing is
assumed of crashes, nor of which of two waiting processes an `accept` serves.

### What the models assume because the code breaks without it

These limits were met while modelling. They are hypotheses of the properties
named, or outside of the models.

* A rule that matches the empty string makes the initial state accept. The
  loader's sign encoding has no negative 0 (`finite_automaton.cpp:268`), so
  matches in state 0 are not seen. `RunsAsAutomaton` exempts state 0, the
  theorem `KernelImplementsScan` assumes `ZeroRejects`.
* With 8 symbol classes or fewer (`TX_THRESHOLD`) state 0 is stored compressed,
  while `traverse_dfa` starts every packet with a full state 0
  (`memory.c:660`). `Sound` in `MemoryImage` asks for more classes.
* `traverse_nfa` keeps the initial state active with the stable flag
  (`memory.c:763`, `796`). For an NFA of anchored rules it is not stable, and
  the image reports matches the NFA does not have. `NfaSound` in `NfaImage` asks
  for a stable initial state, and for the first packet.
* `minimize` moves and merges states but leaves `dead_state` at its old number
  (`dfa.c:560`). `memory::memory` minimizes the tails of a hybrid automaton
  (`memory.c:146`), and a word that leads to the state with that number ends its
  tail (`memory.c:526`). In `Minimize` it stays at its old number, too, and no
  property is stated of it; `Sound` in `HfaImage` asks that the state with the
  number of the dead state is dead.
* `RoundsEnd` assumes that no `accept` has failed: the server never closes a
  connection and never looks at what `accept` returns, and after a failure
  `recv` fails for ever. It also assumes that no client stays split, with one
  connection being received and another one not accepted: the client sends each
  piece on all connections in turn (`tcpclients.c:79`) and blocks on the second
  as soon as its buffer is full, the server waits for the end of the first.
  More connections than servers, or two clients whose connections are accepted
  alternately, get there.
* The traversal of the NFA image rewrites the first active entry before a packet
  but keeps the lengths of the lists (`memory.c:791`; the lines for them are
  commented out). After an odd number of symbols the next packet starts without
  an active state, and the states of the previous one are merged in later.
  `RunsAsNfa` is stated of the first packet.
* The vector of matches of a packet and a DFA has
  `payload_sizes[0] * 15 / n_subsets` entries (`udfa_host.cu:91`) and the kernel
  appends without a test. With more than 15 DFAs the vector is shorter than the
  packet, and a DFA that matches on every byte writes behind it. The run
  `threads` uses a factor that is large enough, and the theorems assume
  `NarrowEnough`.
* A rule that starts with a loop, such as `(ab)*c`, may lose the NFA in `reduce`
  (run `nfa_reduction_loops`): the start state of the rules is merged into the
  initial state, a later state has the same transitions, and the initial state
  is merged into that one and deleted (`nfa.c:1012`), or is reached from the old
  NFA and deleted with it (`nfa.c:1302`). `SameRules` is stated of NFAs without
  such loops.
* `same_transitions` compares the transitions of two states one by one in one
  direction only, and then their number (`nfa.c:983`). The transitions are pointers
  to pairs, and a merge redirects pairs to the state that is kept: a state that
  led to both states on a symbol then has the same transition twice. Such a state is
  taken for a duplicate of one that has this transition and another one, and the other one is
  lost: with the NFA of `^((a|a)a+){2}` the trace aaaa is accepted before `reduce`
  and not after (run `nfa_merge_loss`). `SameRules` is checked on NFAs where this
  does not happen, and the theorems about it say what they need.
* A loop goes back to the state its machine begins with (`nfa.c:823`), which is
  then the first state of whatever the machine is put into. `ReportsMatches` is
  stated without groups that begin with a loop and may be skipped
  (`^(a+b)?b` accepts ab), loops behind `{n,}` (`^a{2,}b*` accepts aaba,
  `nfa.c:839`), `{n,}` inside another repetition (`(a{2,}){2}`: the copies of
  `last` form a cycle and `get_last` never returns) and empty groups. An anchored rule that
  begins with a loop shares its first state with the other anchored rules of the
  file (`parser.c:195`: of `^a*b` and `^c` the second reports on ac), so files
  with such a rule and another anchored one are left out, too. In a build that
  evaluates the object of a call before its arguments, `{1,n}` makes two to n+1
  copies when n > 2 (`nfa.c:885`); `object_first` selects such a build, and run
  `regex_repetition` has one.
* The last line of a file that does not end in a newline is freed twice
  (`parser.c:96`, `100`), `parse_re(nfa, re)` is declared `void*` and returns nothing
  (`parser.c:179`), the range `[a-]` has no symbol and `[\d]` only the digit 0
  (`process_range`), and a pattern that begins with `*` dereferences a null
  pointer. The files of the models end in a newline and have no such patterns.
* `optimize` of the hybrid FA removes transitions in every state behind the copy
  of a special state (`hybrid_fa.c:345`). `SameRulesAsNfa` in run `minimize` is
  stated of NFAs whose tails pass each symbol the special state does not loop on
  at most once, and whose special state is not entered by "."; run `hybrid_loss`
  has the others.
* `traverse_hfa` reads the words that name the tails of a head state while
  `fa[0][state[0]++] & 0x80000000 == 0` (`memory.c:1010`). `==` binds more tightly
  than `&`, so the condition is always false: only the first tail is started, and
  the words behind it are taken for the state's. A tail that dies in a
  compressed state keeps its flag `compressed` (`memory.c:1079`), with which it is
  started again although its state 0 is full. The model does both as the code
  does; `RunsAsHybrid` is stated (`Sound`) of automata whose head states have at
  most one tail and whose tails die in full states only.
* The mask of the first-level bitmap is a negative `int`, and `>>` copies its sign
  (`fa_memory.c:391`): every chunk behind the first one that is set counts as
  set, and addresses may lie behind the words of the state. A state with a
  bitmap and no epsilon transition looks for its transition one word early
  (`fa_memory.c:605`), and a `LINEAR` state without a transition on the symbol
  reads the word behind itself. `TransitionsApart` is stated of the states where
  the words that are counted are those the state has (`WordsCounted`).
* `trace::traverse_dfa` for one memory counts the rules of states it only passes on default
  transitions, and `traverse_nfa` counts rules one character late and loses the
  last ones (`trace.c:784`). `SimulationIsRun` is stated accordingly. Without a
  cache `read` returns 2, an index behind `cache_stats` (the programs always set
  one), and the cache is not emptied between traces.
* The statistics of `trace.c` index an array of `nfa->size()` entries with the
  number of active states (`trace.c:260`), which may be `nfa->size()`.

## 4. Proofs

`UdfaKernel_proofs` (with `ArithmeticLemmas`), for every number of packets,
packet size, number of DFAs, automata and block size:

* `KernelInvariant`, `KernelTypeCorrect`: `KInv` adds to the type invariant
  that a running thread's offset is within its packet (a multiple of the word
  when the loop test is next), its match count is at most its offset, an exited
  working thread has consumed its packet and has written its count, and no
  address has been written but those of a thread's own range. It is inductive;
  `KernelTypeOK` is not.
* `MatchesStayInBounds` assumes `NarrowEnough` (at most `MatchFactor` DFAs, so
  that the vector has an entry for every byte): the hypothesis the code does
  not check.
* `EveryPairIsCounted`: division and remainder by the block size enumerate all
  DFAs, whatever the block size. (No run checks `EveryPairCounted` by itself: a
  missing count violates `HostReadsWhatWasWritten`.)
* `KernelImplementsScan` assumes `NarrowEnough`, `ZeroRejects` and alignment;
  each of the three is necessary (too many DFAs and a state 0 that accepts are
  items of the list above, packets that are not aligned run `kernel_unaligned`). The refinement mapping reads the private list of a pair
  out of the thread's range of the shared array; the key step is that two
  threads' ranges are disjoint, which needs `p + cnt` bounds and the
  injectivity of `Slot`.

`Trace_proofs` begins with the subset construction, for every NFA, alphabet and limit: the invariant
`SInv` says that every known set has a number and its rules (`AcceptInv`), that
the queue pairs numbers with their sets (`QueueInv`), that the transitions of a
marked state are right except for those the inner loop has not reached
(`TransitionInv`), and that every unmarked state is still in the queue
(`PendingInv`). `Determinized` follows when the queue is empty. `TraversalsAgree`
adds that the DFA's state is the number of the NFA's active set;
`DeadStateCorrect` that the dead state is the one of the empty set (`DeadInv`).
`StatesInDiscoveryOrder`: the queue always holds the numbers after the state
that is processed, and every state has a first transition to it before which
no later state is reached (`OrderInv`), so that a breadth-first traversal finds
the states in the order of their numbers.

`NfaReduction_proofs`, for every NFA, every order of addresses and every bound on the
states that are created (`NfaReductionInv`, with a part for each stage). While states are
merged, `Represented(rep)` says that each state has one it was merged into, `rep`, that is
not deleted and has the same rules and the same transitions (`Row`, each transition once,
with the targets they have by now), and that every pair leads to what its target was
merged into. In the reduction every set in `mapping` has a state of its own
(`Structure`), which has the rules of the set (`Accepts`) and is in the queue or
leads to states whose sets are, together, what the states of its set lead to
(`Done`): what is common, what loops and what is special is regrouped but not lost.
At the end the old states are deleted, and the initial state is used again for the
result. That this takes nothing away is shown for any `Cut`, old states that
the initial one leads to and that do not lead back to it: no state of the result leads there,
because a state that is created gets all its transitions from `mapping`, and
what is deleted is such a cut, unless the initial state is in it, which is the end
(`stage = "undefined"`, run `nfa_reduction_loops`). In the scan the active states of the parsed NFA are the closures of
some states that were kept, and the active sets are together what these
were merged into (`Corresponds`).

A merge keeps `Represented` only when the two states have the same transitions. The code does
not make sure of that, so `ReductionKeepsRules` has the hypothesis `MergesKeepTransitions`,
which says it of every merge of the behaviour. Without a hypothesis the theorem is
false (run `nfa_merge_loss`); TLC finds this one true in all states of the NFAs of run
`trace_scan`. `SimpleSourcesKeepRules` has one that can be seen in an NFA: no state
that is compared has a transition twice. The comparison of the numbers is then right, since
the pairs of the one state are mapped one to one into those of the other and both sets are
finite and equally large (`SameCountSameTransitions`). `ReducedNfaRuns` in
`Trace_proofs` carries `ReductionKeepsRules` to `MCReduction`, the instance that the runs extend.

`Minimize_proofs`, for every DFA and every order in which pairs are taken from the
worklist: the blocks part the states (`PartitionInv`), never mix rules
(`RulesInv`) and never separate states that a congruence of the DFA relates
(`CoarseInv`); with these three `SplittersPending` is inductive: when a block is split, one of
its pieces is put into the list, and a pair that is in the list is replaced by
the pairs of both pieces. When the list is empty the blocks are stable
(`StableInv`), hence `MinimizedIsMinimal`. For the rows that are moved in place,
`Copied(i)`: row `s - move(s)` is what the row of a kept state `s < i` has to
become, and the rows from `i` on, which are still to be read, are as they were;
`MinimizedIsEquivalent` follows. `DiscoveryOrderKept`: the state that is kept of
a block is its smallest, so that its first transition comes from a kept state.
`MinimizedDfaIsMinimal` carries the result to the composition the runs check.

The same module proves the hybrid automaton, for every NFA, order of splits, size
of head and trace. `HybridInv` goes through the stages. While states are split, the
NFA stays well-formed (`NfaOK`). While the head is built (`BuildInv`), each head
state stands for a set of NFA states: it has the rules of the set, its border is a
part of the set, a row leads on each symbol to the state of what the rest of the set
leads to, and a state of a border is `Tied`: it loops on so many symbols that its
tail is not left while it is active. This is stated of each row by itself, because
what `special` says changes while the head grows (`non_special`, `size`): a state may
be in the border of one set and be expanded in another.
`HopcroftInv` is the invariant of `minimize` above with two more parts: the states of
a block have one border (`OneBorder`), and borders move with their rows (`Moved`).
The scan keeps the relation between rows of the head and sets of NFA states
(`IsHead`), which survives the minimization because it asks for rules, borders and
transitions only: the active tail states together with the set of the current row
are the states the split NFA is in (`ScanInv`).
It is stronger than the property, which speaks of rules only and is not
inductive. `HybridRunsAsSplitNfa` follows for every NFA and any splits;
`HybridRunsAsNfa` is `SameRulesAsNfa` while nothing has been split. After a split
that property is false in general (run `hybrid_loss`), so that it stays with TLC.
`TailsActiveOnce`: every active tail state is behind an active one that is tied to
its tail (`Anchored`), which a symbol either keeps there or makes leave together with
the tail (`AnchorsStay`).

`MemoryImage_proofs`, for every DFA, begins with the compression: of the alphabet (`ClassesInv`) symbols have
one class exactly when they had it before and are not told apart by the pairs of a state and
a target compared so far. `set_depth` gives depths that do not
decrease along the numbering (`DepthInv`); this is where `NumberingAssumption` is
needed, which says that the states are numbered as a breadth-first traversal finds
them. The two theorems above show it for the DFAs the program has: those `nfa2dfa`
builds, minimized or not. Without it `dt_length` would be read before it is written.
`DefaultsInv` says that the states compressed so far have a default transition
to a shallower one (hence one with a smaller number, already compressed) or none and all their
transitions, and share with it what they do not keep. `Chain` is a recursive function;
what it returns is proved along its length with `Inductive`, an induction
over the set of lengths for which the statement holds.

It composes these with the layout, the map and the traversal of
the image (`ImageInv`): the words of two placed states do not overlap, all
targets of a placed state are marked, and a marked state is placed or in the
queue exactly once (`LayoutInv`); the words of the rows mapped so far are in
the image and mapping a row touches no words but its own (`MapInv`); the
traversal stands at the first word of the DFA's state, or in the chain of its
default transitions, or in the list of labeled transitions at or before the one it is
looking for (`At`). `ImageRunsAsDfa` and `MatchesAreReported` follow under `Sound`,
the two conditions the code does not check: more classes than `TX_THRESHOLD`, and
an image that fits its addresses. That each character is consumed is liveness and
stays with TLC (`CharConsumed`). TLC also confirmed the parts of `ImageInv` on
small DFAs before they were proved.

The image of an NFA is laid out in the same way (`NfaLayoutInv`, `NfaMapInv`);
that all states get words uses that all of them can be reached, as `compNFA`
takes them from a traversal. `Lists(o, S)` says that a sequence has every element
of a set once: the queue lists the states that are marked and not yet placed, the
current list of `traverse_nfa` lists the entries of some states, and while a
symbol is processed the other one lists the entries of all that the states passed
so far lead to (`NfaWalkInv`). An entry adds what it should because the words of a
state are in the order of their symbols and the loop over them ends at the last one
or at a greater symbol (`LoopEndFacts`, `HitsFacts`, `AddedFacts`), and `AddAll`
keeps each entry once (`AddAllLists`). Entries of different states differ, as their
addresses do (`EntryFacts`), so that a list is not longer than the NFA has states
(`ListIsShort`) and does not overflow. `ImageRunsAsNfa` follows under `NfaSound`, an
image that fits its addresses and a stable state 0, and for the first packet: the
next ones do not start as they should (section 3).

`HfaImage_proofs`, for every hybrid automaton of `HfaAssumption`: the DFAs are complete
and numbered as they are discovered, default transitions lead to smaller numbers and
lose nothing, and the first head state has no tails. The theorems about discovery,
`DefaultsLeadToRoot` and `CompressionLosesNothing` show this of the parts that build
the DFAs; the first head state stands for the initial state of the NFA alone, whose
depth is less than that of a special one (`hybrid_fa.c:53`). `HfaInv` has three parts. `LayoutInv` is
that of a DFA for each machine: while machine `dfa_no` is laid out, its placed states
lie apart and below `size`, and those that are marked are placed or queued once; the
machines before it are laid out, those behind it are not begun. `MapInv`: the words
of the rows written so far are in the image, at their addresses, those that name tails
in front. `WalkInv` relates the traversal to the DFAs. Between two characters every
machine is `Settled`: inactive, or at the first word of its state; the head's state has
the flag `border` exactly when it has tails. Within a character the machines before
`turn` are settled with the new state and those behind it are as `NextChar` has left
them; the machine whose turn it is stands at a state that leads on the character to
where it has to get (`Pending`): first its own, then those along its default
transitions. A step in the words of a state ends at the labeled transition on the
character, if there is one, as these are in order and the last is marked. It needs each part of
`Sound`: addresses are not cut, the state 0 a tail starts in is full, the words that
name tails are one at most, a tail that dies accepts nothing any more (a default
transition into the dead state ends it before the character is consumed), and it was
in a full state, so that `compressed` is false when it is started again. TLC checked
`HfaInv` before it was proved, on the automata of run `memory_image`. `HybridImageRuns` follows for the specification of the image;
`ImageRunsAsHybrid` in `MemoryImage_proofs` carries it to the composition that the run
checks: `MCMemoryImage` takes the module with its theorems as the instance `H`, and a
behaviour that builds another image leaves the variables of this one as they are.

`UdfaEngine_proofs` begins with the input loop, for every file, packet count and
width of the fetched word: while the file is read every stored packet is full, the bytes since the last
one are in `payload`, and each packet holds, byte by byte, its piece of the
file (`PInv`). `PacketsHold` follows when the file has been read;
`PacketsAreLaidOut` is what the kernel assumes of its packets.

It then composes this with the kernel's and the host side, for every file, block
size and number of subsets, with `AutomataAssumption` (the kernel's assumption
on the automata). `EInv` says that the arrays hold nothing before the launch, that
the packetizer's invariant holds throughout, and that the kernel's own invariant
holds from the launch to the report. What the kernel's initial condition asks of
its packets (`LaunchOK`, a hypothesis in `UdfaKernel_proofs`) is discharged by the
packetizer's theorem: the first packet is full, because a packet is never larger
than the file. `HostReadsOnlyWritten` needs a second invariant of the kernel
(`CountsMatch`: the count of a pair is what its thread has counted, as no two
threads have the same slot), which holds for narrow vectors as well, and the
synchronization before the copy.

`ReportsAreExact` carries this to the report. Its hypotheses are those of the
kernel's refinement (`NarrowEnough`, `ZeroRejects`), and `ReportExact` is about
the files whose offsets are known (`OffsetsKnown`): no packet is padded, or
there is only one. On these a byte of a packet is the byte of the file at
`Place(b, p)`, and the reference restarts exactly where a packet begins
(`FileIsStored`, from `PInv` and `NoPadding`). `ThreadsRight` is the invariant
of the kernel: a thread's state is the reference's at the last place it has
read (`AtPlace`), and what it has found so far is in order, is what the
reference finds in the bytes read so far, and nothing is missing
(`FoundSoFar`); a byte keeps it (`ByteFound`), and no other thread disturbs it
(`OthersKeepMatches`). When all threads have ended, `HostReadsFound` shows that
the part of the arrays `mapping_states2rules` reads for a packet and a DFA is
the list of their thread, and each packet extends the report by it
(`ReportUpTo`, `PacketReported`). The last packet reaches to the end of the file
(`LastPacketEnds`), so a report with all packets is the reference's
(`WholeReport`). The reference is a recursive function; that it is defined at
every place (`StateAfterFacts`) follows from `RecursionExists`, whose induction
is over a set of numbers.

The same module proves the loading of automata, for every set of DFAs and networks of `LoaderAssumption`
(the tables are complete; a symbol leads to one node at most, since a row of the
loader has room for no more). For a dump a pair is either left in the file or
among the rules of its state (`PairsInv`). For a network `LInv` says that the ids
are one to one and onto `1..state_counter-1` (`IdsInv`), that the start and the
marked nodes have rows of sinks that have ids (`RowsInv`), that a node with an
id that is not marked is in the queue or is a start state still to be built
(`WaitingInv`: this is what marking a node too early would break), and that
marked nodes that report have rules of their own (`CodesInv`). When the queue is
empty all nodes with ids are marked, hence `CopyTable` finds every row, and the kernel's
state is the id of the network's node (`LoadedInv`). The lemmas behind it:
`NumberedFacts` (the nodes of a list that are new get the next ids in the order
in which they are met, counted by their rank), `RowUnchanged` (a row does not
change when other nodes get ids), `BuildIds`, `BuildRows`, `BuildCodes` and `BuildQueue` for the loop body both worklists
share. TLC confirmed `LInv` on the networks of run `engine` before it was proved.

The trace servers are in `Trace_proofs`, too, for every number of servers, of clients and of their
connections, and every size of trace, call and buffer, for the threaded and the
forking server: `ServerInv` says that a thread at work has not set its flag and that
the flags the main thread has passed are set (`Flags`), that a connection waits
or is accepted at most once and then belongs to one server (`Sockets`), where a
client is in its pieces (`ClientInv`), and that what has been received and what
has arrived on a connection together count from 1 up to what the client has sent
on it (`DataInv`; what has arrived on the connections of a killed client is
still a part of its trace, from the start). `RoundsStayApart` follows from the first two: the
barrier is sound because a flag is set only after the last use of the thread's
parameters and all flags are reset only when all are set. `TracesAreHandedOver`
follows from the last. The flags are read one at a time, in any interleaving, but each
read sees the last write: the data race of `main_pthread.c:135` is outside of
the model.

The same module holds the proofs about `FaMemory`, for every
set of automata, layout, threshold and cache. `StatesApart` follows from `Precedes`
being a total order and the bytes of states adding up (`BytesAddUp`).
`WordAt(x, s)` is how far the word of a transition is from the address of its
state; the last address the readers give is there (`DfaReads`, `NfaReads`, one
case for each layout), inside the words of the state and in the order of the symbols
(`WordAtFacts`), hence `LayoutIsApart`; for a bitmapped state it needs
`WordsCounted`, as the property does. `RunInv` is the invariant behind
`SimulationRuns`: a DFA that has not consumed the character is in a state with
the next state it is to reach, the others have reached it, and only the rules of those that have
not are missing; of an NFA those of the states still to be looked at. It does
not need the addresses: whether a state reads its table or follows its default
transition, it goes to the same next state. `CacheStaysASet` needs the reads to
be integers, which is the type part of the layout's lemmas, and that the ways of
a line are all lines with its remainder (`WaysFacts`).

Only model-checked: D2FA, what splitting states
of an NFA preserves (`SameRulesAsNfa`), the parser (`ReportsMatches`, an induction
over recursive data), and every liveness property, that of the server's rounds included (out of the prover's reach). The
violated properties are of course not provable.

## 5. Not modelled, and what is left

Not modelled, and why:

* `ixp_memory.c`: layouts for the memory of a network processor, used by
  `main_ixp.c` and `main_ixp_nfa.c` only, which print them; no traversal reads them.
* `CD2FA` (`dfa.c`): content addresses for a D2FA. Nothing in the repository
  calls it. (Nothing calls `D2FA` either; it is modelled because its comments
  promise a bound, which run `d2fa_diameter` tests.)
* The subset trie and the containers (`subset.c`, `linked_set.c`, `int_set.c`,
  `dheap.c`, `partition.c`, `wgraph.c`): the models use sets, functions and
  sequences. Their operations are sequential and local, and a test reaches them.
* The split of an NFA into several and the import of NFAs (`nfa.c`), `put` and `get`
  of automata and images, which are pure input and output apart from the binary
  dump in `AutomatonLoader`; the generation of traces, which is random.
* Escape sequences and syntax errors of the parser; the statistics of `trace.c`.
* The command line programs and the pcregrep drivers, which are sequences of
  calls of the parts above; the drivers' barrier is that of `TraceServer`.
* Option parsing, formatting, timing and logging; the CUDA runtime beyond what
  the code uses of it; libpcap, MNRL and Boost.

Open is the proof about the trees of D2FA, which needs a forest that grows edge by
edge. What the recursive operators compute (`NfaBuild`, `RegexParser`) and liveness
are left to TLC.
