----------------------------- MODULE RegexParser -----------------------------
(***************************************************************************)
(* parser.c: the regular expressions of a file are parsed by recursive      *)
(* descent, one state at a time, into one NFA; parse_to_dfa halves the file *)
(* until every part gives a DFA of bearable size.  A regular expression is  *)
(* a sequence of tokens; the calls that are open are a stack of frames.     *)
(***************************************************************************)
EXTENDS NfaBuild

CONSTANTS
  Files,     \* files: lines [anchored, regex], the modifiers i_mod and m_mod, and whether the
             \* build evaluates the object of a call before the arguments (object_first)
  Newlines,  \* the symbols '\n' and '\r'
  MaxTrace   \* bound of the models: the longest trace

(* A regex is a set of symbols, a range, empty, or cat, or, rep of others.  *)
(* A range is written as its items, symbols with a '-' behind them or not,  *)
(* and stands for the symbols of set, or for the others (negate).           *)
ParserAssumption ==
  /\ CSize \in Nat \ {0} /\ Partner \in [Symbol -> Symbol] /\ Newlines \subseteq Symbol /\ MaxTrace \in Nat
  /\ \A s \in Symbol : Partner[Partner[s]] = s
  /\ \A f \in Files :
       /\ f.i_mod \in BOOLEAN /\ f.m_mod \in BOOLEAN /\ f.object_first \in BOOLEAN
       /\ f.lines # <<>> /\ \A n \in DOMAIN f.lines : f.lines[n].anchored \in BOOLEAN

VARIABLES
  file,          \* the file
  queue,         \* parts of the file to be parsed, <<first line, last line>>
  stage,         \* "queue", "lines", "regex", "convert", "run", "fatal"
  heap,          \* the states of the NFA that is built
  line, re, ptr, \* the line that is parsed, its text, and how far
  stack,         \* the calls of parse_re, the innermost one last
  dfas,          \* what has become a DFA: root and nodes
  regex_of,      \* the lines the rule numbers stand for
  trace, active  \* a trace, and the active states of every automaton

parserVars == <<file, queue, stage, heap, line, re, ptr, stack, dfas, regex_of, trace, active>>

-----------------------------------------------------------------------------
(* The text of a regex.  Brackets are around what is repeated, and around   *)
(* alternatives that are part of something.                                *)
OPEN == [kind |-> "open"]
CLOSE == [kind |-> "close"]
OR == [kind |-> "or"]
Brackets(s) == <<OPEN>> \o s \o <<CLOSE>>

RECURSIVE Text(_)
Text(p) ==
  LET Part(q) == IF q.kind = "or" THEN Brackets(Text(q)) ELSE Text(q)
  IN CASE p.kind \in {"set", "range"} -> <<p>>
       [] p.kind = "empty" -> <<>>
       [] p.kind = "cat" -> Part(p.left) \o Part(p.right)
       [] p.kind = "or" -> Text(p.left) \o <<OR>> \o Text(p.right)
       [] p.kind = "rep" ->
            (IF p.of.kind \in {"set", "range"} THEN Text(p.of) ELSE Brackets(Text(p.of)))
              \o <<[kind |-> "repetition", lb |-> p.lb, ub |-> p.ub]>>

(* Mutant: the start of a range is not forgotten at its end. *)
InRange_KeepsFrom(acc, item) ==
  [acc EXCEPT !.from = IF @ = CSize + 1 THEN item.to ELSE @,
              !.set = IF item.minus THEN @ ELSE @ \cup (IF acc.from = CSize + 1 THEN item.to ELSE acc.from)..item.to]

(* process_range: a symbol with a '-' behind it starts a range, the next    *)
(* one ends it; other symbols are ranges of their own.                     *)
InRange(acc, item) ==
  LET from == IF acc.from = CSize + 1 THEN item.to ELSE acc.from
  IN IF item.minus THEN [acc EXCEPT !.from = from]
     ELSE [from |-> CSize + 1, set |-> acc.set \cup from..item.to]

process_range(token) ==
  LET range == FoldLeft(InRange, [from |-> CSize + 1, set |-> {}], token.items).set
      cased == IF file.i_mod THEN range \cup {Partner[s] : s \in range} ELSE range
  IN IF token.negate THEN Symbol \ cased ELSE cased

SymbolsOf(token) == IF token.kind = "set" THEN token.set ELSE process_range(token)

-----------------------------------------------------------------------------
Frame(fa, bracket, caller) == [fa |-> fa, to_link |-> fa, open_b |-> bracket, close_b |-> FALSE, caller |-> caller]

(* the objects parse makes first: the NFA and its two successors by epsilon *)
NFA_ == 0
NON_ANCHORED == 1
ANCHORED == 2

ParserInit ==
  /\ file \in Files
  /\ queue = <<<<1, Len(file.lines)>>>> /\ stage = "queue"
  /\ heap = EmptyHeap(file.i_mod)
  /\ line = 0 /\ re = <<>> /\ ptr = 0 /\ stack = <<>>
  /\ dfas = <<>> /\ regex_of = <<>>
  /\ trace = <<>> /\ active = <<>>

(* parse, of the lines from the first to the last of the next part          *)
ParsePart ==
  /\ stage = "queue" /\ queue # <<>>
  /\ heap' = add_epsilon(add_epsilon(NewNode([EmptyHeap(file.i_mod) EXCEPT !.num_rules = heap.num_rules]), NFA_), NFA_)
  /\ line' = Head(queue)[1]
  /\ stage' = "lines"
  /\ UNCHANGED <<file, queue, re, ptr, stack, dfas, regex_of, trace, active>>

ParseLine ==
  /\ stage = "lines" /\ line <= Head(queue)[2]
  /\ heap' = NewNode(heap)
  /\ stack' = <<Frame(heap.next, FALSE, "line")>>
  /\ re' = Text(file.lines[line].regex) /\ ptr' = 1 /\ stage' = "regex"
  /\ UNCHANGED <<file, queue, line, dfas, regex_of, trace, active>>

Top == Last(stack)
Below == Front(stack)
At(kinds) == stage = "regex" /\ ptr <= Len(re) /\ re[ptr].kind \in kinds

is_repetition(n) == n <= Len(re) /\ re[n].kind = "repetition"

(* the innermost call goes on at n with the heap h *)
GoesOn(h, top, n) ==
  /\ heap' = h /\ stack' = Append(Below, top) /\ ptr' = n
  /\ UNCHANGED <<file, queue, stage, line, re, dfas, regex_of, trace, active>>

(* a line has been parsed: its last state accepts, and its machine is put   *)
(* behind the state for anchored or for other rules                        *)
EndLine(h, fa) ==
  LET rule == h.num_rules + 1
      accepting == [h EXCEPT !.num_rules = rule, !.node[get_last(h, fa)].accepting = @ \cup {rule}]
      start == IF file.lines[line].anchored THEN ANCHORED ELSE NON_ANCHORED
  IN /\ heap' = link(accepting, start, get_first(accepting, fa)).h
     /\ regex_of' = Append(regex_of, line)
     /\ line' = line + 1 /\ stage' = "lines" /\ stack' = <<>>

(* The innermost call returns fa; its caller puts it behind what it has, or *)
(* makes it an alternative.                                                *)
Return(h, fa, n) ==
  /\ ptr' = n
  /\ IF Top.caller = "line" THEN EndLine(h, fa)
     ELSE LET caller == Last(Below)
          IN \E joined \in {IF Top.caller = "or" THEN make_or(h, caller.fa, fa)
                            ELSE link(h, get_last(h, caller.fa), fa)} :
             /\ heap' = joined.h
             /\ stack' = Append(Front(Below), [caller EXCEPT !.fa = joined.r])
             /\ UNCHANGED <<stage, line, regex_of>>
  /\ UNCHANGED <<file, queue, re, dfas, trace, active>>

(* a symbol, an escape sequence, any, or a range: put behind what is there, *)
(* or kept apart when a repetition follows                                 *)
Atom ==
  /\ At({"set", "range"})
  /\ LET apart == add_transition(NewNode(heap), heap.next, SymbolsOf(re[ptr]))
         behind == add_transition(heap, Top.fa, SymbolsOf(re[ptr]))
     IN IF is_repetition(ptr + 1)
        THEN GoesOn(apart.h, [Top EXCEPT !.to_link = apart.r], ptr + 1)
        ELSE GoesOn(behind.h, [Top EXCEPT !.fa = behind.r], ptr + 1)

(* * ? + { : of the atom before, or of the whole call when it is closed     *)
Repetition ==
  /\ At({"repetition"})
  /\ LET Repeated(x) == make_rep(heap, x, re[ptr].lb, re[ptr].ub, file.object_first)
     IN IF Top.close_b
        THEN \E whole \in {Repeated(Top.fa)} : Return(whole.h, whole.r, ptr + 1)
        ELSE \E atom \in {Repeated(Top.to_link)} : \E linked \in {link(atom.h, Top.fa, atom.r)} :
               GoesOn(linked.h, [Top EXCEPT !.to_link = atom.r, !.fa = linked.r], ptr + 1)

Call(bracket, caller) ==
  /\ heap' = NewNode(heap) /\ ptr' = ptr + 1
  /\ stack' = Append(stack, Frame(heap.next, bracket, caller))
  /\ UNCHANGED <<file, queue, stage, line, re, dfas, regex_of, trace, active>>

Or == At({"or"}) /\ Call(FALSE, "or")

Open == At({"open"}) /\ Call(TRUE, "group")

(* an alternative ends before the bracket, which its caller closes          *)
Close ==
  /\ At({"close"})
  /\ IF ~Top.open_b THEN Return(heap, Top.fa, ptr)
     ELSE IF is_repetition(ptr + 1) THEN GoesOn(heap, [Top EXCEPT !.close_b = TRUE], ptr + 1)
     ELSE Return(heap, Top.fa, ptr + 1)

EndOfRegex == stage = "regex" /\ ptr > Len(re) /\ Return(heap, get_first(heap, Top.fa), ptr)

(* all lines: with the m modifier anchored rules start behind a newline,    *)
(* too; the start of the others is active for ever, or is deleted          *)
EndOfPart ==
  /\ stage = "lines" /\ line > Head(queue)[2]
  /\ LET multiline ==
           IF file.m_mod /\ connected(heap, ANCHORED)
           THEN [heap EXCEPT !.node[NON_ANCHORED].transitions = @ \cup {<<s, ANCHORED>> : s \in Newlines}]
           ELSE heap
     IN heap' = IF connected(multiline, NON_ANCHORED)
                THEN AddTransitions(multiline, NON_ANCHORED, Symbol, NON_ANCHORED)
                ELSE [multiline EXCEPT !.node = [y \in DOMAIN @ \ {NON_ANCHORED} |-> @[y]],
                                       !.node[NFA_].epsilon = SelectSeq(@, LAMBDA y : y # NON_ANCHORED)]
  /\ stage' = "convert"
  /\ UNCHANGED <<file, queue, line, re, ptr, stack, dfas, regex_of, trace, active>>

RECURSIVE Closure(_, _)
Closure(node, S) ==
  LET more == S \cup UNION {Range(node[y].epsilon) : y \in S} IN IF more = S THEN S ELSE Closure(node, more)

Dequeue(more) ==
  /\ queue' = Tail(queue) \o more
  /\ stage' = IF Tail(queue) \o more = <<>> THEN "run" ELSE "queue"
  /\ UNCHANGED <<file, line, re, ptr, stack, regex_of, trace>>

(* the DFA is made *)
Converted ==
  /\ stage = "convert"
  /\ dfas' = Append(dfas, heap.node)
  /\ active' = Append(active, Closure(heap.node, {NFA_}))
  /\ Dequeue(<<>>)
  /\ UNCHANGED heap

(* It would have too many states: the part is halved, or a single regex is  *)
(* given up.                                                               *)
TooLarge ==
  LET min == Head(queue)[1]
      max == Head(queue)[2]
  IN /\ stage = "convert"
     /\ IF min = max
        THEN stage' = "fatal" /\ UNCHANGED <<file, queue, line, re, ptr, stack, regex_of, trace>>
        ELSE Dequeue(<<<<min, (min + max) \div 2>>, <<(min + max) \div 2 + 1, max>>>>)
     /\ UNCHANGED <<heap, dfas, active>>

(* a symbol of a trace *)
Run(c) ==
  /\ stage = "run" /\ Len(trace) < MaxTrace
  /\ trace' = Append(trace, c)
  /\ active' = [k \in DOMAIN active |->
                  Closure(dfas[k], UNION {{t[2] : t \in {u \in dfas[k][y].transitions : u[1] = c}} : y \in active[k]})]
  /\ UNCHANGED <<file, queue, stage, heap, line, re, ptr, stack, dfas, regex_of>>

ParseStep == Atom \/ Repetition \/ Or \/ Open \/ Close \/ EndOfRegex

ParserNext ==
  \/ ParsePart \/ ParseLine \/ ParseStep \/ EndOfPart \/ Converted \/ TooLarge
  \/ \E c \in Symbol : Run(c)

ParserSpec == ParserInit /\ [][ParserNext]_parserVars

-----------------------------------------------------------------------------
(* The reference: whether p stands for s, and where matches of p end that   *)
(* begin in I.                                                             *)
Denotes(p, s) == (s \in p.set \/ (file.i_mod /\ Partner[s] \in p.set)) # (p.kind = "range" /\ p.negate)

RECURSIVE Ends(_, _)
Ends(p, I) ==
  CASE p.kind = "empty" -> I
    [] p.kind \in {"set", "range"} ->
         {i + 1 : i \in {j \in I : j <= Len(trace) /\ Denotes(p, trace[j])}}
    [] p.kind = "cat" -> Ends(p.right, Ends(p.left, I))
    [] p.kind = "or" -> Ends(p.left, I) \cup Ends(p.right, I)
    [] p.kind = "rep" ->
         LET times[n \in Nat] == IF n = 0 THEN I ELSE Ends(p.of, times[n - 1])
         IN UNION {times[n] : n \in p.lb..(IF p.ub = INFINITY THEN p.lb + Len(trace) ELSE p.ub)}

(* where a rule may begin: anchored at the start, or behind a newline       *)
StartsOf(rule) ==
  IF ~rule.anchored THEN 1..Len(trace) + 1
  ELSE {1} \cup {i \in 2..Len(trace) + 1 : file.m_mod /\ trace[i - 1] \in Newlines}

(* Every regex of the file is reported by one of the automata, when the     *)
(* trace so far ends with a match of it, and only then.                     *)
ReportsMatches ==
  stage = "run" =>
    LET rules == UNION {UNION {dfas[k][y].accepting : y \in active[k]} : k \in DOMAIN dfas}
    IN {regex_of[r] : r \in rules} =
         {n \in DOMAIN file.lines : Len(trace) + 1 \in Ends(file.lines[n].regex, StartsOf(file.lines[n]))}
=============================================================================
