------------------------------- MODULE NfaBuild -------------------------------
(***************************************************************************)
(* How nfa.c builds an NFA for a regular expression.  The states are        *)
(* objects that point to each other, and a machine is named by any of its   *)
(* states: first and last lead to its ends.  An operation changes objects   *)
(* and may delete one; it is an operator from heaps to heaps, or, when it   *)
(* returns a state, to a heap h and that state r.                           *)
(***************************************************************************)
EXTENDS Integers, FiniteSets, SequencesExt, TLC

CONSTANTS
  CSize,    \* CSIZE: symbols are 0..CSize-1
  Partner   \* the symbol in the other case, or the symbol itself

Symbol == 0..CSize-1

INFINITY == -1   \* _INFINITY

(* next: the number of the next object; ignore_case, num_rules: static      *)
EmptyHeap(ignore) == [node |-> [x \in {} |-> 0], next |-> 0, ignore_case |-> ignore, num_rules |-> 0]

(* NFA::NFA *)
NewNode(h) ==
  [h EXCEPT !.next = @ + 1,
            !.node = @ @@ (h.next :> [transitions |-> {}, epsilon |-> <<>>, accepting |-> {},
                                      first |-> h.next, last |-> h.next])]

get_first(h, x) ==
  LET f[y \in DOMAIN h.node] == IF h.node[y].first = y THEN y ELSE f[h.node[y].first] IN f[x]

get_last(h, x) ==
  LET f[y \in DOMAIN h.node] == IF h.node[y].last = y THEN y ELSE f[h.node[y].last] IN f[x]

connected(h, x) == h.node[x].transitions # {} \/ h.node[x].epsilon # <<>>

Successors(h, x) == {t[2] : t \in h.node[x].transitions} \cup Range(h.node[x].epsilon)

(* NFA::traverse: all a set of states leads to *)
RECURSIVE ReachedFrom(_, _)
ReachedFrom(h, S) ==
  LET more == S \cup UNION {Successors(h, y) : y \in S} IN IF more = S THEN S ELSE ReachedFrom(h, more)

Reached(h, x) == ReachedFrom(h, {x})

BothCases(h, S) == IF h.ignore_case THEN S \cup {Partner[s] : s \in S} ELSE S

(* transitions on S from x to y, which is the last state from now on *)
AddTransitions(h, x, S, y) ==
  LET first == get_first(h, x)
  IN [h EXCEPT !.node[x].transitions = @ \cup {<<s, y>> : s \in BothCases(h, S)},
               !.node[y].first = first,
               !.node[first].last = y,
               !.node[x].last = y]

(* the same to a new state *)
add_transition(h, x, S) == [h |-> AddTransitions(NewNode(h), x, S, h.next), r |-> h.next]

add_epsilon(h, x) ==
  [NewNode(h) EXCEPT !.node[h.next].first = x, !.node[x].last = h.next,
                     !.node[x].epsilon = Append(@, h.next)]

Epsilon(h, x, y) == [h EXCEPT !.node[x].epsilon = Append(@, y)]

(* an epsilon list after list::remove and push_back *)
Redirected(list, from, to) ==
  IF Contains(list, from) THEN Append(SelectSeq(list, LAMBDA y : y # from), to) ELSE list

(* The machine of fa is put behind x: its first state is replaced by x and  *)
(* deleted.                                                                *)
link(h, x, fa) ==
  LET second == get_first(h, fa)
      To(y) == IF y = second THEN x ELSE y
      end == get_last(h, second)
      Moved(y) == [h.node[y] EXCEPT !.first = To(@), !.transitions = {<<t[1], To(t[2])>> : t \in @},
                                    !.epsilon = Redirected(@, second, x)]
      moved == [y \in DOMAIN h.node |-> IF y \in Reached(h, second) THEN Moved(y) ELSE h.node[y]]
      Without(node) == [y \in DOMAIN h.node \ {second} |-> node[y]]
  IN IF ~connected(h, second) THEN [h |-> [h EXCEPT !.node = Without(@)], r |-> x]
     ELSE [h |-> [h EXCEPT !.node =
                    Without([moved EXCEPT ![x].transitions = @ \cup moved[second].transitions,
                                          ![x].epsilon = @ \o moved[second].epsilon,
                                          ![get_last(h, x)].last = end,
                                          ![x].last = end])],
           r |-> end]

(* the state a copy takes for its last one: what its first transition leads *)
(* to (all transitions of a state that is copied lead to one state)         *)
Onward(h, x) ==
  IF h.node[x].transitions # {} THEN (CHOOSE t \in h.node[x].transitions : TRUE)[2]
  ELSE IF h.node[x].epsilon # <<>> THEN Head(h.node[x].epsilon) ELSE x

(* A copy of everything the first state reaches.  The first pointers of a   *)
(* copy lead to the copy of the first state in one step, in the code in     *)
(* several.                                                                *)
make_dup(h, x) ==
  LET begin == get_first(h, x)
      states == Reached(h, begin)
      Copy(y) == h.next + Cardinality({z \in states : z < y})
      Duplicate(y) ==
        [transitions |-> {<<t[1], Copy(t[2])>> : t \in h.node[y].transitions},
         epsilon |-> [n \in DOMAIN h.node[y].epsilon |-> Copy(h.node[y].epsilon[n])],
         accepting |-> h.node[y].accepting,
         first |-> Copy(begin), last |-> Copy(Onward(h, y))]
      next == h.next + Cardinality(states)
      g == [h EXCEPT !.next = next,
                     !.node = @ @@ [c \in h.next..next - 1 |->
                                      Duplicate(CHOOSE y \in states : Copy(y) = c)]]
  IN [h |-> g, r |-> get_last(g, Copy(begin))]

(* x behind the machine m, and the machine m behind that of x *)
Then(m, x) == link(m.h, m.r, x)
Onto(x, m) == link(m.h, get_last(m.h, x), m.r)

(* head behind the machine of x, and the machine tail behind both *)
Joined(x, head, tail) == Then(link(tail.h, get_last(tail.h, x), head), tail.r)

(* times copies, one behind the other *)
make_mdup(h, x, times) ==
  LET Another(acc, n) == Onto(acc.r, make_dup(acc.h, x))
      copies == FoldLeft(Another, make_dup(h, x), [n \in 1..times - 1 |-> n])
  IN [copies EXCEPT !.r = get_last(copies.h, @)]

(* a state of its own behind one that epsilon transitions leave             *)
Guarded(h, x) == IF h.node[x].epsilon # <<>> THEN add_epsilon(h, x) ELSE h

Skippable(h, x) == Epsilon(h, get_first(h, x), get_last(h, x))

SkippableCopy(h, x) == LET copy == make_dup(h, x) IN [copy EXCEPT !.h = Skippable(@, copy.r)]

Back(h, x) == Epsilon(h, get_last(h, x), get_first(h, x))

(* any number of times, with a new last state *)
Loop(h, x) == LET looped == Back(Skippable(h, x), x) IN add_epsilon(looped, get_last(looped, x))

(* {1,n}: x, then a copy that may be skipped, then n-2 copies of that one,  *)
(* made in the argument of a call.  The object of the call is evaluated     *)
(* before or after: when it comes first, the copy is part of the whole      *)
(* machine, and all of that is copied.                                      *)
ObjectThenCopies(x, copy, n) ==
  LET object == Onto(x, copy)
      copies == make_mdup(object.h, copy.r, n - 2)
  IN link(copies.h, object.r, copies.r)

UpTo(h, x, n, object_first) ==
  LET copy == SkippableCopy(h, x)
  IN IF n = 2 THEN Onto(x, copy)
     ELSE IF object_first THEN ObjectThenCopies(x, copy, n)
     ELSE Joined(x, copy.r, make_mdup(copy.h, copy.r, n - 2))

(* {m,n}, m > 1: x, head, tail *)
TailOf(tail, n) == IF n > 0 THEN Onto(tail.r, make_mdup(tail.h, tail.r, n)) ELSE tail

Between(h, x, m, n) ==
  LET head == make_mdup(h, x, m - 1) IN Joined(x, head.r, TailOf(SkippableCopy(head.h, x), n - m - 1))

(* the machine of x, lb to ub times *)
make_rep(h, x, lb, ub, object_first) ==
  LET g == Guarded(h, x)
      Whole(k) == [h |-> k, r |-> get_last(k, x)]
      BackThen(copies) == Then([copies EXCEPT !.h = Back(@, x)], x)
      LoopThen(copy) == Whole(Onto(x, [copy EXCEPT !.h = Loop(@, x)]).h)
  IN CASE ub = INFINITY /\ lb = 0 -> Whole(Loop(h, x))
       [] ub = INFINITY /\ lb = 1 -> LoopThen(make_dup(h, x))
       [] ub = INFINITY /\ lb > 1 -> BackThen(make_mdup(g, x, lb - 1))
       [] ub = lb /\ lb = 1 -> [h |-> h, r |-> x]
       [] ub = lb /\ lb > 1 -> Then(make_mdup(g, x, lb - 1), x)
       [] lb = 0 /\ ub = 1 -> Whole(Skippable(g, x))
       [] lb = 0 /\ ub > 1 -> Then(make_mdup(Skippable(g, x), x, ub - 1), x)
       [] lb = 1 /\ ub > 1 -> UpTo(g, x, ub, object_first)
       [] lb > 1 /\ ub > lb -> Between(g, x, lb, ub)

(* a new first and a new last state around the machines of x and alt        *)
make_or(h, x, alt) ==
  LET begin == h.next
      end == h.next + 1
      x1 == get_first(h, x)
      a1 == get_first(h, alt)
      x2 == get_last(h, x)
      a2 == get_last(h, alt)
      g == NewNode(NewNode(h))
  IN [h |-> [g EXCEPT !.node[begin].epsilon = <<x1, a1>>, !.node[begin].last = end,
                      !.node[end].first = begin,
                      !.node[x1].first = begin, !.node[a1].first = begin,
                      !.node[x2].epsilon = Append(@, end), !.node[x2].last = end,
                      !.node[a2].epsilon = Append(@, end), !.node[a2].last = end],
      r |-> end]
=============================================================================
