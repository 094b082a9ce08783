-------------------------------- MODULE D2fa --------------------------------
(***************************************************************************)
(* DFA::D2FA of generator/dfa.c: default transitions along the trees of a   *)
(* forest that Kruskal's algorithm finds in the graph of what states have   *)
(* in common.  Trees grow only while the distance vector says that their    *)
(* diameter stays within the bound.  Graphs, heap and partition are those   *)
(* of wgraph.c, dheap.c and partition.c.                                    *)
(***************************************************************************)
EXTENDS Integers, SequencesExt

CONSTANTS
  CSize,       \* CSIZE
  Dfas,        \* the DFAs; a DFA has a size and a state_table
  Diameters,   \* the bounds it is called with
  DECREMENT    \* edges are looked at in passes over so many weights

Symbol == 0..CSize-1

(* what is assumed of the constants; passes end at the last weight *)
D2faAssumption ==
  /\ CSize \in Nat \ {0} /\ DECREMENT \in 1..CSize /\ CSize % DECREMENT = 0
  /\ Diameters \subseteq Nat
  /\ \A d \in Dfas : d.state_table \in [0..d.size-1 -> [Symbol -> 0..d.size-1]]

NO_STATE == -1

VARIABLES
  dfa, diameter, refined,   \* what D2FA is called with
  stage,       \* "graph", "kruskal", "default_tx", "done"
  max,         \* the greatest weight of this pass
  G,           \* its edges, numbered from 1: the ends and the weight
  heap,        \* numbers of the edges that have not been looked at
  T,           \* the edges of the forest, numbered as they are joined
  P, rank,     \* partition: the canonical element of every state, ranks
  distance,    \* how far the farthest state of its tree is, for every state
  default_tx, labeled_tx

d2faVars == <<dfa, diameter, refined, stage, max, G, heap, T, P, rank, distance, default_tx, labeled_tx>>

-----------------------------------------------------------------------------
States == 0..dfa.size-1
Next(s, c) == dfa.state_table[s][c]
Common(s, t) == Cardinality({c \in Symbol : Next(s, c) = Next(t, c)})

D2faInit ==
  /\ dfa \in Dfas /\ diameter \in Diameters /\ refined \in BOOLEAN
  /\ stage = "graph" /\ max = CSize
  /\ G = <<>> /\ heap = {} /\ T = <<>>
  /\ P = [s \in States |-> s] /\ rank = [s \in States |-> 0]
  /\ distance = [s \in States |-> 0]
  /\ default_tx = [s \in States |-> NO_STATE] /\ labeled_tx = [s \in States |-> {}]

(* the pairs of states in the order of the two loops *)
Pairs == SetToSortSeq({p \in States \X States : p[1] < p[2]},
                      LAMBDA p, q : p[1] < q[1] \/ (p[1] = q[1] /\ p[2] < q[2]))

(* the space reduction graph of a pass *)
BuildGraph ==
  /\ stage = "graph" /\ max > 0
  /\ LET joined == SelectSeq(Pairs, LAMBDA p : Common(p[1], p[2]) \in max - DECREMENT + 1..max)
     IN /\ G' = [e \in DOMAIN joined |->
                   [left |-> joined[e][1], right |-> joined[e][2], w |-> Common(joined[e][1], joined[e][2])]]
        /\ heap' = DOMAIN joined
  /\ stage' = "kruskal"
  /\ UNCHANGED <<max, T, P, rank, distance, default_tx, labeled_tx>>

-----------------------------------------------------------------------------
Ends(g, e) == {g[e].left, g[e].right}
Mate(g, u, e) == IF g[e].left = u THEN g[e].right ELSE g[e].left

(* Mutant: the heap returns the smallest weight first. *)
Key_Positive(e) == G[e].w

(* the refined algorithm prefers edges between states that are less far     *)
(* from others; keys follow the distances, also those of edges in the heap  *)
Key(e) ==
  IF refined THEN -(G[e].w * 1000 - (distance[G[e].left] + distance[G[e].right] + 2) \div 2) ELSE -G[e].w

Smallest == {e \in heap : \A f \in heap : Key(e) <= Key(f)}

(* u has a new neighbor whose distance was d_v: so have, with longer ways,  *)
(* the states behind it in its tree.  The edge in, which is not followed    *)
(* from u, is a number of an edge of G, but the edges here are those of T.  *)
update_distance(dist, u, in, d_v) ==
  LET Further(level) ==
        UNION {{<<Mate(T, x[1], e), e>> : e \in {e \in DOMAIN T : x[1] \in Ends(T, e) /\ e # x[2]}} : x \in level}
      walk == FoldLeft(LAMBDA acc, n :
                         LET next == Further(acc.level)
                         IN [level |-> next,
                             dist |-> [w \in States |-> IF (\E x \in next : x[1] = w) /\ acc.dist[w] < d_v + 1 + n
                                                        THEN d_v + 1 + n ELSE acc.dist[w]]],
                       [level |-> {<<u, in>>}, dist |-> [dist EXCEPT ![u] = IF @ < d_v + 1 THEN d_v + 1 ELSE @]],
                       [n \in 1..Len(T) |-> n])
  IN walk.dist

(* partition::link: the canonical element of the lower rank is replaced *)
link(x, y) ==
  LET lower == IF rank[x] > rank[y] THEN y ELSE x
      higher == IF rank[x] > rank[y] THEN x ELSE y
  IN /\ P' = [s \in States |-> IF P[s] = lower THEN higher ELSE P[s]]
     /\ rank' = IF rank[x] = rank[y] THEN [rank EXCEPT ![y] = @ + 1] ELSE rank

Join(e) ==
  LET u == G[e].left
      v == G[e].right
  IN /\ distance' = update_distance(update_distance(distance, u, e, distance[v]), v, e, distance[u])
     /\ link(P[u], P[v])
     /\ T' = Append(T, G[e])

(* one edge of the heap: joined when its ends are in different trees and    *)
(* the new tree is not too wide; equal keys come in any order               *)
Kruskal ==
  /\ stage = "kruskal"
  /\ \E e \in Smallest :
       LET u == G[e].left
           v == G[e].right
       IN /\ heap' = heap \ {e}
          /\ IF P[u] # P[v] /\ distance[u] + distance[v] + 1 <= diameter
             THEN Join(e) ELSE UNCHANGED <<T, P, rank, distance>>
  /\ UNCHANGED <<stage, max, G, default_tx, labeled_tx>>

EndOfPass ==
  /\ stage = "kruskal" /\ heap = {}
  /\ max' = max - DECREMENT
  /\ stage' = IF max' > 0 THEN "graph" ELSE "default_tx"
  /\ UNCHANGED <<G, heap, T, P, rank, distance, default_tx, labeled_tx>>

-----------------------------------------------------------------------------
(* the edges at u, the latest first *)
Incident(u) == SetToSortSeq({e \in DOMAIN T : u \in Ends(T, e)}, >)

(* breadth-first traversal of the tree of u: states, and what they were     *)
(* reached from                                                            *)
Traversal(u) ==
  FoldLeft(LAMBDA acc, n :
             IF n > Len(acc) THEN acc
             ELSE acc \o [i \in 1..Len(SelectSeq(Incident(acc[n][1]), LAMBDA e : Mate(T, acc[n][1], e) # acc[n][2])) |->
                            <<Mate(T, acc[n][1], SelectSeq(Incident(acc[n][1]), LAMBDA e : Mate(T, acc[n][1], e) # acc[n][2])[i]),
                              acc[n][1]>>],
           <<<<u, u>>>>, [n \in 1..dfa.size |-> n])

(* the first state with the least distance *)
Root(cs) ==
  LET order == Traversal(cs)
      best == CHOOSE n \in DOMAIN order : \A k \in DOMAIN order :
                \/ distance[order[n][1]] < distance[order[k][1]]
                \/ distance[order[n][1]] = distance[order[k][1]] /\ n <= k
  IN order[best][1]

(* Mutant: what is left is compared with the root of the tree. *)
OwnSymbols_OfRoot(t, parent) == IF parent = t THEN Symbol ELSE {c \in Symbol : Next(Root(P[t]), c) # Next(t, c)}

(* the labeled transitions that are left of t; the root keeps them all *)
OwnSymbols(t, parent) == IF parent = t THEN Symbol ELSE {c \in Symbol : Next(parent, c) # Next(t, c)}

(* The states of a tree default to the one they are reached from, the root  *)
(* to itself.                                                               *)
DefaultTransitions ==
  /\ stage = "default_tx"
  /\ \E s \in States :
       /\ default_tx[s] = NO_STATE /\ \A t \in 0..s-1 : default_tx[t] # NO_STATE
       /\ LET order == Traversal(Root(P[s]))
              Parent(t) == (CHOOSE x \in Range(order) : x[1] = t)[2]
              tree == {x[1] : x \in Range(order)}
          IN /\ default_tx' = [t \in States |-> IF t \in tree THEN Parent(t) ELSE default_tx[t]]
             /\ labeled_tx' = [t \in States |->
                  IF t \in tree THEN OwnSymbols(t, Parent(t)) ELSE labeled_tx[t]]
  /\ UNCHANGED <<stage, max, G, heap, T, P, rank, distance>>

Done ==
  /\ stage = "default_tx" /\ \A s \in States : default_tx[s] # NO_STATE
  /\ stage' = "done"
  /\ UNCHANGED <<max, G, heap, T, P, rank, distance, default_tx, labeled_tx>>

D2faNext ==
  /\ BuildGraph \/ Kruskal \/ EndOfPass \/ DefaultTransitions \/ Done
  /\ UNCHANGED <<dfa, diameter, refined>>

D2faSpec == D2faInit /\ [][D2faNext]_d2faVars

-----------------------------------------------------------------------------
(* the way from s along default transitions *)
Chain(s) == [n \in 0..dfa.size |-> FoldLeft(LAMBDA t, k : default_tx[t], s, [k \in 1..n |-> k])]

(* lookup: default transitions are followed until there is a labeled one.   *)
(* It ends for every state and every symbol, with what the table has.       *)
LookupIsTable ==
  stage = "done" =>
    \A s \in States, c \in Symbol :
      \E n \in 0..dfa.size :
        /\ c \in labeled_tx[Chain(s)[n]] /\ Next(Chain(s)[n], c) = Next(s, c)
        /\ \A k \in 0..n-1 : c \notin labeled_tx[Chain(s)[k]]

(* the number of edges between two states of a tree *)
Way(s, t) ==
  LET reached == [n \in 0..Len(T) |->
        FoldLeft(LAMBDA acc, k : acc \cup {u \in States : \E e \in DOMAIN T : u \in Ends(T, e) /\ Ends(T, e) \cap acc # {}},
                 {s}, [k \in 1..n |-> k])]
  IN IF t \in reached[Len(T)]
     THEN CHOOSE n \in 0..Len(T) : t \in reached[n] /\ \A k \in 0..n-1 : t \notin reached[k]
     ELSE NO_STATE

(* Without a bound that matters the forest saves as many transitions as any *)
(* forest: states that have more in common than some edge between them in   *)
(* the forest do not exist.                                                 *)
HeaviestForest ==
  stage = "done" /\ diameter >= dfa.size =>
    \A s, t \in States : s # t /\ Common(s, t) > 0 =>
      /\ Way(s, t) # NO_STATE
      /\ \A e \in DOMAIN T :
           (\E u, v \in States : {u, v} = Ends(T, e) /\ Way(s, u) + Way(v, t) + 1 = Way(s, t)) =>
             T[e].w >= Common(s, t)

(* "diameter bound": no two states of a tree are farther apart. *)
DiameterBounded == \A s, t \in States : Way(s, t) <= diameter
=============================================================================
