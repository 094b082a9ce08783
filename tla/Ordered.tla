------------------------------- MODULE Ordered -------------------------------
(* What the parts of the generator share: lists that are kept or filled in  *)
(* the order of a key, and traversals.                                     *)
EXTENDS Integers, FiniteSets

(* the elements of a set, those with the smaller key first *)
InOrder(S, key) ==
  [n \in 1..Cardinality(S) |-> CHOOSE x \in S : Cardinality({y \in S : key[y] <= key[x]}) = n]

(* What next leads to from S in at most k steps, for every k up to n; the   *)
(* states a traversal of the states next is defined on reaches.            *)
Within(S, next, n) ==
  LET reached[k \in 0..n] ==
        IF k = 0 THEN S ELSE LET before == reached[k-1] IN before \cup UNION {next[q] : q \in before}
  IN reached

Reached(S, next) == Within(S, next, Cardinality(DOMAIN next))[Cardinality(DOMAIN next)]
===============================================================================
