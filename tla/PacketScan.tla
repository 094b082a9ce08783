----------------------------- MODULE PacketScan -----------------------------
(***************************************************************************)
(* What the GPU engine promises: every DFA scans every packet from its     *)
(* initial state 0, independently of all the others, and publishes the     *)
(* list of its matches, each one an offset in the packet and the accepting *)
(* state reached there.  UdfaKernel implements this with threads that      *)
(* share the input array and one flat match array.                         *)
(***************************************************************************)
EXTENDS Integers, Sequences

CONSTANTS
  NSubsets,  \* number of DFAs
  Delta,     \* Delta[d][<<s, c>>]: the next state of DFA d
  Accept     \* Accept[d]: its accepting states

VARIABLES
  packet,    \* packet[j]: the padded bytes of packet j, from 1
  off,       \* off[j, d]: bytes of packet j that DFA d has consumed
  st,        \* st[j, d]: the state it is in
  found,     \* found[j, d]: the matches it has seen
  published  \* the pairs whose list of matches is final

scanVars == <<packet, off, st, found, published>>

Pairs == (1..Len(packet)) \X (0..NSubsets-1)

Init ==
  /\ off = [x \in Pairs |-> 0]
  /\ st = [x \in Pairs |-> 0]
  /\ found = [x \in Pairs |-> <<>>]
  /\ published = {}

(* DFA x[2] consumes the next byte of packet x[1]. *)
Consume(x) ==
  /\ x \notin published
  /\ off[x] < Len(packet[x[1]])
  /\ LET t == Delta[x[2]][<<st[x], packet[x[1]][off[x] + 1]>>]
     IN  /\ st' = [st EXCEPT ![x] = t]
         /\ found' = IF t \in Accept[x[2]]
                     THEN [found EXCEPT ![x] = Append(@, [off |-> off[x], stat |-> t])]
                     ELSE found
  /\ off' = [off EXCEPT ![x] = @ + 1]
  /\ UNCHANGED <<packet, published>>

Publish(x) ==
  /\ x \notin published
  /\ off[x] = Len(packet[x[1]])
  /\ published' = published \cup {x}
  /\ UNCHANGED <<packet, off, st, found>>

Next == \E x \in Pairs : Consume(x) \/ Publish(x)

Spec == Init /\ [][Next]_scanVars
=============================================================================
