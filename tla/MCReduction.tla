----------------------------- MODULE MCReduction -----------------------------
(* The reduction of the NFAs of some rules, with variables of its own, as a *)
(* run of several components has it.                                       *)
EXTENDS Integers

CONSTANTS RuleStates, RuleNfas, MAX_TX, MaxNode

VARIABLES
  r_parsed, r_stage, r_accepting, r_pairs, r_todo, r_source, r_rest, r_to_del,
  r_queue, r_transitions, r_mapping, r_this_tx, r_old_active, r_new_active

Reduction == INSTANCE NfaReduction_proofs WITH
  NState <- RuleStates, Initial <- 0, CSize <- 2, Rule <- {1}, Nfas <- RuleNfas,
  parsed <- r_parsed, stage <- r_stage, accepting <- r_accepting, pairs <- r_pairs, todo <- r_todo,
  source <- r_source, rest <- r_rest, to_del <- r_to_del, queue <- r_queue,
  transitions <- r_transitions, mapping <- r_mapping, this_tx <- r_this_tx,
  old_active <- r_old_active, new_active <- r_new_active

ASSUME ReducibleNfas == Reduction!ReductionAssumption

reduction == <<r_parsed, r_stage, r_accepting, r_pairs, r_todo, r_source, r_rest, r_to_del,
               r_queue, r_transitions, r_mapping, r_this_tx, r_old_active, r_new_active>>

(* NfaReduction.tla: the reduced NFA accepts what the parsed one accepts. *)
SameRules == Reduction!SameRules

(* NfaReduction.tla: the initial state is not deleted. *)
InitialKept == Reduction!InitialKept
=============================================================================
