----------------------------- MODULE MCBalancer -----------------------------
(* Instances of Balancer for TLC.  Calls are alike. *)
EXTENDS Balancer, TLC

Api(models, priority, weight, score) ==
  [enabled |-> TRUE, models |-> models, priority |-> priority, weight |-> weight,
   score |-> score]

\* Three of one kind; two priorities, with a weight of zero; two kinds, across
\* priorities and within one.
Accounts ==
  {<<Api("declared", 0, 1, 1), Api("declared", 0, 2, 0), Api("declared", 0, 1, 0)>>,
   <<Api("any", 1, 1, 0), Api("any", 0, 0, 1), Api("any", 0, 2, 0)>>,
   <<Api("any", 1, 1, 0), Api("declared", 0, 0, 1)>>,
   <<Api("any", 0, 1, 0), Api("declared", 0, 0, 1)>>}

Symmetry == Permutations(Call)
=============================================================================
