----------------------------- MODULE MCCampaign -----------------------------
(* Two proposals, the first on the simplification axis; a pair wins, ties  *)
(* with a memory gain, loses, or misses a timing budget.                   *)
EXTENDS Campaign

MCOutcomes ==
    {[eligible |-> TRUE, score |-> 3, guard |-> TRUE, memory |-> FALSE],
     [eligible |-> TRUE, score |-> 0, guard |-> TRUE, memory |-> TRUE],
     [eligible |-> TRUE, score |-> -3, guard |-> TRUE, memory |-> FALSE],
     [eligible |-> FALSE, score |-> 3, guard |-> TRUE, memory |-> TRUE]}
\* Without the plain loss: a tie loses on the other axis.
MCFewerOutcomes == {o \in MCOutcomes : o.score >= 0}
MCAxis == {1}
MCSimpler == {}
MCSimplifyMin == -1
=============================================================================
