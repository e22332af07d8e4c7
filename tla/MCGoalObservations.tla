------------------------- MODULE MCGoalObservations -------------------------
(* GoalObservations with every limit within a step or two.                 *)
EXTENDS GoalObservations

MCLimits ==
  [cycle |-> 1, children |-> 2, concurrency |-> 1, transcript |-> 2,
   growth |-> 1, retries |-> 1, noEvidence |-> 1]

MCGoalLimits == [k \in {"tokens"} |-> 1]
=============================================================================
