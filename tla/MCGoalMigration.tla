--------------------------- MODULE MCGoalMigration ---------------------------
(* GoalMigration with every limit within two steps.  In a behaviour, two    *)
(* decisions or one by any key, an override of any limit by either margin   *)
(* or one by any key are signed.                                            *)
EXTENDS GoalMigration

MCLimits ==
  [cycle |-> 2, children |-> 2, concurrency |-> 1, transcript |-> 2,
   growth |-> 2, retries |-> 1, noEvidence |-> 1]

MCNoGoalLimits == [k \in {} |-> 0]

MCPlans ==
  {[decisions |-> 2, overrides |-> 0, keys |-> Pinned, limits |-> {}, margins |-> {}],
   [decisions |-> 1, overrides |-> 0, keys |-> Keys, limits |-> {}, margins |-> {}],
   [decisions |-> 0, overrides |-> 1, keys |-> Pinned, limits |-> Raisable, margins |-> {-1, 1}],
   [decisions |-> 0, overrides |-> 1, keys |-> Keys, limits |-> {"transcript"}, margins |-> {1}]}

Symmetry == Permutations(Actions)
=============================================================================
