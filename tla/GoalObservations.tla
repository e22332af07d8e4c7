-------------------------- MODULE GoalObservations --------------------------
(***************************************************************************)
(* The evaluators on every combination of observations, reached one        *)
(* observation at a time: what evaluate_goal says of a checkpoint, what it *)
(* says after one more thing went wrong, and what evaluate_policy says of  *)
(* the same task.  GoalSlices has a host that keeps to the decisions; here *)
(* the record says whatever was observed, too many running children included.*)
(***************************************************************************)
EXTENDS GoalDecision

CONSTANT Evidence  \* evidence references

VARIABLE goal

Init ==
  goal \in [status: {"running"}, declined: {FALSE}, human: {FALSE},
            cycle: {0}, children: {0}, active: {0}, transcript: {0},
            saved: {0}, retries: {0}, noEvidence: {0},
            action: ActionKinds, review: BOOLEAN, nextStep: {TRUE},
            evidence: SUBSET Evidence, accepted: {{}},
            totals: [DOMAIN GoalLimits -> {0}]]

\* A counter grows, up to its limit.  noEvidence, which no decision tells from
\* retries, stays 0.
Count ==
  \E f \in {"cycle", "children", "transcript", "retries"} :
    /\ goal[f] < Limits[f]
    /\ goal' = [goal EXCEPT ![f] = @ + 1]

OneMoreActive ==
  /\ goal.active <= Limits.concurrency
  /\ goal' = [goal EXCEPT !.active = @ + 1]

\* The task ends or fails, a human declines or must be asked.
StatusChanges ==
  /\ goal.status = "running"
  /\ \E s \in Statuses \ {"running"} : goal' = [goal EXCEPT !.status = s]

HumanObjects ==
  \E f \in {"declined", "human"} : goal[f] = FALSE /\ goal' = [goal EXCEPT ![f] = TRUE]

\* A limited total grows to its limit, or cannot be known any more.
TotalGrows ==
  \E k \in DOMAIN GoalLimits :
    /\ goal.totals[k] # Unknown
    /\ \/ goal.totals[k] < GoalLimits[k] /\ goal' = [goal EXCEPT !.totals[k] = @ + 1]
       \/ goal' = [goal EXCEPT !.totals[k] = Unknown]

\* There is nothing left to do, or the evidence was accepted before.
NothingNew ==
  \/ goal.nextStep /\ goal' = [goal EXCEPT !.nextStep = FALSE]
  \/ goal.accepted # goal.evidence /\ goal' = [goal EXCEPT !.accepted = goal.evidence]

Next == Count \/ OneMoreActive \/ StatusChanges \/ HumanObjects \/ TotalGrows \/ NothingNew

Spec == Init /\ [][Next]_goal

-----------------------------------------------------------------------------
(* Properties.                                                             *)

Rank == [d \in {"continue", "checkpoint", "stop"} |->
           IF d = "continue" THEN 0 ELSE IF d = "checkpoint" THEN 1 ELSE 2]

\* One more thing gone wrong never loosens evaluate_goal's decision, whatever
\* is already wrong: no later check overwrites the stop of an earlier one, no
\* place to spawn appears, and a slice renews itself only where the step
\* itself reached its boundary.
NeverLoosens ==
  [][LET before == EvaluateGoal(goal)
         after  == EvaluateGoal(goal')
     IN /\ Rank[before.decision] <= Rank[after.decision]
        /\ after.spawn => before.spawn
        /\ after.auto => before.auto \/ before.decision = "continue"]_goal

\* Reasons of the v1 policy that do not hold up the goal's action.
NotHeldUp(g) ==
  IF g.action \in {"diagnose", "wait"} THEN {"error_status", "retries", "noEvidence"} ELSE {}

\* Only three kinds of v1 stops are softened, however they coincide: a slice
\* counter and a context limit become a checkpoint, and a failure does not
\* hold up diagnosing or waiting.  Where evaluate_goal says "continue" or
\* "checkpoint", evaluate_policy finds nothing else to stop for in the same
\* task.
OnlySlicesRelaxed ==
  /\ EvaluateGoal(goal).decision = "continue" => PolicyReasons(goal, Limits) \subseteq NotHeldUp(goal)
  /\ EvaluateGoal(goal).decision = "checkpoint" =>
       PolicyReasons(goal, Limits) \subseteq
         NotHeldUp(goal) \cup ContextReasons \cup {"cycle", "children"}

\* A human's refusal, a final status, a requested human and a goal limit end
\* the goal, never only the slice or the action, and never ask for mere
\* maintenance, whatever slice counter, context limit, failure or number of
\* children is observed with them.
StopsAreGoalWide ==
  \/ goal.declined \/ goal.human \/ goal.status \in {"completed", "halted"}
  \/ \E k \in DOMAIN GoalLimits : goal.totals[k] \in {GoalLimits[k], Unknown}
  => EvaluateGoal(goal) = [decision |-> "stop", scope |-> "goal",
                           spawn |-> FALSE, auto |-> FALSE]
=============================================================================
