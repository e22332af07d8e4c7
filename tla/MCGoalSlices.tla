---------------------------- MODULE MCGoalSlices ----------------------------
(***************************************************************************)
(* Small instances of GoalSlices.  A posture departs from an untroubled    *)
(* task: each way a boundary can coincide with a failure, a context limit, *)
(* a human's answer or a review.                                           *)
(***************************************************************************)
EXTENDS GoalSlices

MCLimits ==
  [cycle |-> 2, children |-> 2, concurrency |-> 1, transcript |-> 2,
   growth |-> 1, retries |-> 1, noEvidence |-> 1]

\* Several children at once.
MCLimitsWide == [MCLimits EXCEPT !.children = 3, !.concurrency = 2]

\* The totals with a limit of their own.
MCGoalLimits == [k \in {"cycle", "tokens"} |-> IF k = "cycle" THEN 4 ELSE 2]
MCCycleLimit == [k \in {"cycle"} |-> 4]

Calm ==
  [status |-> "running", declined |-> FALSE, transcript |-> 0, saved |-> 0,
   retries |-> 0, noEvidence |-> 0, action |-> "execute",
   review |-> FALSE, human |-> FALSE, nextStep |-> TRUE]

\* A task without a past, and one that is over a slice limit already, by its
\* cycles or by its children.
FreshTask == [cycle |-> 0, children |-> 0, active |-> 0, evidence |-> {}]
MCTasks == {FreshTask, [cycle |-> 3, children |-> 1, active |-> 1, evidence |-> Refs]}
MCTasksWide == {FreshTask, [cycle |-> 1, children |-> 4, active |-> 3, evidence |-> {}]}

\* p with one field changed.
Departures(p) ==
       {[p EXCEPT !.status = s] : s \in Statuses}
  \cup {[p EXCEPT !.declined = TRUE], [p EXCEPT !.human = TRUE]}
  \cup {[p EXCEPT !.nextStep = FALSE], [p EXCEPT !.review = TRUE]}
  \cup {[p EXCEPT !.transcript = n] : n \in 1 .. 2}
  \cup {[p EXCEPT !.saved = n] : n \in 1 .. 2}
  \cup {[p EXCEPT !.retries = 1], [p EXCEPT !.noEvidence = 1]}
  \cup {[p EXCEPT !.action = a] : a \in ActionKinds}

OneDeparture == Departures(Calm)

\* The postures of an undisturbed goal, until it runs out of next steps.
WorkPostures == {Calm, [Calm EXCEPT !.nextStep = FALSE]}

\* One field departs, or those that bear on the children do together.
MCPostures ==
  OneDeparture \cup {[Calm EXCEPT !.review = r, !.action = a] : r \in BOOLEAN, a \in ActionKinds}

Symmetry == Permutations(Refs) \cup Permutations(Requests)
=============================================================================
