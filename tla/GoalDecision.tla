---------------------------- MODULE GoalDecision ----------------------------
(***************************************************************************)
(* The two evaluators as pure operators: evaluate_policy (policy.py), which*)
(* stops a v1 task at its limits, and evaluate_goal (goals.py), which turns*)
(* the slice limits of a v2 goal into checkpoints and keeps every other    *)
(* stop.                                                                   *)
(*                                                                         *)
(* A task is a record of what the decisions depend on.  "cycle" stands for *)
(* the slice counters cycle, tool_calls and elapsed_seconds, "transcript"  *)
(* for the context metrics (it is the one that also has a soft limit),     *)
(* status "error" for error and timed_out, "halted" for every other        *)
(* terminal or paused status but completed.  Limits are the effective ones.*)
(***************************************************************************)
EXTENDS Integers, FiniteSets

CONSTANTS
  Limits,      \* the effective limits of the policy
  GoalLimits,  \* goal_limits: a function on some of the accounted totals
  Reserve,     \* reviewer_reserve
  Unknown      \* a usage that was not measured

Statuses == {"running", "completed", "error", "halted"}
ActionKinds == {"execute", "diagnose", "review", "wait"}
LimitNames == {"cycle", "children", "concurrency", "transcript", "growth",
               "retries", "noEvidence"}

ASSUME LimitsAreValid ==
  /\ Limits \in [LimitNames -> Nat]
  /\ Limits.transcript >= Limits.growth
  /\ Limits.concurrency <= Limits.children
  /\ Reserve \in Nat /\ Reserve < Limits.children
  /\ \A k \in DOMAIN GoalLimits : GoalLimits[k] \in Nat

ContextReasons == {"transcript"}

\* Reasons that end the action at hand and not the goal.
ActionReasons == {"error_status"} \cup ContextReasons
                   \cup {"retries", "noEvidence", "active_children"}

-----------------------------------------------------------------------------
(* evaluate_policy.                                                        *)

\* Every reason to stop: a terminal or paused status, a human gate whose
\* latest decision is decline or revise, a hard metric at its limit, and the
\* children limits exceeded.
PolicyReasons(t, lim) ==
  (IF t.status = "error" THEN {"error_status"} ELSE {})
    \cup (IF t.status \in {"completed", "halted"} THEN {"final_status"} ELSE {})
    \cup (IF t.declined THEN {"human_gate"} ELSE {})
    \cup {m \in {"cycle", "transcript", "retries", "noEvidence"} : t[m] >= lim[m]}
    \cup (IF t.children > lim.children THEN {"children"} ELSE {})
    \cup (IF t.active > lim.concurrency THEN {"active_children"} ELSE {})

\* The soft limit on what the transcript grew since the last checkpoint asks
\* for a checkpoint where nothing stops.
EvaluatePolicy(t, lim) ==
  LET stops == PolicyReasons(t, lim)
      grown == t.transcript - t.saved >= lim.growth
      decision == IF stops # {} THEN "stop" ELSE IF grown THEN "checkpoint" ELSE "continue"
  IN [decision |-> decision,
      reasons  |-> IF decision = "checkpoint" THEN {"growth"} ELSE stops,
      spawn    |-> /\ decision = "continue"
                   /\ t.children < lim.children
                   /\ t.active < lim.concurrency]

-----------------------------------------------------------------------------
(* evaluate_goal.                                                          *)

\* The task t with its status, retries and noEvidence replaced and the slice
\* counters zeroed.
Blanked(t, status, retries, noEvidence) ==
  [status |-> status, declined |-> t.declined, transcript |-> t.transcript,
   saved |-> t.saved, retries |-> retries, noEvidence |-> noEvidence,
   cycle |-> 0, children |-> 0, active |-> t.active]

\* Mutant: a retry is let through as well.
RelaxedForAll(t, action) ==
  Blanked(t, IF t.status = "error" THEN "running" ELSE t.status, 0, 0)

\* What is evaluated under the v1 policy: the slice counters do not count,
\* and read-only diagnosis or waiting is not held up by the failure.
Relaxed(t, action) ==
  IF action \in {"diagnose", "wait"}
  THEN Blanked(t, IF t.status = "error" THEN "running" ELSE t.status, 0, 0)
  ELSE Blanked(t, t.status, t.retries, t.noEvidence)

\* A goal is the record of its task's fields and of its own: action, review
\* (a review is required), human (a human is required), nextStep (there is
\* one), evidence, accepted and totals.
Base(g) == EvaluatePolicy(Relaxed(g, g.action), Limits)

ContextBlocked(g) == Base(g).reasons \cap ContextReasons # {}

\* Mutant: the soft transcript checkpoint does not hold the slice.
ContextPendingHardOnly(g) == ContextBlocked(g)

\* The active context must be compacted before anything else happens.
ContextPending(g) == ContextBlocked(g) \/ Base(g).decision = "checkpoint"

\* Mutant: a total nobody measured is not over its limit.
LimitReachedIfKnown(totals) ==
  \E k \in DOMAIN GoalLimits : totals[k] # Unknown /\ totals[k] >= GoalLimits[k]

\* A total at or over its goal limit, or limited but never measured.
LimitReached(totals) ==
  \E k \in DOMAIN GoalLimits : totals[k] = Unknown \/ totals[k] >= GoalLimits[k]

\* What stops the goal whatever the v1 policy says of the task.
GoalStop(g) ==
  \/ g.human
  \/ LimitReached(g.totals)
  \/ g.status = "completed" /\ (g.evidence = {} \/ g.nextStep)

\* A slice counter is at its limit.
SliceReached(g) == g.cycle >= Limits.cycle \/ g.children >= Limits.children

Crowded(g) == g.active > Limits.concurrency

\* Mutant: context maintenance is decided on before the goal's own stops.
HeldContextFirst(g) ==
  IF ContextBlocked(g) /\ Base(g).reasons \subseteq ContextReasons THEN "checkpoint"
  ELSE IF GoalStop(g) THEN "stop"
  ELSE Base(g).decision

\* The decision before slice boundaries are looked at: context limits alone
\* ask for maintenance instead of stopping.
Held(g) ==
  IF GoalStop(g) THEN "stop"
  ELSE IF ContextBlocked(g) /\ Base(g).reasons \subseteq ContextReasons THEN "checkpoint"
  ELSE Base(g).decision

Boundary(g) == Held(g) # "stop" /\ SliceReached(g) /\ ~ContextPending(g)

\* continue, checkpoint or stop.
Decision(g) ==
  IF Crowded(g) \/ Held(g) = "stop" THEN "stop"
  ELSE IF Boundary(g) THEN "checkpoint"
  ELSE Held(g)

Scope(g) ==
  IF GoalStop(g) THEN "goal"
  ELSE IF Base(g).decision = "stop" /\ ~(Base(g).reasons \subseteq ActionReasons) THEN "goal"
  ELSE IF Boundary(g) /\ ~Crowded(g) THEN "slice"
  ELSE "action"

\* Mutant: any evidence will do, accepted before or not.
AutoContinueOnAnyEvidence(g) ==
  /\ Boundary(g)
  /\ g.evidence # {}
  /\ g.nextStep
  /\ g.active = 0
  /\ ~Crowded(g)

\* Mutant: a running child does not hold the slice.
AutoContinueBesideChildren(g) ==
  /\ Boundary(g)
  /\ g.evidence \ g.accepted # {}
  /\ g.nextStep
  /\ ~Crowded(g)

\* A slice boundary is crossed without anybody's help when it brought new
\* evidence, leaves a next step and no running child.
AutoContinue(g) ==
  /\ Boundary(g)
  /\ g.evidence \ g.accepted # {}
  /\ g.nextStep
  /\ g.active = 0
  /\ ~Crowded(g)

\* Mutant: the reviewer's place is not kept.
SpawnAllowedUnreserved(g) ==
  /\ Decision(g) = "continue"
  /\ Base(g).spawn
  /\ g.children < Limits.children
  /\ g.action # "wait"

\* Mutant: the children running now are not counted.
SpawnAllowedUncounted(g) ==
  /\ Decision(g) = "continue"
  /\ g.children < Limits.children
                    - (IF g.review /\ g.action # "review" THEN Reserve ELSE 0)
  /\ g.action # "wait"

\* A child may be spawned: one place is kept for the reviewer while a review
\* is still to come.
SpawnAllowed(g) ==
  /\ Decision(g) = "continue"
  /\ Base(g).spawn
  /\ g.children < Limits.children
                    - (IF g.review /\ g.action # "review" THEN Reserve ELSE 0)
  /\ g.action # "wait"

EvaluateGoal(g) ==
  [decision |-> Decision(g), scope |-> Scope(g),
   spawn |-> SpawnAllowed(g), auto |-> AutoContinue(g)]
=============================================================================
