---------------------------- MODULE HumanRecords ----------------------------
(***************************************************************************)
(* What humans sign into a task, as pure operators: decisions on gates and *)
(* overrides that raise a limit, each bound to the pending action, and the *)
(* two evaluators as they are with such records (policy.py, goals.py,      *)
(* validation.py).  Limits are the policy's own here; the ones raised by   *)
(* overrides are EffectiveLimits.                                          *)
(*                                                                         *)
(* An exception of an evaluator is the fail-closed decision the command    *)
(* line makes of it.  Every signer is a key: the HMAC, the key's hash in   *)
(* the policy and the secret in the environment agree for a pinned key.    *)
(***************************************************************************)
EXTENDS GoalDecision, Sequences, SequencesExt

CONSTANTS
  Gates,    \* human gates
  Actions,  \* hashes of pending actions
  Keys,     \* keys that records are signed with
  Pinned,   \* those the policy pins, none in a portable one
  None      \* no stop_reason

ASSUME PinnedAreKeys == Pinned \subseteq Keys

\* A decision approves or refuses (declines, asks for a revision).
DecisionRecords ==
  [gate: Gates, refuses: BOOLEAN, time: Nat, action: Actions, key: Keys]

OverrideRecords ==
  [limit: LimitNames, value: Nat, observed: Nat, action: Actions, key: Keys]

\* "other" is a reason of the host's own.
ReasonNames ==
  {"final_status", "human_gate", "cycle", "transcript", "retries", "noEvidence",
   "growth", "evaluation_error", "other"}

\* A stop reason with the numbers its text contains.
Reasons == [name: ReasonNames, observed: Nat, limit: Nat]

\* Task documents.  "exhausted" is budget_exhausted; children are left out.
Tasks ==
  [status: {"running", "exhausted", "halted"}, reason: Reasons \cup {None},
   cycle: Nat, transcript: Nat, saved: Nat, retries: Nat,
   decisions: Seq(DecisionRecords), overrides: Seq(OverrideRecords), action: Actions]

Records(t) == ToSet(t.decisions) \cup ToSet(t.overrides)

\* Mutant: records of an earlier action are let in.
ValidTaskUnbound(t) ==
  /\ t \in Tasks
  /\ \A i, j \in DOMAIN t.overrides : t.overrides[i].limit = t.overrides[j].limit => i = j

\* At most one override of a limit; every record is about the pending action.
ValidTask(t) ==
  /\ t \in Tasks
  /\ \A i, j \in DOMAIN t.overrides : t.overrides[i].limit = t.overrides[j].limit => i = j
  /\ \A r \in Records(t) : r.action = t.action

\* Mutant: only decisions are verified.
AuthorizedDecisions(t) == \A r \in ToSet(t.decisions) : r.key \in Pinned

Authorized(t) == \A r \in Records(t) : r.key \in Pinned

-----------------------------------------------------------------------------
(* Overrides.                                                              *)

ContextLimits == {"transcript", "growth"}

\* The observation a limit is about.
Metric(t, l) == IF l \in ContextLimits THEN t.transcript ELSE t[l]

\* Mutant: an override counts whenever it was signed.
OverrideHoldsLate(t, o, canShrink) ==
  /\ o.observed <= Metric(t, o.limit) \/ (canShrink /\ o.limit \in ContextLimits)
  /\ o.value >= Limits[o.limit]

\* Mutant: a compacted context invalidates overrides of goals as well.
OverrideHoldsRigid(t, o, canShrink) ==
  /\ o.observed < Limits[o.limit]
  /\ o.observed <= Metric(t, o.limit)
  /\ o.value >= Limits[o.limit]

\* Signed before the policy's limit was reached, about a state of the task that
\* it is not behind of, and not lowering the limit.
OverrideHolds(t, o, canShrink) ==
  /\ o.observed < Limits[o.limit]
  /\ o.observed <= Metric(t, o.limit) \/ (canShrink /\ o.limit \in ContextLimits)
  /\ o.value >= Limits[o.limit]

EffectiveLimits(t) ==
  [l \in LimitNames |->
     IF \E o \in ToSet(t.overrides) : o.limit = l
     THEN (CHOOSE o \in ToSet(t.overrides) : o.limit = l).value
     ELSE Limits[l]]

FitTogether(limits) ==
  limits.transcript >= limits.growth /\ limits.concurrency <= limits.children

-----------------------------------------------------------------------------
(* Gates.                                                                  *)

OfGate(ds, g) == {i \in DOMAIN ds : ds[i].gate = g}

\* Mutant: a tie goes unnoticed.
NeverAmbiguous(ds) == FALSE

\* The scan meets a decision as old as the latest it has seen of that gate.
Ambiguous(ds) ==
  \E i, j \in DOMAIN ds :
    /\ i < j /\ ds[i].gate = ds[j].gate /\ ds[i].time = ds[j].time
    /\ \A k \in OfGate(ds, ds[j].gate) : k < j => ds[k].time <= ds[j].time

\* Mutant: the record added last governs.
IsLatestAdded(ds, i) == \A j \in OfGate(ds, ds[i].gate) : j <= i

\* What the scan keeps of a gate: the first of the latest decisions.
IsLatest(ds, i) ==
  \A j \in OfGate(ds, ds[i].gate) :
    ds[j].time < ds[i].time \/ (ds[j].time = ds[i].time /\ i <= j)

Refused(ds) == \E i \in DOMAIN ds : IsLatest(ds, i) /\ ds[i].refuses

-----------------------------------------------------------------------------
(* The evaluators.                                                         *)

\* evaluation_error: what the command line answers when an evaluator raises.
FailClosed == [decision |-> "stop", reasons |-> {"evaluation_error"}, spawn |-> FALSE]

\* Nothing about the task's documents and records raises.
Accepted(t, canShrink) ==
  /\ ValidTask(t)
  /\ Authorized(t)
  /\ \A o \in ToSet(t.overrides) : OverrideHolds(t, o, canShrink)
  /\ ~Ambiguous(t.decisions)

\* What GoalDecision looks at in a task without children.
View(t) ==
  [status |-> IF t.status = "exhausted" THEN "halted" ELSE t.status,
   declined |-> Refused(t.decisions), transcript |-> t.transcript,
   saved |-> t.saved, retries |-> t.retries, noEvidence |-> 0,
   cycle |-> t.cycle, children |-> 0, active |-> 0]

\* evaluate_policy of a v1 task.
EvaluateTask(t) ==
  IF Accepted(t, FALSE) THEN EvaluatePolicy(View(t), EffectiveLimits(t)) ELSE FailClosed

Under(limits) == INSTANCE GoalDecision WITH Limits <- limits

\* The goal new_goal makes of the task, with evidence for the slice at hand.
AsGoal(t) ==
  [status |-> View(t).status, declined |-> View(t).declined, transcript |-> t.transcript,
   saved |-> t.saved, retries |-> t.retries, noEvidence |-> 0, cycle |-> t.cycle,
   children |-> 0, active |-> 0, action |-> "execute", review |-> FALSE,
   human |-> FALSE, nextStep |-> TRUE, evidence |-> {"new"}, accepted |-> {},
   totals |-> [k \in DOMAIN GoalLimits |-> 0]]

\* Mutant: the raised limits are not validated.
GoalAcceptedUnfit(t) == Accepted(t, TRUE)

\* Nor do the raised limits, which evaluate_goal validates like a policy's own.
GoalAccepted(t) == Accepted(t, TRUE) /\ FitTogether(EffectiveLimits(t))

\* Mutant: the decisions are dropped from the task together with the overrides.
EvaluateMigratedUndecided(t) ==
  IF GoalAccepted(t)
  THEN Under(EffectiveLimits(t))!EvaluateGoal([AsGoal(t) EXCEPT !.declined = FALSE])
  ELSE FailClosed

\* evaluate_goal of a migrated task.
EvaluateMigrated(t) ==
  IF GoalAccepted(t)
  THEN Under(EffectiveLimits(t))!EvaluateGoal(AsGoal(t))
  ELSE FailClosed

\* agent-collab policy evaluate.
ExitCode(verdict) ==
  CASE verdict.decision = "stop"       -> 4
    [] verdict.decision = "checkpoint" -> 3
    [] OTHER                           -> 0

-----------------------------------------------------------------------------
(* migrate_goal.                                                           *)

ReasonOf(t, m) ==
  IF m \in {"cycle", "transcript", "retries"}
  THEN [name |-> m, observed |-> t[m], limit |-> EffectiveLimits(t)[m]]
  ELSE [name |-> m, observed |-> 0, limit |-> 0]

SliceOrContext == {"cycle", "children"} \cup ContextReasons

\* Mutant: a slice counter at its limit is explanation enough.
ExplainedByCounter(t) ==
  LET metrics == EvaluateTask(t).reasons \ {"final_status"}
  IN metrics # {} /\ metrics \subseteq SliceOrContext

\* The recorded stop is exactly one of the slice and context limits the task is
\* at now, and nothing else stops it.
Explained(t) ==
  LET metrics == EvaluateTask(t).reasons \ {"final_status"}
  IN /\ metrics # {} /\ metrics \subseteq SliceOrContext
     /\ t.reason \in {ReasonOf(t, m) : m \in metrics}

\* Mutant: the stop reason stays in the running task.
MigratedWithReason(t) ==
  IF t.status = "exhausted" /\ Explained(t) THEN [t EXCEPT !.status = "running"] ELSE t

Migrated(t) ==
  IF t.status = "exhausted" /\ Explained(t)
  THEN [t EXCEPT !.status = "running", !.reason = None]
  ELSE t
=============================================================================
