--------------------------- MODULE GoalMigration ---------------------------
(***************************************************************************)
(* A task under evaluate_policy and, once migrated, under evaluate_goal.   *)
(* Its host works as the exit code of the evaluation allows, compacts the  *)
(* context, goes on to another action and records a stop.  Humans sign     *)
(* decisions and overrides for the action they see; the records are added  *)
(* to the task later, in any order, and some of them twice.                *)
(***************************************************************************)
EXTENDS Integers, Sequences, FiniteSets, HumanRecords

CONSTANTS
  Times,      \* timestamps of decisions, by the signers' clocks
  Plans,      \* bounds: how many decisions and overrides are signed, with which
              \* keys, which limits are set and how far from the policy's
  MaxRecords  \* bound: records of one kind in a task

Raisable == {"cycle", "transcript", "growth", "retries"}

ASSUME HumansAreTyped ==
  /\ Times \subseteq Nat /\ MaxRecords \in Nat
  /\ Plans \subseteq [decisions: Nat, overrides: Nat, keys: SUBSET Keys,
                      limits: SUBSET Raisable, margins: SUBSET Int]
  /\ \A p \in Plans : \A l \in p.limits, m \in p.margins : Limits[l] + m \in Nat
  /\ Actions # {} /\ None \notin Reasons

\* Limits on the totals of a goal are the subject of GoalSlices.
ASSUME NoGoalLimits == DOMAIN GoalLimits = {}

VARIABLES
  task,     \* the task, inside the goal checkpoint once there is one
  source,   \* what is known of the v1 task the goal was migrated from, or None
  decided,  \* the decisions that were signed
  raised,   \* the overrides that were signed
  plan      \* how humans sign

vars == <<task, source, decided, raised, plan>>
humanVars == <<decided, raised, plan>>

IsGoal == source # None

\* policy evaluate, whichever evaluator it calls.
Verdict(t) == IF IsGoal THEN EvaluateMigrated(t) ELSE EvaluateTask(t)

Evaluation == Verdict(task)

Init ==
  /\ \E a \in Actions :
       task = [status |-> "running", reason |-> None, cycle |-> 0, transcript |-> 0,
               saved |-> 0, retries |-> 0, decisions |-> <<>>, overrides |-> <<>>,
               action |-> a]
  /\ source = None
  /\ decided = {} /\ raised = {}
  /\ plan \in Plans

-----------------------------------------------------------------------------
(* The host.                                                               *)

\* One cycle of work: the transcript grows or not, the attempt fails or not.
Work ==
  /\ ExitCode(Evaluation) = 0
  /\ \E n \in 0 .. 1, failed \in BOOLEAN :
       task' = [task EXCEPT !.cycle = @ + 1, !.transcript = @ + n,
                            !.retries = IF failed THEN @ + 1 ELSE 0]
  /\ UNCHANGED <<source, humanVars>>

\* The checkpoint of a transcript that has grown.
TakeCheckpoint ==
  /\ task.saved # task.transcript
  /\ ExitCode(Evaluation) = 3
  /\ task' = [task EXCEPT !.saved = task.transcript]
  /\ UNCHANGED <<source, humanVars>>

\* The active context is compacted and saved.
Compact ==
  /\ \E n \in 0 .. task.transcript - 1 :
       task' = [task EXCEPT !.transcript = n, !.saved = n]
  /\ UNCHANGED <<source, humanVars>>

\* Another action becomes pending; the records of the last one are filed away.
ChangeAction ==
  /\ \E a \in Actions \ {task.action} :
       task' = [task EXCEPT !.action = a, !.decisions = <<>>, !.overrides = <<>>]
  /\ UNCHANGED <<source, humanVars>>

\* A stop is recorded, with a reason of the evaluation or of the host's own.
RecordStop ==
  /\ ~IsGoal
  /\ task.status = "running"
  /\ ExitCode(Evaluation) = 4
  /\ \/ \E m \in Evaluation.reasons \cup {"other"} :
          task' = [task EXCEPT !.status = "exhausted", !.reason = ReasonOf(task, m)]
     \/ task' = [task EXCEPT !.status = "halted", !.reason = ReasonOf(task, "other")]
  /\ UNCHANGED <<source, humanVars>>

(* Humans.                                                                 *)

\* A human signs what is seen of the task now.
Decide(g, refuses, time, key) ==
  /\ Cardinality(decided) < plan.decisions
  /\ decided' = decided \cup
       {[gate |-> g, refuses |-> refuses, time |-> time, action |-> task.action, key |-> key]}
  /\ UNCHANGED <<task, source, raised, plan>>

Raise(limit, margin, key) ==
  /\ Cardinality(raised) < plan.overrides
  /\ raised' = raised \cup
       {[limit |-> limit, value |-> Limits[limit] + margin, observed |-> Metric(task, limit),
         action |-> task.action, key |-> key]}
  /\ UNCHANGED <<task, source, decided, plan>>

\* A signed record is added to the task, whatever has become of it by then.
Deliver ==
  /\ \/ \E r \in decided :
          /\ Len(task.decisions) < MaxRecords
          /\ task' = [task EXCEPT !.decisions = Append(@, r)]
     \/ \E r \in raised :
          /\ Len(task.overrides) < MaxRecords
          /\ task' = [task EXCEPT !.overrides = Append(@, r)]
  /\ UNCHANGED <<source, humanVars>>

-----------------------------------------------------------------------------
(* The package.                                                            *)

\* The slice and context limits a task is at.
Reached(t) == {ReasonOf(t, m) : m \in EvaluateTask(t).reasons \cap SliceOrContext}

\* checkpoint migrate: nothing is written if the task cannot be evaluated.
Migrate ==
  /\ ~IsGoal
  /\ Accepted(task, FALSE)
  /\ source' = [status |-> task.status, reason |-> task.reason, reached |-> Reached(task)]
  /\ task' = Migrated(task)
  /\ UNCHANGED humanVars

\* Mutant: overrides are carried into the next slice.
AdvanceWithOverrides ==
  /\ IsGoal
  /\ Evaluation.decision = "checkpoint" /\ Evaluation.auto
  /\ task' = [task EXCEPT !.cycle = 0]
  /\ UNCHANGED <<source, humanVars>>

\* advance_checkpoint, as far as the records matter: it raises where the task
\* has overrides.
Advance ==
  /\ IsGoal
  /\ Evaluation.decision = "checkpoint" /\ Evaluation.auto
  /\ task.overrides = <<>>
  /\ task' = [task EXCEPT !.cycle = 0]
  /\ UNCHANGED <<source, humanVars>>

Next ==
  \/ Work
  \/ TakeCheckpoint
  \/ Compact
  \/ ChangeAction
  \/ RecordStop
  \/ \E g \in Gates, refuses \in BOOLEAN, time \in Times, key \in plan.keys :
       Decide(g, refuses, time, key)
  \/ \E limit \in plan.limits, margin \in plan.margins, key \in plan.keys :
       Raise(limit, margin, key)
  \/ Deliver
  \/ Migrate
  \/ Advance

Spec == Init /\ [][Next]_vars

-----------------------------------------------------------------------------
(* Properties.                                                             *)

\* Every field has its type, and a running task has no stop reason.
TypeOK ==
  /\ task \in Tasks
  /\ \/ source = None
     \/ source \in [status: {"running", "exhausted", "halted"},
                    reason: Reasons \cup {None}, reached: SUBSET Reasons]
  /\ decided \subseteq DecisionRecords
  /\ raised \subseteq OverrideRecords
  /\ plan \in Plans
  /\ task.status = "running" => task.reason = None

\* A refusal that no approval of its gate postdates stops the task, before and
\* after migration, in whatever order and however often the records arrived
\* (the scan of evaluate_policy and its tie check).
RefusalStands ==
  \A r \in ToSet(task.decisions) :
    /\ r.refuses
    /\ \A q \in ToSet(task.decisions) : q.gate = r.gate /\ ~q.refuses => q.time <= r.time
    => Evaluation.decision = "stop"

\* A refusal stops the evaluation only until a later approval of its gate: where
\* each has one and no two decisions of a gate are of one time, the decisions make
\* no difference, in whatever order they are listed.
ApprovalClears ==
  LET ds == task.decisions
  IN /\ \A r \in ToSet(ds) : r.action = task.action /\ r.key \in Pinned
     /\ \A g \in Gates : \A i, j \in OfGate(ds, g) : ds[i].time = ds[j].time => i = j
     /\ \A r \in ToSet(ds) : r.refuses =>
          \E q \in ToSet(ds) : q.gate = r.gate /\ ~q.refuses /\ r.time < q.time
     => Evaluation = Verdict([task EXCEPT !.decisions = <<>>])

\* Work goes on at or beyond a limit of the policy only by a human's leave: one
\* with a pinned key allowed more than was used, for this very action, when the
\* limit had not been reached.  An override of an earlier action, signed too
\* late, by another key or brought along by migration does not count
\* (_effective_limits, _verify_authorizations, the action binding).
LimitsLiftedInTime ==
  \A m \in {"cycle", "transcript", "retries"} :
    task[m] >= Limits[m] /\ Evaluation.decision = "continue" =>
      \E o \in raised :
        /\ o.limit = m /\ o.action = task.action /\ o.key \in Pinned
        /\ o.observed < Limits[m] /\ task[m] < o.value

\* A task that was stopped goes on after migration only if its recorded stop is
\* a slice or context limit that it really was at, whatever is decided, compacted
\* or changed later (migrate_goal).
RevivedFromSlicesOnly ==
  IsGoal /\ source.status # "running" /\ Evaluation.decision # "stop" =>
    /\ source.status = "exhausted"
    /\ source.reason \in source.reached

\* In a goal, the overrides of slice and context limits once accepted are not
\* refused because of what the host does: work, compaction and the next slice
\* never make the evaluation fail (context_can_shrink, and the last check of
\* advance_checkpoint).  This does not hold of v1 tasks.
WorkKeepsAuthority ==
  [][IsGoal /\ task'.decisions = task.decisions /\ task'.overrides = task.overrides
       /\ (\A o \in ToSet(task.overrides) : o.limit # "retries")
       /\ GoalAccepted(task)
     => GoalAccepted(task')]_vars

\* Migration by itself lifts no stop but those of slice and context limits, and
\* adds one exactly where the raised limits do not fit together: evaluate_goal
\* has them validated and refuses what evaluate_policy let pass.
MigrationAgrees ==
  ~IsGoal /\ Accepted(task, FALSE) =>
    LET v1 == EvaluateTask(task)
        v2 == EvaluateMigrated(Migrated(task))
    IN /\ v2.decision # "stop" =>
            v1.reasons \subseteq SliceOrContext \cup {"growth", "final_status"}
       /\ v1.decision # "stop" =>
            (v2.decision = "stop" <=> ~FitTogether(EffectiveLimits(task)))

=============================================================================
