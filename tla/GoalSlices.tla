----------------------------- MODULE GoalSlices -----------------------------
(***************************************************************************)
(* A v2 goal checkpoint in the hands of its host: the host works, spawns   *)
(* children and records what it observes, each time under the decision of  *)
(* evaluate_goal, and crosses slice boundaries with advance_checkpoint.    *)
(*                                                                         *)
(* The evaluator judges the checkpoint as it is recorded; "spent" is what  *)
(* was really used, which no field of the checkpoint holds.                *)
(***************************************************************************)
EXTENDS Integers, Sequences, FiniteSets, SequencesExt, GoalDecision

CONSTANTS
  Refs,        \* evidence references
  Requests,    \* request ids of slice transitions
  Postures,    \* the states of the remaining task fields the host may record
  StartTasks,  \* what new_goal may be given: the v1 tasks' counters and lists
  MaxStep,     \* most that one work step uses of a counter
  MaxTokens    \* bound: tokens used in all of a goal

Counters == {"cycle", "children"}
Keys == Counters \cup {"tokens"}

VARIABLES
  used,        \* the slice's counters, and its usage or Unknown
  baseline,    \* the totals at the last slice boundary
  totals,      \* totals as recorded
  active,      \* active children
  evidence,    \* evidence_refs of the task
  accepted,    \* accepted_evidence
  history,     \* the transition receipts
  posture,     \* the other fields of the task and the goal
  spent,       \* what was really used, by the v1 task and since
  source,      \* the v1 task that new_goal was given
  kept         \* whether this slice has a place for the required reviewer

accountVars == <<used, baseline, totals, spent>>
evidenceVars == <<evidence, accepted, history>>
auxVars == <<source, kept>>
vars == <<used, baseline, totals, active, evidence, accepted, history, posture, spent,
          source, kept>>

PostureType ==
  [status: Statuses, declined: BOOLEAN, transcript: Nat, saved: Nat,
   retries: Nat, noEvidence: Nat, action: ActionKinds,
   review: BOOLEAN, human: BOOLEAN, nextStep: BOOLEAN]

ASSUME PosturesAreTyped == Postures \subseteq PostureType /\ Postures # {}
ASSUME StepsAreBounded ==
  /\ MaxStep \in Nat \ {0} /\ MaxTokens \in Nat
  /\ Unknown \notin Int
  /\ DOMAIN GoalLimits \subseteq Keys
ASSUME RefsAreFinite == IsFiniteSet(Refs)
ASSUME TasksAreTyped ==
  StartTasks \subseteq [cycle: Nat, children: Nat, active: Nat, evidence: SUBSET Refs]

Amount == Nat \cup {Unknown}
Receipts == [request: Requests, totals: [Keys -> Amount], refs: SUBSET Refs]

-----------------------------------------------------------------------------
(* Accounting.                                                             *)

\* Mutant: an unmeasured usage counts as nothing.
PlusZero(a, b) == (IF a = Unknown THEN 0 ELSE a) + (IF b = Unknown THEN 0 ELSE b)

Plus(a, b) == IF a = Unknown \/ b = Unknown THEN Unknown ELSE a + b

\* Mutant: what is not a counter is not carried into the totals.
TotalsOfCounters(base, slice) == [k \in Counters |-> Plus(base[k], slice[k])]

\* refresh_totals: totals are the baseline plus what the slice used.
Totals(base, slice) == [k \in Keys |-> Plus(base[k], slice[k])]

Zero == [k \in Keys |-> 0]

\* What a v1 task had used when it became a goal, as far as it says.
Began(t) == [Zero EXCEPT !.cycle = t.cycle, !.children = t.children]

\* new_goal: the four usage values are not known until the host measures them.
Unmeasured(t) == [Began(t) EXCEPT !.tokens = Unknown]

\* The host writes new slice metrics and refreshes the totals.
Record(slice) ==
  /\ used' = slice
  /\ totals' = Totals(baseline, slice)
  /\ UNCHANGED baseline

(* validate_goal_checkpoint, as far as it relates fields.                  *)

ValidTotals == totals = Totals(baseline, used)

\* Request ids are unique; from one receipt to the next no total falls, and
\* none becomes known again.
ValidHistory ==
  \A i, j \in DOMAIN history : i < j =>
    /\ history[i].request # history[j].request
    /\ \A k \in Keys :
         LET before == history[i].totals[k]
             after  == history[j].totals[k]
         IN after = Unknown \/ (before # Unknown /\ before <= after)

ValidBaseline == baseline = IF history = <<>> THEN Zero ELSE Last(history).totals

ValidAccepted == accepted = UNION {history[i].refs : i \in DOMAIN history}

-----------------------------------------------------------------------------
\* What evaluate_goal sees of the checkpoint.
Goal ==
  [status |-> posture.status, declined |-> posture.declined,
   transcript |-> posture.transcript, saved |-> posture.saved,
   retries |-> posture.retries, noEvidence |-> posture.noEvidence,
   action |-> posture.action, review |-> posture.review,
   human |-> posture.human, nextStep |-> posture.nextStep,
   cycle |-> used.cycle, children |-> used.children, active |-> active,
   evidence |-> evidence, accepted |-> accepted, totals |-> totals]

-----------------------------------------------------------------------------
\* new_goal: the first slice goes on from the v1 task, over its limits or not.
Init ==
  /\ source \in StartTasks
  /\ used = Unmeasured(source)
  /\ baseline = Zero
  /\ totals = Totals(Zero, Unmeasured(source))
  /\ active = source.active
  /\ evidence = source.evidence
  /\ accepted = {}
  /\ history = <<>>
  /\ posture \in {p \in Postures : p.action = "execute" /\ ~p.review /\ ~p.human}
  /\ spent = Began(source)
  /\ kept = FALSE

(***************************************************************************)
(* advance_checkpoint.  The receipt lists only references that no earlier  *)
(* receipt lists, in the code in task-list order.                          *)
(***************************************************************************)

\* Mutant: the receipt is written before the totals are refreshed.
NewReceiptEarly(r) == [request |-> r, totals |-> baseline, refs |-> evidence \ accepted]

\* Mutant: the receipt repeats the whole evidence list.
NewReceiptCumulative(r) == [request |-> r, totals |-> totals, refs |-> evidence]

NewReceipt(r) == [request |-> r, totals |-> totals, refs |-> evidence \ accepted]

\* Mutant: the totals of the slice are dropped with its counters.
RestartForgetting ==
  used' = Zero /\ baseline' = baseline /\ totals' = Totals(baseline, Zero)

\* The next slice counts from zero on top of all that was used.
Restart ==
  used' = Zero /\ baseline' = totals /\ totals' = Totals(totals, Zero)

\* Mutant: the history is not searched for the request id.
AdvanceAgain(r) ==
  /\ EvaluateGoal(Goal).decision = "checkpoint"
  /\ EvaluateGoal(Goal).auto
  /\ history' = Append(history, NewReceipt(r))
  /\ accepted' = accepted \cup evidence
  /\ Restart
  /\ kept' = posture.review
  /\ UNCHANGED <<active, evidence, posture, spent, source>>

\* A request whose receipt there is returns the checkpoint as it is; any other
\* outcome of the decision raises.  Neither changes anything.
Advance(r) ==
  /\ \A i \in DOMAIN history : history[i].request # r
  /\ EvaluateGoal(Goal).decision = "checkpoint"
  /\ EvaluateGoal(Goal).auto
  /\ history' = Append(history, NewReceipt(r))
  /\ accepted' = accepted \cup evidence
  /\ Restart
  /\ kept' = posture.review
  /\ UNCHANGED <<active, evidence, posture, spent, source>>

(***************************************************************************)
(* The host.  It acts only as the decision allows.                         *)
(***************************************************************************)

\* What one unit of work uses.
Usage(n, tokens) == [Zero EXCEPT !["cycle"] = n, !["tokens"] = tokens]

\* One unit of work: it may overshoot a counter, use tokens and bring
\* evidence.  Usage is recorded only where it is being measured.
Work(n, tokens, found) ==
  /\ posture.action # "wait"
  /\ EvaluateGoal(Goal).decision = "continue"
  /\ spent.tokens + tokens <= MaxTokens
  /\ Record([k \in Keys |-> IF used[k] = Unknown THEN Unknown ELSE used[k] + Usage(n, tokens)[k]])
  /\ spent' = [k \in Keys |-> spent[k] + Usage(n, tokens)[k]]
  /\ evidence' = evidence \cup found
  /\ UNCHANGED <<active, accepted, history, posture, auxVars>>

\* A reviewer takes the place that was kept for it.
Spawn ==
  /\ EvaluateGoal(Goal).spawn
  /\ Record([used EXCEPT !.children = @ + 1])
  /\ spent' = [spent EXCEPT !.children = @ + 1]
  /\ active' = active + 1
  /\ kept' = (kept /\ posture.action # "review")
  /\ UNCHANGED <<evidenceVars, posture, source>>

\* A child ends, whatever the decision is by then.
ChildEnds(found) ==
  /\ active > 0
  /\ active' = active - 1
  /\ evidence' = evidence \cup found
  /\ UNCHANGED <<accountVars, accepted, history, posture, auxVars>>

\* The host measures the tokens of the first slice.
Measure ==
  /\ used.tokens = Unknown
  /\ Record([used EXCEPT !.tokens = spent.tokens])
  /\ UNCHANGED <<active, evidenceVars, posture, spent, auxVars>>

\* The host changes the action kind, compacts the context, records failures,
\* human answers or a status, or takes references off the task's list.  A review
\* may become required when the executors have taken all the places already.
Observe ==
  /\ posture' \in Postures
  /\ kept' = (/\ posture'.review
              /\ IF posture.review THEN kept ELSE used.children <= Limits.children - Reserve)
  /\ UNCHANGED <<accountVars, active, evidenceVars, source>>

Prune(ref) ==
  /\ ref \in evidence
  /\ evidence' = evidence \ {ref}
  /\ UNCHANGED <<accountVars, active, accepted, history, posture, auxVars>>

Next ==
  \/ \E r \in Requests : Advance(r)
  \/ \E n \in 1 .. MaxStep, tokens \in 0 .. MaxStep, found \in SUBSET Refs : Work(n, tokens, found)
  \/ Spawn
  \/ \E found \in SUBSET Refs : ChildEnds(found)
  \/ Measure
  \/ Observe
  \/ \E ref \in Refs : Prune(ref)

Spec == Init /\ [][Next]_vars

-----------------------------------------------------------------------------
(* Properties.                                                             *)

\* Every field has its type.
TypeOK ==
  /\ used \in [Keys -> Amount]
  /\ baseline \in [Keys -> Amount]
  /\ totals \in [Keys -> Amount]
  /\ active \in Nat
  /\ evidence \subseteq Refs
  /\ accepted \subseteq Refs
  /\ history \in Seq(Receipts)
  /\ posture \in Postures
  /\ spent \in [Keys -> Nat]
  /\ source \in StartTasks
  /\ kept \in BOOLEAN

\* Resetting a slice's counters loses nothing and counts nothing twice: a
\* total the checkpoint claims to know is what was used since the v1 task began,
\* however many slices ago (refresh_totals with the resets of
\* advance_checkpoint).
TotalsAreSpent == \A k \in Keys : totals[k] # Unknown => totals[k] = spent[k]

\* What the last line of advance_checkpoint validates always holds, so that a
\* transition evaluate_goal authorizes is never refused by the validator, nor a
\* checkpoint the host recorded in between.
CheckpointValid == ValidTotals /\ ValidHistory /\ ValidBaseline /\ ValidAccepted

\* Each slice is paid for with evidence of its own: a receipt lists at least
\* one reference, and no reference is in two receipts, also when the host took
\* it off the task's list and put it back (the fresh set of evaluate_goal, the
\* evidence_refs of the receipt).
ReceiptsFresh ==
  /\ \A i \in DOMAIN history : history[i].refs # {}
  /\ \A i, j \in DOMAIN history : i # j => history[i].refs \cap history[j].refs = {}

\* Across all its slices a goal uses less than one step more than a limited
\* total allows, and nothing at all beyond what the v1 task had used where that
\* is over the limit, or not measured.
BudgetHolds ==
  \A k \in DOMAIN GoalLimits :
    \/ spent[k] = Began(source)[k]
    \/ totals[k] # Unknown /\ spent[k] < GoalLimits[k] + MaxStep

\* Spawning under spawn_allowed never has more children run than
\* max_concurrency, nor more of them started in a slice than
\* max_children_per_parent, though children outlive the decision they were
\* spawned under; a v1 task that has more of them starts no others.
ChildrenBounded ==
  /\ active <= Limits.concurrency \/ active <= source.active
  /\ used.children <= Limits.children \/ (history = <<>> /\ used.children = source.children)

\* The most one slice uses of a counter: work starts below the limit and may
\* overshoot it by less than a step, a child is spawned only below the limit.
SliceMost ==
  [c \in Counters |-> IF c = "cycle" THEN Limits.cycle + MaxStep - 1 ELSE Limits.children]

\* Renewing slices by itself never lets a goal run on without results: all the
\* work and all the children since new_goal are covered by one slice more than
\* there are distinct accepted references, also when no goal limit is set (the
\* fresh set of evaluate_goal with the resets of advance_checkpoint).
AutonomyBounded ==
  \A c \in Counters :
    spent[c] <= Began(source)[c] + (Cardinality(accepted) + 1) * SliceMost[c]

\* A slice is left only at rest: no child runs, nobody has to be asked, the
\* context needs no maintenance, no goal limit is reached or unknown, and the
\* failures seen allow another attempt, unless it is left to diagnose or to
\* wait, which they do not hold up.  A limit reached at the same time as the
\* slice's counter ends the goal instead of renewing the slice.
AdvancesAtRest ==
  [][history' # history =>
       /\ active = 0
       /\ posture.status \in {"running", "error"}
       /\ \/ posture.action \in {"diagnose", "wait"}
          \/ /\ posture.status = "running"
             /\ posture.retries < Limits.retries /\ posture.noEvidence < Limits.noEvidence
       /\ ~posture.human /\ ~posture.declined
       /\ posture.transcript < Limits.transcript
       /\ posture.transcript - posture.saved < Limits.growth
       /\ \A k \in DOMAIN GoalLimits : totals[k] # Unknown /\ totals[k] < GoalLimits[k]]_vars

\* The goal's memory is not lost at a boundary: a known total never falls or
\* is forgotten, and a total that entered a boundary unmeasured stays unknown
\* (a None baseline in refresh_totals), so that a limit on it stays reached.
TotalsNeverRegress ==
  [][/\ \A k \in Keys : totals[k] # Unknown => totals'[k] # Unknown /\ totals'[k] >= totals[k]
     /\ \A k \in Keys : baseline[k] = Unknown => totals'[k] = Unknown]_vars

\* The checkpoint as the evaluator would see it in the reviewer's turn.
ReviewerTurn == [Goal EXCEPT !.action = "review"]

\* Once a required review has a place in its slice, because it became required
\* in time or because a new slice began, the places executors take before the
\* reviewer's turn are never what denies it one: it may be spawned whenever it
\* could be if no child had been started in the slice, whatever the host
\* records in between (the reserve in spawn_allowed).
ReviewerHasPlace ==
  kept /\ Reserve > 0 /\ EvaluateGoal([ReviewerTurn EXCEPT !.children = 0]).spawn
    => EvaluateGoal(ReviewerTurn).spawn

\* The checkpoint as checkpoint_store.py sees it: its receipts, and whether
\* advance_checkpoint would renew its slice.
AsStored ==
  [goal |-> "goal", history |-> [i \in DOMAIN history |-> history[i].request],
   ready |-> AutoContinue(Goal)]
NoCheckpoint == [goal |-> "none", history |-> <<>>, ready |-> FALSE]

\* What the host, the evaluator and advance_checkpoint do to a checkpoint is
\* what the store takes them to do (advance_file calls them under its lock):
\* only a ready checkpoint is advanced, by a request new to it, and no new
\* slice is ready before something is observed in it.
Stored == INSTANCE AtomicCheckpoint WITH
  ckpt <- AsStored, answered <- {}, Goals <- {"goal"}, None <- NoCheckpoint
ImplementsStored == Stored!PublishedSpec

-----------------------------------------------------------------------------
(* Why they hold: the inductive invariant.                                 *)

\* The counters are always measured.
CountersKnown == \A k \in Counters : used[k] # Unknown /\ baseline[k] # Unknown

\* Only the first slice can be unmeasured, so that what is measured late is all
\* there was.
UnmeasuredFirst == used["tokens"] = Unknown => baseline = Zero

\* No receipt claims more than the last one.
HistoryBelow ==
  \A i \in DOMAIN history, k \in Keys :
    \/ baseline[k] = Unknown
    \/ history[i].totals[k] # Unknown /\ history[i].totals[k] <= baseline[k]

SlicesInv ==
  /\ TypeOK /\ CheckpointValid /\ TotalsAreSpent
  /\ CountersKnown /\ UnmeasuredFirst /\ HistoryBelow
  /\ ReceiptsFresh /\ BudgetHolds /\ ChildrenBounded

\* Each slice was paid for by a reference of its own, and none used more than
\* a slice may or, the first one, more than the v1 task had used already.
SlicesPaid ==
  /\ Len(history) <= Cardinality(accepted)
  /\ \A c \in Counters :
       /\ used[c] <= SliceMost[c] \/ (history = <<>> /\ used[c] = Began(source)[c])
       /\ history # <<>> => baseline[c] <= Began(source)[c] + Len(history) * SliceMost[c]

\* The reviewer's place is there while the review is required.
PlaceKept == kept => posture.review /\ used.children <= Limits.children - Reserve
=============================================================================
