# agent-collab-harness in TLA+

`src/agent_collab_harness` is a small Python package that decides, for a host
that runs agents, whether the work on a goal may go on, must take a checkpoint
or must stop, and that keeps the goal's checkpoint in a file. It executes
nothing itself. This directory holds TLA+ modules of that package, TLC
configurations that check them on small instances, and proofs that hold for
every instance.

## The system

| Part | Source | State | Operations |
|---|---|---|---|
| checkpoint store | `checkpoint_store.py` | the checkpoint file, its lock file, temporary files | `create_file`, `advance_file` |
| goal evaluation | `goals.py` 486-599 | none | `evaluate_goal` |
| v1 policy evaluation | `policy.py` | none | `evaluate_policy` |
| goal accounting | `goals.py` 123-313, 602-636 | totals, baseline, usage, receipts, accepted evidence | `new_goal`, `refresh_totals`, `validate_goal_checkpoint`, `advance_checkpoint` |
| failure ledger | `goals.py` 271-443 | failure history, active failure, retry counter | `record_failure`, `permit_corrected_attempt` |
| migration | `goals.py` 446-477 | none | `migrate_goal` |
| human authorization | `policy.py` 70-173, 199-213 | signed decisions and overrides inside a task | verification, latest decision of a gate, effective limits |
| document validation | `validation.py`, `io.py` | none | strict checks of JSON documents, hashing |
| command line, doctor | `cli.py`, `doctor.py` | none | arguments, exit codes, inspection |
| skill lint | `scripts/check_skill_contracts.py` | none | text rules on the skill files |

A host calls `evaluate_goal` on its checkpoint before it executes or spawns,
writes what it observes (counters, evidence, failures, answers of humans) into
the checkpoint, and calls `advance_file`, which runs `advance_checkpoint` under
the file lock, when a slice is at its boundary. `create_file` publishes the
checkpoint that `new_goal` or `migrate_goal` built.

What is hard here: several processes and a host share one file, any of them
may die, and the machine may lose power between two system calls; a request may
be retried after an error that came too late; limits of slices, of the active
context and of the whole goal are reached in the same step and must not mask
each other; usage may not be known; counters restart while totals go on; one
retry counter serves many failures; what humans sign is about the task they saw
and arrives when it is another. `PROJECT.json` lists these hazards line by
line with the properties that would catch them.

What makes each part correct:

- store: one writer at a time; no lost update; a request applied once however
  often it is sent; no torn or foreign file after a power loss; acknowledged
  transitions stay; no overwriting by create; every call returns.
- evaluation: one more thing gone wrong never loosens a decision; with respect to
  the v1 policy only stops at slice counters and at context limits are relaxed, both
  to checkpoints, and stops for failures that diagnosis does not repeat; a human's
  refusal or a goal limit ends the goal.
- accounting: totals are what was used; receipts, baseline and accepted
  evidence agree; each slice brings new evidence; limits hold across slices.
- ledger: every failure is counted; a revision is not repeated beyond its
  retries; evidence pays for one correction.
- authorization: a refusal stands until a later approval and no longer; a limit
  is passed only by the leave of a human with a pinned key, given in time and
  for the action at hand; what was once accepted is not lost by mere work.
- migration: only stops at slice and context limits are lifted, never a recorded
  stop of another kind; nothing is written for a task that cannot be evaluated.

## Modules

| Module | Models |
|---|---|
| `AtomicCheckpoint` | what the store promises: a checkpoint that is published once and then only moves by observations and transitions, with answers to requests already recorded |
| `DurableCheckpoint` | what it still promises where the power may fail: the same checkpoint, which may be taken back to an earlier version but never behind a transition confirmed by its own call |
| `DurableCheckpointProofs` | what a caller may conclude from that |
| `CheckpointStore` | `create_file` and `advance_file` by system calls, processes, crashes, power loss |
| `CheckpointStoreProofs` | its theorems |
| `GoalDecision` | `evaluate_policy` and `evaluate_goal` as operators |
| `GoalObservations` | the evaluators on every combination of observations |
| `GoalObservationsProofs` | its theorems |
| `GoalSlices` | accounting and slice transitions under a host that keeps to the decisions |
| `GoalSlicesProofs` | its theorems |
| `FailureLedger` | failure history, corrections and the retry counter |
| `FailureLedgerProofs` | its theorems |
| `HumanRecords` | signed decisions and overrides, their checks, and both evaluators and `migrate_goal` on a task that has them, as operators |
| `GoalMigration` | a task with its records under a host, before and after migration |
| `GoalMigrationProofs` | its theorems |
| `HistoryFacts` | lemmas about histories (appending, prefixes) that several proofs use |
| `MC...` | the same modules with constants and symmetry for TLC |

### CheckpointStore

`pc` says where a process is between two system calls of `advance_file` or
`create_file`; `request`, `expected`, `raw`, `updated` and `temp` are the local
variables of the call. `file` is what the path names; `survivors` is the set of
contents the path may name after a power loss, so `os.replace` and `os.link`
add what the temporary file holds on disk (nothing certain unless it was
fsynced: `Torn`) and the fsync of the directory leaves only the current file.
The SHA-256 of the raw file is modelled by the content itself. A checkpoint is
its goal, the request ids of its receipts, and `ready`: whether `evaluate_goal`
would authorize a transition. The lock is `flock` with `LOCK_NB`: contention is
an error (`LockFails`), a dead process loses the lock (`Crash`) and its
temporary file stays behind under a random name. Any system call may fail, the
unlink inside an except-clause included (`CleanupFails`): the file is then `stuck`, and
its caller sees that error. `create_file` is given any valid state (`Creatable`): a
fresh goal, a migrated task that is at a slice limit already, or a copy of a goal with
the receipts it has (`Imported`).
`HostObserve` writes observations under the same lock, as
`docs/migration-0.5.md:124` asks of hosts; it changes `ready` and never the
history. The POSIX branch is modelled; on Windows `_sync_directory` does
nothing, which the mutant `SkipDirectory` of the property `ConfirmedDurable`
shows to matter.

The store is shown against two abstract specifications. Without power losses it
implements `AtomicCheckpoint`, with `acked`, every request a caller was told "ok"
for, as the answered ones (`ImplementsAtomic`). With them it implements
`DurableCheckpoint` (`ImplementsDurable`), whose only addition is `Rollback`; there
the answered requests are `confirmed`, those answered by the call that applied
them, since the answer to a replay is not durable (finding 1).

### GoalDecision and GoalObservations

A goal is a record of the fields the decisions depend on. Metrics that the code
treats alike are represented by one: `cycle` for cycle, tool calls and elapsed
time; `transcript` for the context metrics; `error` for error and timed out;
`halted` for the other final or paused statuses. Every early assignment that a
later one may overwrite is an operator of its own (`GoalStop`, `Held`,
`Boundary`, `Crowded`), composed in the order of the code. Limits are the
effective ones, after overrides; as `evaluate_goal` has them validated once more,
`LimitsAreValid` is what it demands of them, and an override that breaks it makes
every evaluation raise. `GoalObservations` starts from an untroubled
task and adds one observation per step until every limit is reached, so that
action properties compare a decision with the one after one more observation.

### GoalSlices

`used`, `baseline` and `totals` hold the two counters that stand for the four
and `tokens` for the four usages, which start unknown. `Advance` is
`advance_checkpoint`: a receipt, the accepted evidence, the new baseline, the
restarted counters. The host's actions (`Work`, `Spawn`, `ChildEnds`, `Measure`,
`Observe`, `Prune`) are external; they keep to the decision and record what they
use, so `spent` (a history variable no checkpoint has) is what `totals` must
agree with. The first slice goes on from a v1 task as `new_goal` takes it
over (`source`): with its counters, its running children and its evidence, over the
slice limits or not; the four usages start unknown, and `advance_checkpoint` sets them
to 0, so every later slice is measured from its start. `kept` is a history variable
too: this slice has a place for the review that is required, because it became
required while there was one left or because the slice is new. A review required
after executors took all the places has none until the next slice, and
`ReviewerHasPlace` says that from then on none of the host's steps takes it away.
A repeated request id returns the checkpoint unchanged and an
unauthorized one raises: neither is a step. The task carries no overrides, as
`advance_checkpoint` refuses one that does.

`ImplementsStored` ties this module to the store. `CheckpointStore` knows of a
checkpoint only its receipts and whether it is `ready`, and takes for granted that
an advance appends one new request, that only a ready checkpoint is advanced, that
it is not ready right afterwards, and that a host changes nothing but `ready`. Under the
mapping `AsStored`, whose `ready` is what `evaluate_goal` says in `auto_continue`, the
goal's own steps are steps of the same `AtomicCheckpoint` that the store implements.

### FailureLedger

`failures` is `failure_history` as a function of (identity, input, class),
`retries` the task's `same_failure_retries`. Order in the list does not matter
to the code, and neither does the sharing of the `observed_evidence` list
between a failure and the revision prepared from it, as only the union over all
records is ever used. The host executes an operation with the revision it last
prepared, below the retry limit, and diagnoses at any time; operations and diagnoses
may fail with any error class. `tally`, `known`,
`licensed` and `corrections` are history variables.

### HumanRecords and GoalMigration

A task has its status and stop reason, the slice counter `cycle`, `transcript`,
`saved` (its length at the last checkpoint), `retries`, the lists `decisions` and
`overrides`, and the hash of the pending `action`. `ValidTask`, `Authorized`,
`OverrideHolds` and `Ambiguous` are the four ways in which a task with records
makes an evaluator raise; an exception is what the command line makes of it, the
answer `FailClosed`. `IsLatest` is what the scan of the decisions keeps, `Ambiguous`
the ties it trips over on its way. `EvaluateTask` is `evaluate_policy`,
`EvaluateMigrated` is `evaluate_goal`: it instantiates `GoalDecision` with the
raised limits, after their second validation (`FitTogether`). The two differ in what
becomes of a context override when the context shrinks. `Migrated` is what
`migrate_goal` makes of the task; a stop reason is its metric with the two numbers
its text contains, since migration compares texts.

In `GoalMigration` a host works where the exit code of `policy evaluate` is 0,
takes a checkpoint where it is 3, records a stop where it is 4, compacts the
context or goes on to another action whenever it likes. A human signs a record for
the task as it is (`Decide`, `Raise`); `Deliver` adds it later, after any of those
steps, in any order and perhaps twice. `Migrate` and `Advance` are the package's
steps. `source` remembers what the v1 task recorded and was really at.

Signatures are keys: a record verifies when its key is pinned, which a portable
policy does for none. Records are not altered once signed. The
task has no children, no measured totals (`NoGoalLimits`; both are the subject of
`GoalSlices`) and no `noEvidence`, which the code treats as `retries`.

Two things the model shows that are stated nowhere as properties. An override of
`retries` stops counting, and makes a v1 task or a goal fail closed, when a success
restarts that counter, as `docs/migration-0.5.md:79-83` says; `WorkKeepsAuthority`
therefore speaks of the other limits and of goals. And the scan's tie check depends
on order: two equally old decisions of a gate are ambiguous if the list has them
before a later one, and are not noticed if it has them after it. The later one
governs either way or the evaluation stops, so `RefusalStands` holds;
`ApprovalClears` assumes that there are no ties.

## Runs

| Run | Instance | Shows |
|---|---|---|
| `store` | 2 processes, 2 requests, 2 goals, crashes; files created fresh or with a receipt | no lost update, acknowledged requests recorded, no temporary file left by a call, nothing overwritten, refinement of `AtomicCheckpoint` |
| `store_power` | the same with power losses | requests applied once in every version that may survive, survivors whole, confirmed transitions durable, refinement of `DurableCheckpoint` |
| `store_live` | 2 processes, 1 request, 1 goal | every call returns |
| `store_ack_lost` | as `store_power` | finding: an answer to a replayed request is not durable |
| `slices` | 3 slices, steps of 1 or 2, usage measured early, late or never | accounting, receipts, totals, work bounded by accepted results, refinement of `AtomicCheckpoint`; from a fresh task and from one past its cycle limit |
| `slice_limits` | 2 slices, up to 2 children at once, one disturbance at a time | goal limits, children, the reviewer's place, boundaries crossed at rest; also from a task with more children than allowed |
| `observations` | every limit within two steps | the evaluators against each other and against one more observation |
| `migration` | 1 gate, 2 actions, 2 keys of which 1 is pinned, at most 2 records of a kind in the task | refusals, approvals, raised limits and migration under records that come late, twice or for another action |
| `ledger` | 2 operations and a diagnosis, 2 revisions, 2 classes, limit 1, up to 4 failures in all | failures counted, evidence spent once, repeats bounded, for an active failure whatever else fails |
| `ledger_stop` | with a diagnosis that fails | finding: the stop of an action is lifted |
| `ledger_revert` | 2 error classes | finding: going back does not restore the count |
| `ledger_old_evidence` | 1 operation | finding: evidence of an earlier failure permits a correction |

Bounds. Two processes suffice for every race of the store: a third one can only
fail on the lock or run in between as the second does. Two requests give a
retry and a conflict, two goals a foreign file. The numbers of slices and of
failures are bounded by `Requests`, `MaxTokens` and `MaxFailures`, each larger
than the limit it has to pass: a step may overshoot a slice counter (`MaxStep`),
a third slice follows a second, `MaxFailures` leaves two failures beyond `RetryLimit + 1` for others to come
between. `StartTasks` has a fresh task and one that is over a slice limit, `Imported`
no receipt or one. In
`observations` every combination of values at and below the limits occurs. The
behaviours of `migration` have one of four plans: two decisions (order and ties), one
decision with any key, one override of any limit by either margin, or one with any
key; what becomes of several raised limits is left to the proofs. Each record may be
delivered twice; one gate
is enough, as gates do not interact, and two timestamps give an earlier, a later and
an equal one. Deadlock is checked except in `observations`, where the last state has
nothing left to observe, and in `migration`, where a task that is halted with all its
records may have nothing left to do.

Fairness is assumed only in `store_live`: a process that is inside a call and
does not crash goes on (`WF_vars(Run(p))`). The code has no loop and waits for
nothing, and an operating system does schedule its processes; no fairness on
the lock, on successful system calls or on the host is assumed.

## Proofs

`CheckpointStoreProofs` proves, for any sets of processes, requests and goals,
every safety property of the store that the runs check.
The properties are not inductive: `NoLostUpdate` speaks of a process that is
about to publish and is kept only because nobody else can. `StoreInv`
strengthens them with what each step knows: who is between lock and unlock holds
the lock (`LockHeld`), what the locals of a call are at each step
(`AdvanceShape`, `CreateShape`), and that what may survive is a prefix of what is
about to be published (`PublishShape`). One lemma per group of actions shows
that it is kept; `AckInv` adds, without power losses, that answered requests are
recorded. The refinement maps `file` and `acked` to the abstract checkpoint;
`AtomicStep` shows that each step is an abstract step or a stutter. For
`StoreImplementsDurable` a step that leaves the visible file and `confirmed` alone stutters,
`VisibleStep` maps the others, and `PowerLossRollsBack` shows that a loss of power is
a `Rollback`: by `StoreInv` what may survive is a prefix of the visible history and
contains every confirmed request. `DurablePromise` proves, once and for every
implementation, what callers need of it (answered requests are recorded, none twice). `NoTempLeft`
has a small invariant of its own, `TempInv`: a temporary file exists only between
its creation and the rename or unlink, or is stuck. The proofs
assume only that the sentinels are not values (`SentinelsDiffer`; in
`DurablePromise`, that `None` is not a checkpoint).

`GoalSlicesProofs` proves every property of the accounting, for any policy
limits, goal limits, references, requests, postures, step sizes and v1 tasks to start
from, and so for any number of slices. `SlicesInv` adds three facts to the properties: counters
are always measured (`CountersKnown`); only a first slice can be unmeasured, so
that tokens measured late are all the tokens there were (`UnmeasuredFirst`); and
no receipt claims more than the baseline (`HistoryBelow`), without which a new
receipt could not be compared with all the earlier ones. `Continuing`,
`Spawning` and `Crossing` extract from `evaluate_goal` what each of its answers
says of the checkpoint; `Recording` shows that refreshed totals are what was
spent. The proofs assume that the limits are those the validator accepts
(`LimitsAreValid`) and that one unit of work uses at most `MaxStep` of a counter.
`SlicesReviewer` rests on `PlaceKept`: while the place is kept, no more children were
started than the reserve leaves (`PlaceStep`); the children may all be executors', and the
review may be required and dropped again any number of times.

`SlicesAutonomy` bounds what a goal may do without a goal limit: no more than
`Cardinality(accepted) + 1` slices' worth. This is inductive only with `SlicesPaid`: there are no
more receipts than accepted references, each slice stays below `SliceMost` and the
baseline below that for every receipt (`PaidWork`, `PaidSpawn`, `PaidAdvance`, one
lemma for each step that could break it). A slice is paid for because `AutoContinue`
demands a reference that is not accepted yet, which is why the proof needs a finite
set of references (`RefsAreFinite`, true of any document) and the cardinality of a union.
`SlicesImplementStored` shows, step by step, that `Advance` is a `Transition` of the
stored checkpoint and every other step an `Observe` (`AdvanceIsTransition`,
`OtherStepsObserve`).

`FailureLedgerProofs` proves the properties of the ledger for any operations,
revisions, classes and references. `EvidenceSpentOnce` needs `LicensedObserved`:
what permitted a correction stays observed in some record, although the
`evidence_ref` of a record may be overwritten. `LedgerRepeats` states when a
revision cannot be repeated past its limit: no diagnosis is recorded as failed, and
the operation fails with one class only. Both are conditions on what has happened,
not on the constants, and the runs `ledger_revert` and `ledger_stop` show what
happens without them; other operations may fail with any class in between. The
invariant has two more parts: the active failure is of the prepared revision and of a
class its operation has failed with (`ActiveFailed`), and every other revision prepared
for an operation has a failure left (`PreparedBelow`). A correction back to a
revision finds its count because it looks under the class of the active failure,
which under the condition is the only one the revision can have failed with.
`LedgerActive` needs neither condition: the failure that is
active is not repeated past its limit, because by `FailuresCounted` the counter that
`evaluate_goal` looks at is never below that failure's own. The gap between the two
theorems is exactly the findings 2 and 3, where another failure becomes active.

`GoalObservationsProofs` proves the properties of the evaluators for any policy
that is valid and any limits. Three of them say something of one state and need
no invariant but its type: `BaseSays` relates the answer of the v1 policy to its
reasons, `Continues` and `GoalWide` go through the order of the checks. For
`NeverLoosens`, `Worse` says what one more observation may change; `StepWorse`
shows that every step does no other, and `ReasonsStay`, `BaseStays`, `HeldStays`,
`DecisionStays`, `SpawnStays` and `RenewalStays` follow the code from the reasons of
the policy to the answer.

`GoalMigrationProofs` proves every property of the human records and of migration,
for any gates, actions, keys, timestamps, limits, plans and numbers of records. The
invariant `MigrationInv` adds two facts to the types: every override in the task was
signed by a human (`OverridesSigned`), and a goal whose v1 task was stopped runs only
if the recorded stop was one of the limits it was at (`RevivalExplained`), which later
steps cannot undo because nothing makes a goal run again. That a list with a
decision of a gate has a latest one (`LatestExists`) needs a minimal counterexample,
by well-founded induction on places in the list. The proofs assume that the
limits are valid, that records are typed (`HumansAreTyped`) and `NoGoalLimits`.
`OrderNeverDecides` settles how far the order dependence of the tie check goes: two
lists of the same decisions give the same verdicts, before and after migration,
unless one of them has a tie that the scan notices, where the evaluators raise
(`RefusedByContent`, from `RefusalCounts`). No run states it, as two decisions, all that
a run of `migration` has, cannot show the asymmetry.

Every safety property, action property and refinement that a passing run checks is
proved. Left to TLC: `CallReturns`, which is liveness under fairness and beyond the
prover, and the four findings, which are counterexamples.

## Findings

1. `advance_file` acknowledges a request it finds in the visible history
   without syncing the directory. If the first attempt died or failed between
   `os.replace` and the sync, the retry is answered with success and a power
   loss may still take the transition back.
2. `record_failure` restarts the retry counter when another failure was active.
   Recording a failed diagnosis, which an action stop allows, lifts the stop.
3. `permit_corrected_attempt` finds an earlier revision only under the error
   class of the active failure; after a failure of another class the count of
   the revision returned to is not restored.
4. `record_failure` overwrites `evidence_ref`. The reference of the earlier
   attempt is forgotten and later counts as new evidence.

## Not modelled

The computation of signatures and key hashes (cryptography), the checks of single
fields of documents, JSON, argument parsing, the doctor and the lint of the skill
files (sequential, without state), the Windows branch of the lock, hash chaining of
receipts (a sequence has its order). The skills, the memory proposals and the
lane protocol under `skills/` and `docs/` are prose for agents, not code.

## Plan

Done: the store, the evaluators, accounting, the ledger, human records and
migration, the proofs of their safety properties, and the refinements that join
the store and the accounting. Left:

1. Composition: `CheckpointStore` and `GoalSlices` are joined by the abstract checkpoint
   both refine; a host that loses power between its observations and the file,
   so that its accounting is rolled back too, is still to be modelled.
2. Children of a task with overrides (`max_concurrency` and
   `max_children_per_parent` raised together), of which only the validation is
   modelled.
