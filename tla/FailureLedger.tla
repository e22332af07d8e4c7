---------------------------- MODULE FailureLedger ----------------------------
(***************************************************************************)
(* The failure history of a v2 goal: record_failure counts the failures of *)
(* an input revision of an operation, permit_corrected_attempt lets a      *)
(* different revision be tried on new evidence, and the retry counter that *)
(* evaluate_goal compares with its limit follows the active failure.       *)
(*                                                                         *)
(* The host executes an operation with the revision it last prepared for   *)
(* it, only while the counter is below the limit; it diagnoses at any time.*)
(* An operation stands for the identity hash of [operation, target].       *)
(***************************************************************************)
EXTENDS Integers, FiniteSets, Functions

CONSTANTS
  Operations,   \* what is executed
  Diagnoses,    \* read-only diagnosis, which may fail as well
  Inputs,       \* input revisions
  FirstInput,   \* the one every operation starts with
  Classes,      \* error classes
  Refs,         \* evidence references a task may list
  FailureRefs,  \* references failures are recorded with
  RetryLimit,   \* max_same_failure_retries
  MaxFailures,  \* bound: failures recorded in all
  None          \* no active failure

Keys == [identity: Operations \cup Diagnoses, input: Inputs, class: Classes]

ASSUME LedgerAssumption ==
  /\ FirstInput \in Inputs
  /\ Operations \cap Diagnoses = {}
  /\ RetryLimit \in Nat /\ MaxFailures \in Nat
  /\ None \notin Keys

VARIABLES
  failures,    \* failure_history, by key
  active,      \* active_failure
  retries,     \* the task's same_failure_retries
  evidence,    \* the task's evidence_refs
  accepted,    \* accepted_evidence
  revision,    \* the input the host has prepared for each operation
  tally,       \* how often each key failed since the goal began
  known,       \* references there were when some failure was recorded
  licensed,    \* references that permitted a correction
  corrections  \* how many corrections were permitted

ledger == <<failures, active, retries>>
history == <<tally, known, licensed, corrections>>
vars == <<failures, active, retries, evidence, accepted, revision,
          tally, known, licensed, corrections>>

Records == [attempts: Nat, ref: Refs \cup FailureRefs, observed: SUBSET Refs]

Larger(a, b) == IF a >= b THEN a ELSE b

Key(id, input, class) == [identity |-> id, input |-> input, class |-> class]

\* The history f with r as the record of k, new or not.
With(f, k, r) == [j \in DOMAIN f \cup {k} |-> IF j = k THEN r ELSE f[j]]

Init ==
  /\ failures = [k \in {} |-> 0]
  /\ active = None
  /\ retries \in 0 .. RetryLimit          \* of a legacy task, not classified
  /\ evidence = {}
  /\ accepted = {}
  /\ revision = [id \in Operations \cup Diagnoses |-> FirstInput]
  /\ tally = [k \in Keys |-> 0]
  /\ known = {}
  /\ licensed = {}
  /\ corrections = 0

-----------------------------------------------------------------------------
(* record_failure.                                                         *)

Failed(k, ref) ==
  IF k \in DOMAIN failures
  THEN [attempts |-> failures[k].attempts + 1, ref |-> ref,
        observed |-> failures[k].observed \cup evidence]
  ELSE [attempts |-> 1, ref |-> ref, observed |-> evidence]

\* Mutant: the counter of an unclassified failure is not carried over.
CountedAnew(k) == failures'[k].attempts - 1

\* The retry counter after k failed: never less than k's own count, nor than
\* what it was when k continues the active or the first classified failure.
Counted(k) ==
  Larger(IF active \in {None, k} THEN retries ELSE 0, failures'[k].attempts - 1)

RecordFailure(k, ref) ==
  /\ failures' = With(failures, k, Failed(k, ref))
  /\ retries' = Counted(k)
  /\ active' = k

\* Mutant: the limit itself still lets an operation execute.
AllowedAtLimit(id) == id \in Diagnoses \/ retries <= RetryLimit

\* evaluate_goal lets an operation execute below the retry limit, and the
\* failure does not hold up a diagnosis.
Allowed(id) == id \in Diagnoses \/ retries < RetryLimit

\* The host executes an operation or a diagnosis, which fails.
AttemptFails(id, class, ref) ==
  /\ Allowed(id)
  /\ LET k == Key(id, revision[id], class) IN
       /\ SumFunction(tally) < MaxFailures
       /\ RecordFailure(k, ref)
       /\ tally' = [tally EXCEPT ![k] = @ + 1]
       /\ known' = known \cup evidence \cup {ref}
  /\ UNCHANGED <<evidence, accepted, revision, licensed, corrections>>

-----------------------------------------------------------------------------
(* permit_corrected_attempt.                                               *)

Consumed ==
  UNION {failures[k].observed : k \in DOMAIN failures} \cup
    {failures[k].ref : k \in DOMAIN failures}

\* Mutant: evidence the history already knows is accepted again.
NewEvidenceIfListed(ref) == ref \in evidence \ accepted

\* Evidence that no recorded failure knew of, or was corrected with.
NewEvidence(ref) == ref \in (evidence \ accepted) \ Consumed

\* The active failure has now seen ref as well.
Observing(ref) ==
  With(failures, active, [attempts |-> failures[active].attempts, ref |-> failures[active].ref,
                          observed |-> failures[active].observed \cup {ref}])

Prepared(ref) ==
  [attempts |-> 0, ref |-> ref, observed |-> failures[active].observed \cup {ref}]

\* Mutant: going back to a revision that failed starts over.
CorrectedForgetting(k, ref) ==
  failures' = With(Observing(ref), k, Prepared(ref)) /\ retries' = 0

\* Mutant: going back to a revision that failed does not restore its count.
CorrectedUncounted(k, ref) ==
  /\ retries' = 0
  /\ failures' = IF k \in DOMAIN failures THEN Observing(ref)
                 ELSE With(Observing(ref), k, Prepared(ref))

\* Mutant: the prepared revision is made active and not listed.
CorrectedUnlisted(k, ref) ==
  /\ failures' = Observing(ref)
  /\ retries' = IF k \in DOMAIN failures THEN Larger(0, failures[k].attempts - 1) ELSE 0

\* k is the revision to try: known with its count, or prepared with none.
Corrected(k, ref) ==
  IF k \in DOMAIN failures
  THEN failures' = Observing(ref) /\ retries' = Larger(0, failures[k].attempts - 1)
  ELSE failures' = With(Observing(ref), k, Prepared(ref)) /\ retries' = 0

PermitCorrectedAttempt(input, ref) ==
  /\ NewEvidence(ref)
  /\ active # None
  /\ input # active.input
  /\ LET k == Key(active.identity, input, active.class) IN
       /\ Corrected(k, ref)
       /\ active' = k
  /\ revision' = [revision EXCEPT ![active.identity] = input]
  /\ licensed' = licensed \cup {ref}
  /\ corrections' = corrections + 1
  /\ UNCHANGED <<evidence, accepted, tally, known>>

-----------------------------------------------------------------------------
(* validate_goal_checkpoint, as far as it relates the ledger's fields.     *)

\* The active failure is listed, and the counter is not below its own.
ValidLedger ==
  active # None =>
    active \in DOMAIN failures /\ retries >= failures[active].attempts - 1

-----------------------------------------------------------------------------
(* The rest of the goal, as far as it bears on the ledger.                 *)

\* The host lists evidence, or takes it off the list.
ListEvidence(ref) ==
  /\ evidence' \in {evidence \cup {ref}, evidence \ {ref}}
  /\ UNCHANGED <<ledger, accepted, revision, history>>

\* advance_checkpoint accepts what is listed and leaves the ledger alone.
AcceptEvidence ==
  /\ accepted' = accepted \cup evidence
  /\ UNCHANGED <<ledger, evidence, revision, history>>

Next ==
  \/ \E id \in Operations \cup Diagnoses, class \in Classes, ref \in FailureRefs :
       AttemptFails(id, class, ref)
  \/ \E input \in Inputs, ref \in Refs : PermitCorrectedAttempt(input, ref)
  \/ \E ref \in Refs : ListEvidence(ref)
  \/ AcceptEvidence

Spec == Init /\ [][Next]_vars

-----------------------------------------------------------------------------
(* Properties.                                                             *)

\* Every field has its type.
TypeOK ==
  /\ DOMAIN failures \subseteq Keys
  /\ \A k \in DOMAIN failures : failures[k] \in Records
  /\ active \in DOMAIN failures \cup {None}
  /\ retries \in Nat
  /\ evidence \subseteq Refs /\ accepted \subseteq Refs
  /\ revision \in [Operations \cup Diagnoses -> Inputs]
  /\ tally \in [Keys -> Nat]
  /\ known \subseteq Refs \cup FailureRefs /\ licensed \subseteq Refs
  /\ corrections \in Nat

\* Failures are never forgotten: through corrections, returns to an earlier
\* revision and other failures in between, the history counts every failure
\* of every revision, and the counter the evaluator looks at never falls below
\* that of the active one ("retry counter regressed from failure history" is
\* not raised for a checkpoint these functions produced).
FailuresCounted ==
  /\ \A k \in Keys : tally[k] = IF k \in DOMAIN failures THEN failures[k].attempts ELSE 0
  /\ ValidLedger

\* One piece of evidence pays for one corrected attempt, whatever was recorded,
\* accepted, delisted or listed again in between (the consumed set of
\* permit_corrected_attempt).
EvidenceSpentOnce == corrections = Cardinality(licensed)

\* No diagnosis was recorded as failed.
DiagnosesHold == \A k \in Keys : k.identity \in Diagnoses => tally[k] = 0

\* All the failures of id are of one class.
OneClass(id) ==
  \A j, k \in Keys :
    j.identity = id /\ k.identity = id /\ tally[j] > 0 /\ tally[k] > 0 => j.class = k.class

\* As long as no diagnosis is recorded as failed, an input revision of an
\* operation that has failed with one error class fails at most once more than
\* the retries allow, however failures of other operations and classes,
\* corrections and returns come between: the counter follows the revision back.
RepeatsBounded ==
  DiagnosesHold => \A k \in Keys : OneClass(k.identity) => tally[k] <= RetryLimit + 1

\* docs/migration-0.5.md:60: "An action stop prevents repeating that action":
\* the same, whatever else is recorded as failed.
ActionStopHolds == \A k \in Keys : k.identity \in Operations => tally[k] <= RetryLimit + 1

\* What is left of that where an operation fails with several classes and
\* diagnoses fail too: the failure that is active is not repeated beyond its
\* retries, also when it became active again by a return to its revision.
ActiveBounded ==
  [][active # None /\ active.identity \in Operations /\ tally'[active] > tally[active]
       => tally'[active] <= RetryLimit + 1]_vars

\* The retries of a legacy task, of which nobody knows what failed, are not
\* lowered before a failure was recorded, and allow no correction.
LegacyKept == [][active = None => retries' >= retries /\ corrections' = corrections]_vars

\* docs/migration-0.5.md:130: "reverting to a failed input restores its
\* previous attempt count."
RevertRestores ==
  [][corrections' > corrections =>
       \A k \in Keys : k.identity = active'.identity /\ k.input = active'.input
                         => retries' >= tally[k] - 1]_vars

\* goals.py:411: "correction evidence predates failure or was already
\* consumed": what permits a correction was not there when a failure was
\* recorded.
CorrectionIsNew == [][licensed' \cap known \subseteq licensed \cap known]_vars

-----------------------------------------------------------------------------
(* Why they hold: the inductive invariants.                                *)

\* What permitted a correction is observed by some record and stays so.
LicensedObserved ==
  /\ IsFiniteSet(licensed)
  /\ \A ref \in licensed : \E k \in DOMAIN failures : ref \in failures[k].observed

LedgerInv == TypeOK /\ FailuresCounted /\ LicensedObserved /\ EvidenceSpentOnce

\* The active failure is of the revision prepared and of a class its operation
\* has failed with.
ActiveFailed ==
  active # None =>
    /\ active.input = revision[active.identity]
    /\ \E j \in Keys : j.identity = active.identity /\ j.class = active.class /\ tally[j] > 0

\* Any other prepared revision may fail again, under the conditions of
\* RepeatsBounded.
PreparedBelow ==
  DiagnosesHold =>
    \A k \in Keys : OneClass(k.identity) /\ k.input = revision[k.identity] /\ k # active
                      => tally[k] <= RetryLimit
=============================================================================
