------------------------- MODULE FailureLedgerProofs -------------------------
(***************************************************************************)
(* Proofs about FailureLedger for every set of operations, inputs, classes *)
(* and references and every retry limit.                                   *)
(***************************************************************************)
EXTENDS FailureLedger, FiniteSetTheorems, TLAPS

-----------------------------------------------------------------------------
(* Keys.                                                                   *)

\* A key is one of an operation or a diagnosis, an input and a class.
LEMMA KeyFacts ==
  ASSUME NEW id \in Operations \cup Diagnoses, NEW input \in Inputs, NEW class \in Classes
  PROVE  /\ Key(id, input, class) \in Keys
         /\ Key(id, input, class).identity = id /\ Key(id, input, class).input = input
BY DEF Key, Keys

\* The parts of a key.
LEMMA KeyParts ==
  ASSUME NEW k \in Keys
  PROVE  /\ k.identity \in Operations \cup Diagnoses /\ k.input \in Inputs /\ k.class \in Classes
         /\ k = Key(k.identity, k.input, k.class)
BY DEF Key, Keys

-----------------------------------------------------------------------------
(* The two operations.                                                     *)

\* The ledger after a failure.
LEMMA Failing ==
  ASSUME LedgerInv, NEW k \in Keys, NEW ref \in FailureRefs, RecordFailure(k, ref)
  PROVE  /\ DOMAIN failures' = DOMAIN failures \cup {k} /\ active' = k
         /\ \A j \in DOMAIN failures' : failures'[j] \in Records
         /\ \A j \in DOMAIN failures : j # k => failures'[j] = failures[j]
         /\ \A j \in DOMAIN failures : failures[j].observed \subseteq failures'[j].observed
         /\ failures'[k].attempts = tally[k] + 1
         /\ retries' \in Nat /\ retries' >= tally[k]
         /\ active \in {None, k} => retries' >= retries
<1>1. /\ DOMAIN failures \subseteq Keys /\ \A j \in DOMAIN failures : failures[j] \in Records
      /\ evidence \subseteq Refs /\ retries \in Nat /\ tally \in [Keys -> Nat]
  BY DEF LedgerInv, TypeOK
<1>2. tally[k] = IF k \in DOMAIN failures THEN failures[k].attempts ELSE 0
  BY DEF LedgerInv, FailuresCounted
<1>3. Failed(k, ref) \in Records /\ Failed(k, ref).attempts = tally[k] + 1
  BY <1>1, <1>2 DEF Failed, Records
<1>4. k \in DOMAIN failures => failures[k].observed \subseteq Failed(k, ref).observed
  BY DEF Failed
<1>5. failures' = With(failures, k, Failed(k, ref)) /\ active' = k /\ retries' = Counted(k)
  BY DEF RecordFailure
<1>6. /\ DOMAIN failures' = DOMAIN failures \cup {k} /\ failures'[k] = Failed(k, ref)
      /\ \A j \in DOMAIN failures : j # k => failures'[j] = failures[j]
  BY <1>5 DEF With
<1>7. retries' = Larger(IF active \in {None, k} THEN retries ELSE 0, tally[k])
  <2>1. failures'[k].attempts - 1 = tally[k]
    BY <1>1, <1>3, <1>6
  <2> QED BY <1>5, <2>1 DEF Counted
<1>8. /\ retries' \in Nat /\ retries' >= tally[k]
      /\ active \in {None, k} => retries' >= retries
  BY <1>1, <1>7 DEF Larger
<1> QED BY <1>1, <1>3, <1>4, <1>5, <1>6, <1>8

\* The ledger after a correction: the counts stay, and one more reference is
\* observed.
LEMMA Correcting ==
  ASSUME LedgerInv, NEW input \in Inputs, NEW ref \in Refs, PermitCorrectedAttempt(input, ref),
         NEW k, k = Key(active.identity, input, active.class)
  PROVE  /\ active \in DOMAIN failures /\ active \in Keys /\ k \in Keys /\ k # active
         /\ active' = k /\ DOMAIN failures' = DOMAIN failures \cup {k}
         /\ \A j \in DOMAIN failures' : failures'[j] \in Records
         /\ \A j \in DOMAIN failures : failures'[j].attempts = failures[j].attempts
         /\ k \notin DOMAIN failures => failures'[k].attempts = 0
         /\ \A j \in DOMAIN failures : failures[j].observed \subseteq failures'[j].observed
         /\ ref \in failures'[active].observed
         /\ retries' \in Nat /\ retries' >= tally[k] - 1
<1>1. /\ DOMAIN failures \subseteq Keys /\ \A j \in DOMAIN failures : failures[j] \in Records
      /\ tally \in [Keys -> Nat]
  BY DEF LedgerInv, TypeOK
<1>2. active \in DOMAIN failures /\ input # active.input
  BY DEF PermitCorrectedAttempt, LedgerInv, TypeOK
<1>3. active \in Keys /\ k \in Keys /\ k # active
  BY <1>1, <1>2, KeyParts, KeyFacts
<1>4. tally[k] = IF k \in DOMAIN failures THEN failures[k].attempts ELSE 0
  BY <1>3 DEF LedgerInv, FailuresCounted
<1>5. Corrected(k, ref) /\ active' = k
  BY DEF PermitCorrectedAttempt
<1> DEFINE seen == [attempts |-> failures[active].attempts, ref |-> failures[active].ref,
                    observed |-> failures[active].observed \cup {ref}]
<1>6. /\ seen \in Records /\ seen.attempts = failures[active].attempts
      /\ failures[active].observed \subseteq seen.observed /\ ref \in seen.observed
  BY <1>1, <1>2 DEF Records
<1>7. Prepared(ref) \in Records /\ Prepared(ref).attempts = 0
  BY <1>1, <1>2 DEF Prepared, Records
<1>8. Observing(ref) = With(failures, active, seen)
  BY DEF Observing
<1> HIDE DEF seen
<1>9. /\ DOMAIN Observing(ref) = DOMAIN failures /\ Observing(ref)[active] = seen
      /\ \A j \in DOMAIN failures : j # active => Observing(ref)[j] = failures[j]
  BY <1>2, <1>8 DEF With
<1>10. CASE k \in DOMAIN failures
  <2>1. failures' = Observing(ref) /\ retries' = Larger(0, tally[k] - 1)
    BY <1>4, <1>5, <1>10 DEF Corrected
  <2>2. retries' \in Nat /\ retries' >= tally[k] - 1
    BY <1>1, <1>3, <2>1 DEF Larger
  <2> QED BY <1>1, <1>2, <1>3, <1>5, <1>6, <1>9, <1>10, <2>1, <2>2
<1>11. CASE k \notin DOMAIN failures
  <2>1. failures' = With(Observing(ref), k, Prepared(ref)) /\ retries' = 0
    BY <1>5, <1>11 DEF Corrected
  <2>2. /\ DOMAIN failures' = DOMAIN failures \cup {k} /\ failures'[k] = Prepared(ref)
        /\ \A j \in DOMAIN failures : failures'[j] = Observing(ref)[j]
    BY <1>9, <1>11, <2>1 DEF With
  <2> QED BY <1>1, <1>2, <1>3, <1>4, <1>5, <1>6, <1>7, <1>9, <1>11, <2>1, <2>2
<1> QED BY <1>10, <1>11

\* A reference that is observed was consumed.
LEMMA LicensedConsumed ==
  ASSUME LicensedObserved, NEW ref, NewEvidence(ref)
  PROVE  ref \notin licensed
BY DEF LicensedObserved, NewEvidence, Consumed

-----------------------------------------------------------------------------
(* The invariant is inductive.                                             *)

LEMMA LedgerInit == Init => LedgerInv
<1> SUFFICES ASSUME Init PROVE LedgerInv
  OBVIOUS
<1>1. DOMAIN failures = {} /\ active = None /\ corrections = 0 /\ licensed = {}
  BY DEF Init
<1>2. TypeOK
  BY <1>1, LedgerAssumption DEF Init, TypeOK
<1>3. FailuresCounted
  BY <1>1 DEF Init, FailuresCounted, ValidLedger
<1>4. LicensedObserved /\ EvidenceSpentOnce
  BY <1>1, FS_EmptySet DEF LicensedObserved, EvidenceSpentOnce
<1> QED BY <1>2, <1>3, <1>4 DEF LedgerInv

LEMMA AttemptFailsStep ==
  ASSUME LedgerInv,
         NEW id \in Operations \cup Diagnoses, NEW class \in Classes, NEW ref \in FailureRefs,
         AttemptFails(id, class, ref)
  PROVE  LedgerInv'
<1> DEFINE k == Key(id, revision[id], class)
<1>1. k \in Keys
  BY KeyFacts DEF LedgerInv, TypeOK
<1>2. /\ RecordFailure(k, ref) /\ tally' = [tally EXCEPT ![k] = @ + 1]
      /\ known' = known \cup evidence \cup {ref}
      /\ UNCHANGED <<evidence, accepted, revision, licensed, corrections>>
  BY DEF AttemptFails
<1> HIDE DEF k
<1>3. /\ DOMAIN failures' = DOMAIN failures \cup {k} /\ active' = k
      /\ \A j \in DOMAIN failures' : failures'[j] \in Records
      /\ \A j \in DOMAIN failures : j # k => failures'[j] = failures[j]
      /\ \A j \in DOMAIN failures : failures[j].observed \subseteq failures'[j].observed
      /\ failures'[k].attempts = tally[k] + 1
      /\ retries' \in Nat /\ retries' >= tally[k]
  BY <1>1, <1>2, Failing
<1>4. TypeOK'
  BY <1>1, <1>2, <1>3 DEF LedgerInv, TypeOK
<1>5. FailuresCounted'
  <2>1. ASSUME NEW j \in Keys
        PROVE  tally'[j] = IF j \in DOMAIN failures' THEN failures'[j].attempts ELSE 0
    <3>1. tally \in [Keys -> Nat] /\ tally[j] = IF j \in DOMAIN failures THEN failures[j].attempts ELSE 0
      BY DEF LedgerInv, TypeOK, FailuresCounted
    <3> QED BY <1>1, <1>2, <1>3, <3>1
  <2>2. tally[k] \in Nat
    BY <1>1 DEF LedgerInv, TypeOK
  <2>3. ValidLedger'
    BY <1>3, <2>2 DEF ValidLedger
  <2> QED BY <2>1, <2>3 DEF FailuresCounted
<1>6. LicensedObserved' /\ EvidenceSpentOnce'
  BY <1>2, <1>3 DEF LedgerInv, LicensedObserved, EvidenceSpentOnce
<1> QED BY <1>4, <1>5, <1>6 DEF LedgerInv

LEMMA CorrectionStep ==
  ASSUME LedgerInv, NEW input \in Inputs, NEW ref \in Refs, PermitCorrectedAttempt(input, ref)
  PROVE  LedgerInv'
<1> DEFINE k == Key(active.identity, input, active.class)
<1>1. /\ active \in DOMAIN failures /\ active \in Keys /\ k \in Keys /\ k # active
      /\ active' = k /\ DOMAIN failures' = DOMAIN failures \cup {k}
      /\ \A j \in DOMAIN failures' : failures'[j] \in Records
      /\ \A j \in DOMAIN failures : failures'[j].attempts = failures[j].attempts
      /\ k \notin DOMAIN failures => failures'[k].attempts = 0
      /\ \A j \in DOMAIN failures : failures[j].observed \subseteq failures'[j].observed
      /\ ref \in failures'[active].observed
      /\ retries' \in Nat /\ retries' >= tally[k] - 1
  BY Correcting
<1> HIDE DEF k
<1>2. /\ UNCHANGED <<evidence, accepted, tally, known>>
      /\ revision' = [revision EXCEPT ![active.identity] = input]
      /\ licensed' = licensed \cup {ref} /\ corrections' = corrections + 1
      /\ NewEvidence(ref)
  BY DEF PermitCorrectedAttempt
<1>3. TypeOK'
  <2>1. revision' \in [Operations \cup Diagnoses -> Inputs]
    BY <1>1, <1>2, KeyParts DEF LedgerInv, TypeOK
  <2> QED BY <1>1, <1>2, <2>1 DEF LedgerInv, TypeOK
<1>4. FailuresCounted'
  <2>1. ASSUME NEW j \in Keys
        PROVE  tally'[j] = IF j \in DOMAIN failures' THEN failures'[j].attempts ELSE 0
    BY <1>1, <1>2 DEF LedgerInv, FailuresCounted
  <2>2. ValidLedger'
    BY <1>1, <1>2, <2>1 DEF ValidLedger
  <2> QED BY <2>1, <2>2 DEF FailuresCounted
<1>5. LicensedObserved'
  <2>1. IsFiniteSet(licensed')
    BY <1>2, FS_AddElement DEF LedgerInv, LicensedObserved
  <2> QED BY <1>1, <1>2, <2>1 DEF LedgerInv, LicensedObserved
<1>6. EvidenceSpentOnce'
  <2>1. ref \notin licensed /\ IsFiniteSet(licensed)
    BY <1>2, LicensedConsumed DEF LedgerInv, LicensedObserved
  <2>2. Cardinality(licensed') = Cardinality(licensed) + 1
    BY <1>2, <2>1, FS_AddElement
  <2> QED BY <1>2, <2>2 DEF LedgerInv, EvidenceSpentOnce
<1> QED BY <1>3, <1>4, <1>5, <1>6 DEF LedgerInv

LEMMA LedgerNext == LedgerInv /\ [Next]_vars => LedgerInv'
<1> SUFFICES ASSUME LedgerInv, [Next]_vars PROVE LedgerInv'
  OBVIOUS
<1>1. CASE \E id \in Operations \cup Diagnoses, class \in Classes, ref \in FailureRefs :
             AttemptFails(id, class, ref)
  BY <1>1, AttemptFailsStep
<1>2. CASE \E input \in Inputs, ref \in Refs : PermitCorrectedAttempt(input, ref)
  BY <1>2, CorrectionStep
<1>3. ASSUME UNCHANGED <<ledger, revision, history>>,
             evidence' \subseteq Refs, accepted' \subseteq Refs
      PROVE  LedgerInv'
  BY <1>3 DEF LedgerInv, TypeOK, FailuresCounted, ValidLedger, LicensedObserved,
              EvidenceSpentOnce, ledger, history
<1>4. CASE \E ref \in Refs : ListEvidence(ref)
  BY <1>3, <1>4 DEF ListEvidence, LedgerInv, TypeOK
<1>5. CASE AcceptEvidence
  BY <1>3, <1>5 DEF AcceptEvidence, LedgerInv, TypeOK
<1>6. CASE UNCHANGED vars
  BY <1>3, <1>6 DEF vars, ledger, history, LedgerInv, TypeOK
<1> QED BY <1>1, <1>2, <1>4, <1>5, <1>6 DEF Next

\* Every reachable ledger satisfies the inductive invariant.
THEOREM LedgerInvariant == Spec => []LedgerInv
<1> QED BY LedgerInit, LedgerNext, PTL DEF Spec

\* Every field of the ledger keeps its type.
THEOREM LedgerTypes == Spec => []TypeOK
<1>1. LedgerInv => TypeOK
  BY DEF LedgerInv
<1> QED BY <1>1, LedgerInvariant, PTL

\* The history counts every failure of every revision, and the retry counter
\* never falls below that of the active failure.
THEOREM LedgerCounts == Spec => []FailuresCounted
<1>1. LedgerInv => FailuresCounted
  BY DEF LedgerInv
<1> QED BY <1>1, LedgerInvariant, PTL

\* One piece of evidence pays for one corrected attempt.
THEOREM LedgerSpendsOnce == Spec => []EvidenceSpentOnce
<1>1. LedgerInv => EvidenceSpentOnce
  BY DEF LedgerInv
<1> QED BY <1>1, LedgerInvariant, PTL

\* The retries of a legacy task are not lowered before a failure was recorded,
\* and allow no correction.
THEOREM LedgerLegacy == Spec => LegacyKept
<1>1. ASSUME LedgerInv, [Next]_vars
      PROVE  [active = None => retries' >= retries /\ corrections' = corrections]_vars
  <2> SUFFICES ASSUME active = None PROVE retries' >= retries /\ corrections' = corrections
    OBVIOUS
  <2>1. retries \in Nat
    BY <1>1 DEF LedgerInv, TypeOK
  <2>2. ASSUME NEW id \in Operations \cup Diagnoses, NEW class \in Classes, NEW ref \in FailureRefs,
               AttemptFails(id, class, ref)
        PROVE  retries' >= retries /\ corrections' = corrections
    <3>1. Key(id, revision[id], class) \in Keys
      BY <1>1, KeyFacts DEF LedgerInv, TypeOK
    <3> QED BY <1>1, <2>2, <3>1, Failing DEF AttemptFails
  <2> QED BY <1>1, <2>1, <2>2
          DEF Next, PermitCorrectedAttempt, ListEvidence, AcceptEvidence, ledger, history, vars
<1> QED BY <1>1, LedgerInvariant, PTL DEF Spec, LegacyKept

\* The active failure of an operation is repeated only below the retry limit,
\* whatever else failed before it and whatever its class.
THEOREM LedgerActive == Spec => ActiveBounded
<1>1. ASSUME LedgerInv, [Next]_vars
      PROVE  [active # None /\ active.identity \in Operations /\ tally'[active] > tally[active]
                => tally'[active] <= RetryLimit + 1]_vars
  <2> SUFFICES ASSUME active # None, active.identity \in Operations, tally'[active] > tally[active]
               PROVE  tally'[active] <= RetryLimit + 1
    OBVIOUS
  <2>1. /\ active \in DOMAIN failures /\ active \in Keys
        /\ tally \in [Keys -> Nat] /\ retries \in Nat /\ RetryLimit \in Nat
        /\ revision \in [Operations \cup Diagnoses -> Inputs]
    BY <1>1, LedgerAssumption DEF LedgerInv, TypeOK
  <2>2. tally[active] = failures[active].attempts /\ retries >= failures[active].attempts - 1
    BY <1>1, <2>1 DEF LedgerInv, FailuresCounted, ValidLedger
  <2>3. tally[active] \in Nat /\ tally'[active] # tally[active]
    BY <2>1
  <2>4. PICK id \in Operations \cup Diagnoses, class \in Classes, ref \in FailureRefs :
          AttemptFails(id, class, ref)
    BY <1>1, <2>3
       DEF Next, PermitCorrectedAttempt, ListEvidence, AcceptEvidence, history, vars
  <2> DEFINE k == Key(id, revision[id], class)
  <2>5. k \in Keys /\ k.identity = id
    BY <2>1, KeyFacts
  <2>6. tally' = [tally EXCEPT ![k] = @ + 1] /\ Allowed(id)
    BY <2>4 DEF AttemptFails
  <2> HIDE DEF k
  <2>7. k = active
    BY <2>1, <2>3, <2>5, <2>6
  <2>8. retries < RetryLimit
    BY <2>5, <2>6, <2>7, LedgerAssumption DEF Allowed
  <2>9. tally'[active] = tally[active] + 1
    BY <2>1, <2>5, <2>6, <2>7
  <2> QED BY <2>1, <2>2, <2>3, <2>8, <2>9
<1> QED BY <1>1, LedgerInvariant, PTL DEF Spec, ActiveBounded

-----------------------------------------------------------------------------
(* No revision is repeated beyond its limit.                               *)

\* The conditions on what failed, once broken, stay so: failures add up.
LEMMA ConditionsBreakOnce ==
  ASSUME LedgerInv, LedgerInv', \A j \in Keys : tally[j] <= tally'[j]
  PROVE  /\ DiagnosesHold' => DiagnosesHold
         /\ \A id : OneClass(id)' => OneClass(id)
<1>1. \A j \in Keys : tally[j] \in Nat /\ tally'[j] \in Nat
  BY DEF LedgerInv, TypeOK
<1>2. \A j \in Keys : tally'[j] = 0 => tally[j] = 0
  BY <1>1
<1>3. \A j \in Keys : tally[j] > 0 => tally'[j] > 0
  BY <1>1
<1> QED BY <1>2, <1>3 DEF DiagnosesHold, OneClass

\* A failure below the retry limit leaves every revision within its bound.
LEMMA RepeatsFailing ==
  ASSUME LedgerInv, LedgerInv', ActiveFailed, PreparedBelow, RepeatsBounded,
         NEW id \in Operations \cup Diagnoses, NEW class \in Classes, NEW ref \in FailureRefs,
         AttemptFails(id, class, ref)
  PROVE  ActiveFailed' /\ PreparedBelow' /\ RepeatsBounded'
<1> DEFINE k == Key(id, revision[id], class)
<1>1. /\ tally \in [Keys -> Nat] /\ retries \in Nat /\ RetryLimit \in Nat
      /\ revision \in [Operations \cup Diagnoses -> Inputs]
  BY LedgerAssumption DEF LedgerInv, TypeOK
<1>2. k \in Keys /\ k.identity = id /\ k.input = revision[id]
  BY <1>1, KeyFacts
<1>3. /\ Allowed(id) /\ revision' = revision
      /\ tally' = [tally EXCEPT ![k] = @ + 1] /\ active' = k
  BY DEF AttemptFails, RecordFailure
<1> HIDE DEF k
<1>4. /\ tally'[k] = tally[k] + 1 /\ tally[k] \in Nat
      /\ \A j \in Keys : j # k => tally'[j] = tally[j]
      /\ \A j \in Keys : tally[j] <= tally'[j]
  BY <1>1, <1>2, <1>3
<1>5. ActiveFailed'
  BY <1>1, <1>2, <1>3, <1>4 DEF ActiveFailed
<1>6. ASSUME DiagnosesHold'
      PROVE  /\ \A j \in Keys : OneClass(j.identity)' /\ j.input = revision[j.identity]
                                => tally[j] <= RetryLimit
             /\ \A j \in Keys : OneClass(j.identity)' => tally[j] <= RetryLimit + 1
  <2>1. DiagnosesHold /\ \A i : OneClass(i)' => OneClass(i)
    BY <1>4, <1>6, ConditionsBreakOnce
  <2>2. id \in Operations
    BY <1>2, <1>4, <1>6 DEF DiagnosesHold
  <2>3. retries < RetryLimit
    BY <1>3, <2>2, LedgerAssumption DEF Allowed
  <2>4. active # None => active \in Keys /\ tally[active] <= RetryLimit
    <3> SUFFICES ASSUME active # None PROVE active \in Keys /\ tally[active] <= RetryLimit
      OBVIOUS
    <3>1. active \in DOMAIN failures /\ active \in Keys
      BY DEF LedgerInv, TypeOK
    <3>2. tally[active] = failures[active].attempts /\ retries >= failures[active].attempts - 1
      BY <3>1 DEF LedgerInv, FailuresCounted, ValidLedger
    <3>3. tally[active] \in Nat
      BY <1>1, <3>1
    <3> QED BY <1>1, <2>3, <3>1, <3>2, <3>3
  <2>5. \A j \in Keys : OneClass(j.identity) /\ j.input = revision[j.identity]
                        => tally[j] <= RetryLimit
    BY <2>1, <2>4, LedgerAssumption DEF PreparedBelow
  <2> QED BY <2>1, <2>5 DEF RepeatsBounded
<1>7. PreparedBelow'
  <2>1. ASSUME DiagnosesHold', NEW j \in Keys, OneClass(j.identity)',
               j.input = revision[j.identity], j # k
        PROVE  tally'[j] <= RetryLimit
    BY <1>4, <1>6, <2>1
  <2> QED BY <1>3, <2>1 DEF PreparedBelow
<1>8. RepeatsBounded'
  <2>1. ASSUME DiagnosesHold', NEW j \in Keys, OneClass(j.identity)'
        PROVE  tally'[j] <= RetryLimit + 1
    <3>1. CASE j = k
      <4>1. tally[k] <= RetryLimit
        BY <1>2, <1>6, <2>1, <3>1
      <4> QED BY <1>1, <1>4, <3>1, <4>1
    <3>2. CASE j # k
      BY <1>4, <1>6, <2>1, <3>2
    <3> QED BY <3>1, <3>2
  <2> QED BY <2>1 DEF RepeatsBounded
<1> QED BY <1>5, <1>7, <1>8

\* A correction prepares another revision of the operation whose failure is
\* active, and makes it the active one.
LEMMA RepeatsCorrecting ==
  ASSUME LedgerInv, ActiveFailed, PreparedBelow, RepeatsBounded,
         NEW input \in Inputs, NEW ref \in Refs, PermitCorrectedAttempt(input, ref)
  PROVE  ActiveFailed' /\ PreparedBelow' /\ RepeatsBounded'
<1> DEFINE k == Key(active.identity, input, active.class)
<1>1. /\ tally \in [Keys -> Nat] /\ RetryLimit \in Nat
      /\ revision \in [Operations \cup Diagnoses -> Inputs]
  BY LedgerAssumption DEF LedgerInv, TypeOK
<1>2. /\ active \in Keys /\ active # None /\ k \in Keys
      /\ active \in DOMAIN failures
  BY Correcting DEF PermitCorrectedAttempt
<1>3. k.identity = active.identity /\ k.input = input /\ k.class = active.class
  BY <1>2, KeyParts DEF Key
<1>4. /\ active' = k /\ tally' = tally
      /\ revision' = [revision EXCEPT ![active.identity] = input]
  BY DEF PermitCorrectedAttempt
<1> HIDE DEF k
<1>5. ActiveFailed'
  <2>1. PICK w \in Keys : w.identity = active.identity /\ w.class = active.class /\ tally[w] > 0
    BY <1>2 DEF ActiveFailed
  <2>2. active'.input = revision'[active'.identity]
    BY <1>1, <1>2, <1>3, <1>4, KeyParts
  <2> QED BY <1>3, <1>4, <2>1, <2>2 DEF ActiveFailed
<1>6. UNCHANGED DiagnosesHold /\ \A id : OneClass(id)' <=> OneClass(id)
  BY <1>4 DEF DiagnosesHold, OneClass
<1>7. ASSUME DiagnosesHold, NEW j \in Keys, OneClass(j.identity),
             j.input = revision'[j.identity], j # k
      PROVE  tally[j] <= RetryLimit
  <2>1. CASE j.identity = active.identity
    <3>1. j.input = k.input
      BY <1>1, <1>2, <1>3, <1>4, <1>7, <2>1, KeyParts
    <3>2. j.class # active.class
      BY <1>2, <1>3, <1>7, <2>1, <3>1, KeyParts
    <3>3. ~(tally[j] > 0)
      BY <1>2, <1>7, <2>1, <3>2 DEF ActiveFailed, OneClass
    <3> QED BY <1>1, <1>7, <3>3
  <2>2. CASE j.identity # active.identity
    <3>1. j.input = revision[j.identity] /\ j # active
      BY <1>1, <1>4, <1>7, <2>2, KeyParts
    <3> QED BY <1>7, <3>1 DEF PreparedBelow
  <2> QED BY <2>1, <2>2
<1>8. PreparedBelow'
  BY <1>4, <1>6, <1>7 DEF PreparedBelow
<1>9. RepeatsBounded'
  BY <1>4, <1>6 DEF RepeatsBounded
<1> QED BY <1>5, <1>8, <1>9

LEMMA RepeatsStep ==
  ASSUME LedgerInv, LedgerInv', ActiveFailed, PreparedBelow, RepeatsBounded, [Next]_vars
  PROVE  ActiveFailed' /\ PreparedBelow' /\ RepeatsBounded'
<1>1. ASSUME UNCHANGED <<active, revision, tally>>
      PROVE  ActiveFailed' /\ PreparedBelow' /\ RepeatsBounded'
  BY <1>1 DEF ActiveFailed, PreparedBelow, RepeatsBounded, DiagnosesHold, OneClass
<1> QED BY <1>1, RepeatsFailing, RepeatsCorrecting
        DEF Next, ListEvidence, AcceptEvidence, ledger, history, vars

\* As long as no diagnosis is recorded as failed, an input revision of an
\* operation that fails with one class fails at most once more than the
\* retries allow, through corrections, returns and other operations.
THEOREM LedgerRepeats == Spec => []RepeatsBounded
<1>1. Init => ActiveFailed /\ PreparedBelow /\ RepeatsBounded
  BY LedgerAssumption DEF Init, ActiveFailed, PreparedBelow, RepeatsBounded
<1>2. LedgerInv /\ LedgerInv' /\ ActiveFailed /\ PreparedBelow /\ RepeatsBounded /\ [Next]_vars
        => ActiveFailed' /\ PreparedBelow' /\ RepeatsBounded'
  BY RepeatsStep
<1> QED BY <1>1, <1>2, LedgerInvariant, PTL DEF Spec
=============================================================================
