------------------------ MODULE GoalMigrationProofs ------------------------
(***************************************************************************)
(* Proofs about GoalMigration for every policy, any number of gates, keys, *)
(* records and actions, and however long the task goes on.  What the two   *)
(* evaluators say of a task is proved of every task; the invariant adds    *)
(* where the overrides and the recorded stop come from.                    *)
(***************************************************************************)
EXTENDS GoalMigration, TLAPS, WellFoundedInduction

\* The overrides of the task were signed, of limits humans may raise.
OverridesSigned ==
  /\ ToSet(task.overrides) \subseteq raised
  /\ \A o \in raised : o.limit \in Raisable

\* A goal runs only if its task did, or was stopped by the limit it recorded.
RevivalExplained ==
  IsGoal /\ source.status # "running" /\ task.status = "running" =>
    source.status = "exhausted" /\ source.reason \in source.reached

MigrationInv == TypeOK /\ OverridesSigned /\ RevivalExplained

-----------------------------------------------------------------------------
(* What an evaluation that does not stop says of the task.                 *)

\* The fields of a task have their types.
LEMMA TaskFields ==
  ASSUME NEW t \in Tasks
  PROVE  /\ t.status \in {"running", "exhausted", "halted"}
         /\ t.reason \in Reasons \cup {None}
         /\ t.cycle \in Nat /\ t.transcript \in Nat /\ t.saved \in Nat /\ t.retries \in Nat
         /\ t.decisions \in Seq(DecisionRecords) /\ t.overrides \in Seq(OverrideRecords)
         /\ t.action \in Actions
BY DEF Tasks

\* Records in a list of a type have the type.
LEMMA ListedTyped ==
  ASSUME NEW S, NEW s \in Seq(S)
  PROVE  ToSet(s) \subseteq S /\ \A i \in DOMAIN s : s[i] \in S /\ s[i] \in ToSet(s)
BY DEF ToSet

\* The fields of records have their types.
LEMMA RecordFields ==
  /\ \A d \in DecisionRecords :
       d.gate \in Gates /\ d.refuses \in BOOLEAN /\ d.time \in Nat
         /\ d.action \in Actions /\ d.key \in Keys
  /\ \A o \in OverrideRecords :
       o.limit \in LimitNames /\ o.value \in Nat /\ o.observed \in Nat
         /\ o.action \in Actions /\ o.key \in Keys
BY DEF DecisionRecords, OverrideRecords

\* The raised limits are limits.
LEMMA EffectiveTyped ==
  ASSUME NEW t \in Tasks
  PROVE  EffectiveLimits(t) \in [LimitNames -> Nat]
<1> SUFFICES ASSUME NEW l \in LimitNames
             PROVE  (IF \E o \in ToSet(t.overrides) : o.limit = l
                     THEN (CHOOSE o \in ToSet(t.overrides) : o.limit = l).value
                     ELSE Limits[l]) \in Nat
  BY DEF EffectiveLimits
<1>1. \A o \in ToSet(t.overrides) : o.value \in Nat
  <2>1. ToSet(t.overrides) \subseteq OverrideRecords
    BY TaskFields, ListedTyped
  <2> QED BY <2>1, RecordFields
<1>2. CASE \E o \in ToSet(t.overrides) : o.limit = l
  <2>1. (CHOOSE o \in ToSet(t.overrides) : o.limit = l) \in ToSet(t.overrides)
    BY <1>2
  <2> QED BY <1>1, <1>2, <2>1
<1>3. CASE ~\E o \in ToSet(t.overrides) : o.limit = l
  BY <1>3, LimitsAreValid
<1> QED BY <1>2, <1>3

\* A limit that is not the policy's was raised by an override of the task.
LEMMA RaisedByOverride ==
  ASSUME NEW t \in Tasks, NEW l \in LimitNames, EffectiveLimits(t)[l] # Limits[l]
  PROVE  \E o \in ToSet(t.overrides) : o.limit = l /\ o.value = EffectiveLimits(t)[l]
<1>1. EffectiveLimits(t)[l] =
        IF \E o \in ToSet(t.overrides) : o.limit = l
        THEN (CHOOSE o \in ToSet(t.overrides) : o.limit = l).value
        ELSE Limits[l]
  BY DEF EffectiveLimits
<1>2. \E o \in ToSet(t.overrides) : o.limit = l
  BY <1>1
<1>3. /\ (CHOOSE o \in ToSet(t.overrides) : o.limit = l) \in ToSet(t.overrides)
      /\ (CHOOSE o \in ToSet(t.overrides) : o.limit = l).limit = l
  BY <1>2
<1> QED BY <1>1, <1>2, <1>3

\* The reasons a v1 task stops for, one by one.
LEMMA TaskReasons ==
  ASSUME NEW t \in Tasks, NEW lim \in [LimitNames -> Nat]
  PROVE  LET stops == PolicyReasons(View(t), lim)
         IN /\ stops \subseteq {"final_status", "human_gate", "cycle", "transcript",
                                "retries", "noEvidence"}
            /\ "final_status" \in stops <=> t.status # "running"
            /\ "human_gate" \in stops <=> Refused(t.decisions)
            /\ "cycle" \in stops <=> t.cycle >= lim["cycle"]
            /\ "transcript" \in stops <=> t.transcript >= lim["transcript"]
            /\ "retries" \in stops <=> t.retries >= lim["retries"]
            /\ "noEvidence" \in stops <=> 0 >= lim["noEvidence"]
<1>1. /\ View(t)["cycle"] = t.cycle /\ View(t)["transcript"] = t.transcript
      /\ View(t)["retries"] = t.retries /\ View(t)["noEvidence"] = 0
      /\ View(t).children = 0 /\ View(t).active = 0
      /\ View(t).declined = Refused(t.decisions)
      /\ View(t).status = IF t.status = "exhausted" THEN "halted" ELSE t.status
  BY DEF View
<1>2. View(t).status = "running" \/ View(t).status = "halted"
  BY <1>1, TaskFields
<1>3. View(t).status = "running" <=> t.status = "running"
  BY <1>1, TaskFields
<1>4. ~(View(t).children > lim.children) /\ ~(View(t).active > lim.concurrency)
  BY <1>1 DEF LimitNames
<1> HIDE DEF View
<1> QED BY <1>1, <1>2, <1>3, <1>4 DEF PolicyReasons

\* evaluate_policy lets a task go on only if its records are in order and
\* nothing stops it.
LEMMA TaskGoesOn ==
  ASSUME NEW t \in Tasks, EvaluateTask(t).decision # "stop"
  PROVE  Accepted(t, FALSE) /\ PolicyReasons(View(t), EffectiveLimits(t)) = {}
<1>1. Accepted(t, FALSE)
  BY DEF EvaluateTask, FailClosed
<1>2. EvaluatePolicy(View(t), EffectiveLimits(t)).decision # "stop"
  BY <1>1 DEF EvaluateTask
<1> QED BY <1>1, <1>2 DEF EvaluatePolicy

\* What the v1 policy, which evaluate_goal consults, stops a migrated task for.
GoalStops(t, lim) ==
  Under(lim)!PolicyReasons(Under(lim)!Relaxed(AsGoal(t), "execute"), lim)

\* Slice counters are not among these reasons.
LEMMA GoalReasons ==
  ASSUME NEW t \in Tasks, NEW lim \in [LimitNames -> Nat]
  PROVE  LET stops == GoalStops(t, lim)
         IN /\ stops \subseteq {"final_status", "human_gate", "cycle", "transcript",
                                "retries", "noEvidence"}
            /\ "final_status" \in stops <=> t.status # "running"
            /\ "human_gate" \in stops <=> Refused(t.decisions)
            /\ "cycle" \in stops <=> 0 >= lim["cycle"]
            /\ "transcript" \in stops <=> t.transcript >= lim["transcript"]
            /\ "retries" \in stops <=> t.retries >= lim["retries"]
            /\ "noEvidence" \in stops <=> 0 >= lim["noEvidence"]
<1> DEFINE b == Under(lim)!Relaxed(AsGoal(t), "execute")
<1>1. /\ b["cycle"] = 0 /\ b["transcript"] = t.transcript
      /\ b["retries"] = t.retries /\ b["noEvidence"] = 0
      /\ b.children = 0 /\ b.active = 0
      /\ b.declined = Refused(t.decisions)
      /\ b.status = IF t.status = "exhausted" THEN "halted" ELSE t.status
  BY DEF Under!Relaxed, Under!Blanked, AsGoal, View
<1>2. b.status = "running" \/ b.status = "halted"
  BY <1>1, TaskFields
<1>3. b.status = "running" <=> t.status = "running"
  BY <1>1, TaskFields
<1>4. ~(b.children > lim.children) /\ ~(b.active > lim.concurrency)
  BY <1>1 DEF LimitNames
<1> HIDE DEF b
<1>5. LET stops == Under(lim)!PolicyReasons(b, lim)
      IN /\ stops \subseteq {"final_status", "human_gate", "cycle", "transcript",
                             "retries", "noEvidence"}
         /\ "final_status" \in stops <=> t.status # "running"
         /\ "human_gate" \in stops <=> Refused(t.decisions)
         /\ "cycle" \in stops <=> 0 >= lim["cycle"]
         /\ "transcript" \in stops <=> t.transcript >= lim["transcript"]
         /\ "retries" \in stops <=> t.retries >= lim["retries"]
         /\ "noEvidence" \in stops <=> 0 >= lim["noEvidence"]
  BY <1>1, <1>2, <1>3, <1>4 DEF Under!PolicyReasons
<1> QED BY <1>5 DEF b, GoalStops

\* Nothing else stops a migrated task: it has no limits on totals, children or
\* human requirement.
LEMMA NothingElseStops ==
  ASSUME NEW t \in Tasks, NEW lim \in [LimitNames -> Nat]
  PROVE  ~Under(lim)!GoalStop(AsGoal(t)) /\ ~Under(lim)!Crowded(AsGoal(t))
<1>1. /\ AsGoal(t).human = FALSE /\ AsGoal(t).active = 0
      /\ AsGoal(t).status # "completed"
  BY TaskFields DEF AsGoal, View
<1>2. ~Under(lim)!LimitReached(AsGoal(t).totals)
  BY NoGoalLimits DEF Under!LimitReached
<1>3. lim.concurrency \in Nat
  BY DEF LimitNames
<1> QED BY <1>1, <1>2, <1>3 DEF Under!GoalStop, Under!Crowded

\* evaluate_goal lets a migrated task go on only if its records are in order
\* and nothing but the context is at a limit; it continues below all of them.
LEMMA GoalGoesOn ==
  ASSUME NEW t \in Tasks, EvaluateMigrated(t).decision # "stop"
  PROVE  LET lim == EffectiveLimits(t)
         IN /\ GoalAccepted(t)
            /\ GoalStops(t, lim) \subseteq {"transcript"}
            /\ EvaluateMigrated(t).decision = "continue" =>
                 GoalStops(t, lim) = {} /\ t.cycle < lim["cycle"]
<1> DEFINE lim == EffectiveLimits(t)
           g == AsGoal(t)
<1>1. GoalAccepted(t)
  BY DEF EvaluateMigrated, FailClosed
<1>2. EvaluateMigrated(t).decision = Under(lim)!Decision(g)
  BY <1>1 DEF EvaluateMigrated, Under!EvaluateGoal
<1>3. lim \in [LimitNames -> Nat]
  BY EffectiveTyped
<1>4. g.action = "execute" /\ g.cycle = t.cycle /\ t.cycle \in Nat
  BY TaskFields DEF AsGoal
<1> HIDE DEF lim, g
<1>5. Under(lim)!Base(g).reasons =
        IF Under(lim)!Base(g).decision = "checkpoint" THEN {"growth"}
        ELSE Under(lim)!PolicyReasons(Under(lim)!Relaxed(g, "execute"), lim)
  BY <1>4 DEF Under!Base, Under!EvaluatePolicy
<1>6. Under(lim)!PolicyReasons(Under(lim)!Relaxed(g, "execute"), lim) = GoalStops(t, lim)
  BY DEF GoalStops, g
<1>7. Under(lim)!Base(g).decision # "stop" <=> GoalStops(t, lim) = {}
  BY <1>4, <1>6 DEF Under!Base, Under!EvaluatePolicy
<1>8. Under(lim)!Held(g) # "stop"
  BY <1>2 DEF Under!Decision
<1>9. GoalStops(t, lim) \subseteq {"transcript"}
  BY <1>5, <1>6, <1>7, <1>8 DEF Under!Held, Under!ContextReasons
<1>10. ASSUME EvaluateMigrated(t).decision = "continue"
       PROVE  GoalStops(t, lim) = {} /\ t.cycle < lim["cycle"]
  <2>1. Under(lim)!Held(g) = "continue" /\ ~Under(lim)!Boundary(g)
    BY <1>2, <1>8, <1>10 DEF Under!Decision
  <2>2. Under(lim)!Base(g).decision = "continue" /\ ~Under(lim)!ContextBlocked(g)
    BY <2>1, <1>8, <1>9, <1>5, <1>6, <1>7 DEF Under!Held, Under!ContextBlocked, Under!ContextReasons
  <2>3. ~Under(lim)!SliceReached(g)
    BY <2>1, <2>2 DEF Under!Boundary, Under!ContextPending
  <2>4. ~(g.cycle >= lim.cycle)
    BY <2>3 DEF Under!SliceReached
  <2> QED BY <1>3, <1>4, <1>7, <2>2, <2>4 DEF LimitNames
<1> QED BY <1>1, <1>9, <1>10 DEF lim

\* And it does go on where the records are in order and no limit is reached.
LEMMA GoalMayGoOn ==
  ASSUME NEW t \in Tasks, GoalAccepted(t), GoalStops(t, EffectiveLimits(t)) = {}
  PROVE  EvaluateMigrated(t).decision # "stop"
<1> DEFINE lim == EffectiveLimits(t)
           g == AsGoal(t)
<1>1. EvaluateMigrated(t).decision = Under(lim)!Decision(g)
  BY DEF EvaluateMigrated, Under!EvaluateGoal
<1>2. ~Under(lim)!GoalStop(g) /\ ~Under(lim)!Crowded(g)
  BY EffectiveTyped, NothingElseStops
<1>3. g.action = "execute"
  BY DEF AsGoal
<1>4. Under(lim)!PolicyReasons(Under(lim)!Relaxed(g, "execute"), lim) = {}
  BY DEF GoalStops
<1> HIDE DEF lim, g
<1>5. Under(lim)!Base(g).decision # "stop"
  BY <1>3, <1>4 DEF Under!Base, Under!EvaluatePolicy
<1>6. Under(lim)!Held(g) # "stop"
  BY <1>2, <1>5 DEF Under!Held
<1>7. Under(lim)!Decision(g) # "stop"
  BY <1>2, <1>6 DEF Under!Decision
<1> QED BY <1>1, <1>7 DEF lim, g

-----------------------------------------------------------------------------
(* Gates.                                                                  *)

\* A gate that has decisions has a latest one.
LEMMA LatestExists ==
  ASSUME NEW ds \in Seq(DecisionRecords), NEW k \in DOMAIN ds
  PROVE  \E i \in OfGate(ds, ds[k].gate) : IsLatest(ds, i)
<1> DEFINE Of == OfGate(ds, ds[k].gate)
           Time == [j \in Of |-> ds[j].time]
           Governs(i, n) == \A j \in Of : j <= n =>
             Time[j] < Time[i] \/ (Time[j] = Time[i] /\ i <= j)
           Bad == {n \in Nat : /\ \E j \in Of : j <= n
                               /\ ~\E i \in Of : i <= n /\ Governs(i, n)}
<1>1. Of \in SUBSET Nat /\ k \in Of /\ Of \subseteq 1 .. Len(ds) /\ Time \in [Of -> Nat]
  BY RecordFields, ListedTyped DEF OfGate
<1>2. \A j \in Of : ds[j].gate = ds[k].gate /\ Time[j] = ds[j].time
  BY DEF OfGate
<1>3. OfGate(ds, ds[k].gate) = Of
  OBVIOUS
<1> HIDE DEF Of, Time
<1>4. ASSUME NEW n \in Bad, \A m \in Bad : ~(m < n) PROVE FALSE
  <2>1. n \in Nat /\ n # 0 /\ n - 1 \in Nat
    BY <1>1
  <2>2. n - 1 \notin Bad
    BY <1>4, <2>1
  <2>3. \A j \in Of : j <= n => j = n \/ j <= n - 1
    BY <1>1, <2>1
  <2>4. CASE ~\E j \in Of : j <= n - 1
    <3>1. n \in Of /\ Governs(n, n)
      BY <1>1, <2>1, <2>3, <2>4
    <3> QED BY <2>1, <3>1
  <2>5. CASE \E j \in Of : j <= n - 1
    <3>1. PICK i \in Of : i <= n - 1 /\ Governs(i, n - 1)
      BY <2>1, <2>2, <2>5
    <3>4. \A j \in Of : j <= n - 1 => Time[j] < Time[i] \/ (Time[j] = Time[i] /\ i <= j)
      BY <3>1
    <3>2. CASE n \in Of /\ Time[i] < Time[n]
      <4>1. ASSUME NEW j \in Of, j <= n
            PROVE  Time[j] < Time[n] \/ (Time[j] = Time[n] /\ n <= j)
        <5>1. Time[i] \in Nat /\ Time[j] \in Nat /\ Time[n] \in Nat
          BY <1>1, <3>2
        <5>2. CASE j = n
          <6> HIDE DEF Bad, Governs
          <6> QED BY <2>1, <5>2
        <5>3. CASE j <= n - 1
          <6>1. Time[j] < Time[i] \/ Time[j] = Time[i]
            BY <3>4, <5>3
          <6> HIDE DEF Bad, Governs
          <6> QED BY <3>2, <5>1, <6>1
        <5> QED BY <2>3, <4>1, <5>2, <5>3
      <4> QED BY <2>1, <3>2, <4>1
    <3>3. CASE ~(n \in Of /\ Time[i] < Time[n])
      <4>1. ASSUME NEW j \in Of, j <= n
            PROVE  Time[j] < Time[i] \/ (Time[j] = Time[i] /\ i <= j)
        <5>1. Time[i] \in Nat /\ Time[j] \in Nat /\ i \in Nat
          BY <1>1
        <5>2. CASE j = n
          <6>1. i <= n - 1
            BY <3>1
          <6> HIDE DEF Bad, Governs
          <6> QED BY <2>1, <3>3, <5>1, <5>2, <6>1
        <5>3. CASE j <= n - 1
          BY <3>4, <5>3
        <5> QED BY <2>3, <4>1, <5>2, <5>3
      <4> QED BY <1>1, <2>1, <3>1, <4>1
    <3> QED BY <3>2, <3>3
  <2> QED BY <2>4, <2>5
<1>5. Bad = {}
  <2> SUFFICES ASSUME Bad # {} PROVE FALSE
    OBVIOUS
  <2>1. Bad \subseteq Nat
    OBVIOUS
  <2> HIDE DEF Bad
  <2>2. PICK n \in Bad : \A m \in Bad : ~(<<m, n>> \in OpToRel(<, Nat))
    BY <2>1, NatLessThanWellFounded, WFMin
  <2>3. \A m \in Bad : ~(m < n)
    BY <2>1, <2>2 DEF OpToRel
  <2> QED BY <1>4, <2>3
<1>6. Len(ds) \in Nat /\ k <= Len(ds)
  BY <1>1
<1>7. PICK i \in Of : Governs(i, Len(ds))
  BY <1>1, <1>5, <1>6
<1>8. \A j \in Of : j <= Len(ds)
  BY <1>1
<1>9. OfGate(ds, ds[i].gate) = Of
  BY <1>2, <1>3
<1>10. \A j \in Of : ds[j].time < ds[i].time \/ (ds[j].time = ds[i].time /\ i <= j)
  BY <1>2, <1>7, <1>8
<1> QED BY <1>3, <1>9, <1>10 DEF IsLatest

\* A refusal that nothing later approves is the latest decision of its gate, or
\* the tie is noticed.
LEMMA RefusalCounts ==
  ASSUME NEW ds \in Seq(DecisionRecords), NEW r \in ToSet(ds), r.refuses,
         \A q \in ToSet(ds) : q.gate = r.gate /\ ~q.refuses => q.time <= r.time
  PROVE  Refused(ds) \/ Ambiguous(ds)
<1>1. PICK k \in DOMAIN ds : ds[k] = r
  BY DEF ToSet
<1>2. PICK i \in OfGate(ds, ds[k].gate) : IsLatest(ds, i)
  BY LatestExists
<1>3. /\ i \in DOMAIN ds /\ ds[i].gate = r.gate /\ ds[i] \in ToSet(ds)
      /\ k \in OfGate(ds, ds[i].gate)
  BY <1>1, <1>2, ListedTyped DEF OfGate
<1>4. CASE ds[i].refuses
  BY <1>2, <1>3, <1>4 DEF Refused
<1>5. CASE ~ds[i].refuses
  <2>1. i \in Nat /\ k \in Nat /\ ds[i].time \in Nat /\ r.time \in Nat
    BY <1>1, <1>3, ListedTyped, RecordFields
  <2>2. r.time < ds[i].time \/ (r.time = ds[i].time /\ i <= k)
    BY <1>1, <1>2, <1>3 DEF IsLatest
  <2>3. ds[i].time <= r.time
    BY <1>3, <1>5
  <2>4. ds[k].time = ds[i].time /\ ds[i].gate = ds[k].gate /\ i < k
    BY <1>1, <1>3, <1>5, <2>1, <2>2, <2>3
  <2>5. ASSUME NEW n \in OfGate(ds, ds[k].gate) PROVE ds[n].time <= ds[k].time
    <3>1. ds[n].time \in Nat
      BY ListedTyped, RecordFields DEF OfGate
    <3>2. ds[n].time < ds[i].time \/ ds[n].time = ds[i].time
      BY <1>2, <2>4 DEF IsLatest
    <3> QED BY <2>1, <2>4, <3>1, <3>2
  <2> QED BY <1>1, <1>3, <2>4, <2>5 DEF Ambiguous
<1> QED BY <1>4, <1>5

\* Where times are distinct and every refusal has a later approval, the gates
\* neither stop nor fail the evaluation.
LEMMA GatesClear ==
  ASSUME NEW ds \in Seq(DecisionRecords),
         \A g \in Gates : \A i, j \in OfGate(ds, g) : ds[i].time = ds[j].time => i = j,
         \A r \in ToSet(ds) : r.refuses =>
           \E q \in ToSet(ds) : q.gate = r.gate /\ ~q.refuses /\ r.time < q.time
  PROVE  ~Refused(ds) /\ ~Ambiguous(ds)
<1>1. \A i \in DOMAIN ds : i \in Nat /\ ds[i] \in ToSet(ds) /\ ds[i].gate \in Gates /\ ds[i].time \in Nat
  BY ListedTyped, RecordFields
<1>2. ~Ambiguous(ds)
  <2> SUFFICES ASSUME NEW i \in DOMAIN ds, NEW j \in DOMAIN ds, i < j,
                      ds[i].gate = ds[j].gate, ds[i].time = ds[j].time
               PROVE  FALSE
    BY DEF Ambiguous
  <2>1. i \in OfGate(ds, ds[j].gate) /\ j \in OfGate(ds, ds[j].gate)
    BY DEF OfGate
  <2>2. i = j
    BY <1>1, <2>1
  <2> QED BY <1>1, <2>2
<1>3. ~Refused(ds)
  <2> SUFFICES ASSUME NEW i \in DOMAIN ds, IsLatest(ds, i), ds[i].refuses PROVE FALSE
    BY DEF Refused
  <2>1. PICK q \in ToSet(ds) : q.gate = ds[i].gate /\ ds[i].time < q.time
    BY <1>1
  <2>2. PICK j \in DOMAIN ds : ds[j] = q
    BY DEF ToSet
  <2>3. ds[j].time < ds[i].time \/ ds[j].time = ds[i].time
    BY <2>1, <2>2 DEF IsLatest, OfGate
  <2> QED BY <1>1, <2>1, <2>2, <2>3
<1> QED BY <1>2, <1>3

-----------------------------------------------------------------------------
(* The invariant.                                                          *)

\* The observation of a limit that humans raise.
LEMMA MetricOfRaisable ==
  ASSUME NEW t \in Tasks
  PROVE  /\ Metric(t, "cycle") = t.cycle /\ Metric(t, "retries") = t.retries
         /\ Metric(t, "transcript") = t.transcript /\ Metric(t, "growth") = t.transcript
         /\ \A l \in Raisable : Metric(t, l) \in Nat
<1>1. /\ Metric(t, "cycle") = t.cycle /\ Metric(t, "retries") = t.retries
      /\ Metric(t, "transcript") = t.transcript /\ Metric(t, "growth") = t.transcript
  BY DEF Metric, ContextLimits, Tasks
<1> QED BY <1>1, TaskFields DEF Raisable

\* The reasons have names of reasons, and the reasons with their numbers are reasons.
LEMMA ReasonsTyped ==
  ASSUME NEW t \in Tasks
  PROVE  /\ EvaluateTask(t).reasons \subseteq ReasonNames
         /\ \A m \in ReasonNames : ReasonOf(t, m) \in Reasons
         /\ Reached(t) \subseteq Reasons
<1>1. EvaluateTask(t).reasons \subseteq ReasonNames
  <2>1. PolicyReasons(View(t), EffectiveLimits(t)) \subseteq
          {"final_status", "human_gate", "cycle", "transcript", "retries", "noEvidence"}
    BY TaskReasons, EffectiveTyped
  <2>2. CASE Accepted(t, FALSE)
    <3>1. EvaluateTask(t).reasons = EvaluatePolicy(View(t), EffectiveLimits(t)).reasons
      BY <2>2 DEF EvaluateTask
    <3>2. \/ EvaluateTask(t).reasons = {"growth"}
          \/ EvaluateTask(t).reasons = PolicyReasons(View(t), EffectiveLimits(t))
      BY <3>1 DEF EvaluatePolicy
    <3> QED BY <2>1, <3>2 DEF ReasonNames
  <2>3. CASE ~Accepted(t, FALSE)
    BY <2>3 DEF EvaluateTask, FailClosed, ReasonNames
  <2> QED BY <2>2, <2>3
<1>2. ASSUME NEW m \in ReasonNames PROVE ReasonOf(t, m) \in Reasons
  <2>1. t["cycle"] = t.cycle /\ t["transcript"] = t.transcript /\ t["retries"] = t.retries
    BY DEF Tasks
  <2>2. m \in {"cycle", "transcript", "retries"} => t[m] \in Nat /\ EffectiveLimits(t)[m] \in Nat
    BY <2>1, TaskFields, EffectiveTyped DEF LimitNames
  <2> QED BY <2>2 DEF ReasonOf, Reasons
<1>3. Reached(t) \subseteq Reasons
  BY <1>1, <1>2 DEF Reached
<1> QED BY <1>1, <1>2, <1>3

LEMMA MigrationInit == Init => MigrationInv
<1> SUFFICES ASSUME Init PROVE MigrationInv
  OBVIOUS
<1>1. PICK a \in Actions :
        task = [status |-> "running", reason |-> None, cycle |-> 0, transcript |-> 0,
                saved |-> 0, retries |-> 0, decisions |-> <<>>, overrides |-> <<>>,
                action |-> a]
  BY DEF Init
<1>2. task \in Tasks
  BY <1>1 DEF Tasks
<1>3. TypeOK
  BY <1>1, <1>2 DEF Init, TypeOK
<1>4. OverridesSigned
  BY <1>1 DEF Init, OverridesSigned, ToSet
<1> QED BY <1>3, <1>4 DEF Init, MigrationInv, RevivalExplained, IsGoal

\* Steps that leave the status, the overrides and what humans signed alone.
LEMMA TaskStep ==
  ASSUME MigrationInv, task' \in Tasks, task'.status = task.status, task'.reason = task.reason,
         ToSet(task'.overrides) \subseteq raised, UNCHANGED <<source, humanVars>>
  PROVE  MigrationInv'
<1>1. TypeOK'
  BY DEF MigrationInv, TypeOK, humanVars
<1>2. OverridesSigned'
  BY DEF MigrationInv, OverridesSigned, humanVars
<1>3. RevivalExplained'
  BY DEF MigrationInv, RevivalExplained, IsGoal
<1> QED BY <1>1, <1>2, <1>3 DEF MigrationInv

LEMMA WorkInv == MigrationInv /\ Work => MigrationInv'
<1> SUFFICES ASSUME MigrationInv, Work PROVE MigrationInv'
  OBVIOUS
<1>1. task \in Tasks /\ ToSet(task.overrides) \subseteq raised
  BY DEF MigrationInv, TypeOK, OverridesSigned
<1>2. PICK n \in 0 .. 1, failed \in BOOLEAN :
        task' = [task EXCEPT !.cycle = @ + 1, !.transcript = @ + n,
                             !.retries = IF failed THEN @ + 1 ELSE 0]
  BY DEF Work
<1>3. /\ task.cycle + 1 \in Nat /\ task.transcript + n \in Nat
      /\ (IF failed THEN task.retries + 1 ELSE 0) \in Nat
  BY <1>1, TaskFields
<1>4. /\ task' \in Tasks /\ task'.status = task.status /\ task'.reason = task.reason
      /\ task'.overrides = task.overrides
  BY <1>1, <1>2, <1>3 DEF Tasks
<1> QED BY <1>1, <1>4, TaskStep DEF Work

LEMMA CheckpointInv == MigrationInv /\ TakeCheckpoint => MigrationInv'
<1> SUFFICES ASSUME MigrationInv, TakeCheckpoint PROVE MigrationInv'
  OBVIOUS
<1>1. task \in Tasks /\ ToSet(task.overrides) \subseteq raised
  BY DEF MigrationInv, TypeOK, OverridesSigned
<1>2. /\ task' \in Tasks /\ task'.status = task.status /\ task'.reason = task.reason
      /\ task'.overrides = task.overrides
  BY <1>1 DEF TakeCheckpoint, Tasks
<1> QED BY <1>1, <1>2, TaskStep DEF TakeCheckpoint

LEMMA CompactInv == MigrationInv /\ Compact => MigrationInv'
<1> SUFFICES ASSUME MigrationInv, Compact PROVE MigrationInv'
  OBVIOUS
<1>1. task \in Tasks /\ ToSet(task.overrides) \subseteq raised
  BY DEF MigrationInv, TypeOK, OverridesSigned
<1>2. PICK n \in 0 .. task.transcript - 1 : task' = [task EXCEPT !.transcript = n, !.saved = n]
  BY DEF Compact
<1>3. n \in Nat
  OBVIOUS
<1>4. /\ task' \in Tasks /\ task'.status = task.status /\ task'.reason = task.reason
      /\ task'.overrides = task.overrides
  BY <1>1, <1>2, <1>3 DEF Tasks
<1> QED BY <1>1, <1>4, TaskStep DEF Compact

LEMMA ChangeInv == MigrationInv /\ ChangeAction => MigrationInv'
<1> SUFFICES ASSUME MigrationInv, ChangeAction PROVE MigrationInv'
  OBVIOUS
<1>1. task \in Tasks
  BY DEF MigrationInv, TypeOK
<1>2. PICK a \in Actions :
        task' = [task EXCEPT !.action = a, !.decisions = <<>>, !.overrides = <<>>]
  BY DEF ChangeAction
<1>4. <<>> \in Seq(DecisionRecords) /\ <<>> \in Seq(OverrideRecords)
  OBVIOUS
<1>5. /\ task' \in Tasks /\ task'.status = task.status /\ task'.reason = task.reason
      /\ task'.overrides = <<>>
  BY <1>1, <1>2, <1>4 DEF Tasks
<1>3. ToSet(task'.overrides) = {}
  BY <1>5 DEF ToSet
<1> QED BY <1>3, <1>5, TaskStep DEF ChangeAction

LEMMA DeliverInv == MigrationInv /\ Deliver => MigrationInv'
<1> SUFFICES ASSUME MigrationInv, Deliver PROVE MigrationInv'
  OBVIOUS
<1>1. /\ task \in Tasks /\ ToSet(task.overrides) \subseteq raised
      /\ decided \subseteq DecisionRecords /\ raised \subseteq OverrideRecords
  BY DEF MigrationInv, TypeOK, OverridesSigned
<1>2. task.decisions \in Seq(DecisionRecords) /\ task.overrides \in Seq(OverrideRecords)
  BY <1>1, TaskFields
<1>3. CASE \E r \in decided : task' = [task EXCEPT !.decisions = Append(@, r)]
  <2>1. PICK r \in decided : task' = [task EXCEPT !.decisions = Append(@, r)]
    BY <1>3
  <2>2. Append(task.decisions, r) \in Seq(DecisionRecords)
    BY <1>1, <1>2
  <2>3. /\ task' \in Tasks /\ task'.status = task.status /\ task'.reason = task.reason
        /\ task'.overrides = task.overrides
    BY <1>1, <1>2, <2>1, <2>2 DEF Tasks
  <2> QED BY <1>1, <2>3, TaskStep DEF Deliver
<1>4. CASE \E r \in raised : task' = [task EXCEPT !.overrides = Append(@, r)]
  <2>1. PICK r \in raised : task' = [task EXCEPT !.overrides = Append(@, r)]
    BY <1>4
  <2>2. Append(task.overrides, r) \in Seq(OverrideRecords)
    BY <1>1, <1>2
  <2>3. ToSet(Append(task.overrides, r)) \subseteq raised
    BY <1>1, <1>2 DEF ToSet
  <2>4. /\ task' \in Tasks /\ task'.status = task.status /\ task'.reason = task.reason
        /\ task'.overrides = Append(task.overrides, r)
    BY <1>1, <1>2, <2>1, <2>2 DEF Tasks
  <2> QED BY <2>3, <2>4, TaskStep DEF Deliver
<1> QED BY <1>3, <1>4 DEF Deliver

LEMMA AdvanceInv == MigrationInv /\ Advance => MigrationInv'
<1> SUFFICES ASSUME MigrationInv, Advance PROVE MigrationInv'
  OBVIOUS
<1>1. task \in Tasks /\ ToSet(task.overrides) \subseteq raised
  BY DEF MigrationInv, TypeOK, OverridesSigned
<1>2. /\ task' \in Tasks /\ task'.status = task.status /\ task'.reason = task.reason
      /\ task'.overrides = task.overrides
  BY <1>1 DEF Advance, Tasks
<1> QED BY <1>1, <1>2, TaskStep DEF Advance

LEMMA StopInv == MigrationInv /\ RecordStop => MigrationInv'
<1> SUFFICES ASSUME MigrationInv, RecordStop PROVE MigrationInv'
  OBVIOUS
<1>1. /\ task \in Tasks /\ ToSet(task.overrides) \subseteq raised
      /\ ~IsGoal /\ source' = source /\ UNCHANGED humanVars
  BY DEF MigrationInv, TypeOK, OverridesSigned, RecordStop
<1>2. PICK s \in {"exhausted", "halted"}, r \in Reasons :
        task' = [task EXCEPT !.status = s, !.reason = r]
  <2>1. Evaluation.reasons \cup {"other"} \subseteq ReasonNames
    BY <1>1, ReasonsTyped DEF Evaluation, Verdict, ReasonNames
  <2>2. CASE \E m \in Evaluation.reasons \cup {"other"} :
               task' = [task EXCEPT !.status = "exhausted", !.reason = ReasonOf(task, m)]
    BY <1>1, <2>1, <2>2, ReasonsTyped
  <2>3. CASE task' = [task EXCEPT !.status = "halted", !.reason = ReasonOf(task, "other")]
    <3>1. ReasonOf(task, "other") \in Reasons
      BY <1>1, ReasonsTyped DEF ReasonNames
    <3> QED BY <2>3, <3>1
  <2> QED BY <2>2, <2>3 DEF RecordStop
<1>3. /\ task' \in Tasks /\ task'.status = s /\ task'.overrides = task.overrides
  BY <1>1, <1>2 DEF Tasks
<1>4. s # "running"
  OBVIOUS
<1>5. TypeOK'
  BY <1>1, <1>3, <1>4 DEF MigrationInv, TypeOK, humanVars
<1>6. OverridesSigned'
  BY <1>1, <1>3 DEF MigrationInv, OverridesSigned, humanVars
<1>7. RevivalExplained'
  BY <1>1 DEF RevivalExplained, IsGoal
<1> QED BY <1>5, <1>6, <1>7 DEF MigrationInv

\* Humans sign what has the type of a record.
LEMMA DecideInv ==
  ASSUME MigrationInv, NEW g \in Gates, NEW refuses \in BOOLEAN, NEW time \in Times,
         NEW key \in plan.keys, Decide(g, refuses, time, key)
  PROVE  MigrationInv'
<1>1. task.action \in Actions /\ plan \in Plans
  BY TaskFields DEF MigrationInv, TypeOK
<1>2. time \in Nat /\ key \in Keys
  BY <1>1, HumansAreTyped
<1>3. decided' \subseteq DecisionRecords
  BY <1>1, <1>2 DEF MigrationInv, TypeOK, Decide, DecisionRecords
<1>4. TypeOK'
  BY <1>3 DEF MigrationInv, TypeOK, Decide
<1>5. OverridesSigned' /\ RevivalExplained'
  BY DEF MigrationInv, OverridesSigned, RevivalExplained, IsGoal, Decide
<1> QED BY <1>4, <1>5 DEF MigrationInv

LEMMA RaiseInv ==
  ASSUME MigrationInv, NEW limit \in plan.limits, NEW margin \in plan.margins,
         NEW key \in plan.keys, Raise(limit, margin, key)
  PROVE  MigrationInv'
<1>1. task \in Tasks /\ task.action \in Actions /\ plan \in Plans
  BY TaskFields DEF MigrationInv, TypeOK
<1>2. /\ limit \in Raisable /\ limit \in LimitNames /\ key \in Keys
      /\ Limits[limit] + margin \in Nat
  BY <1>1, HumansAreTyped DEF Raisable, LimitNames
<1>3. Metric(task, limit) \in Nat
  BY <1>1, <1>2, MetricOfRaisable
<1> DEFINE o == [limit |-> limit, value |-> Limits[limit] + margin,
                 observed |-> Metric(task, limit), action |-> task.action, key |-> key]
<1>4. o \in OverrideRecords /\ o.limit \in Raisable
  BY <1>1, <1>2, <1>3 DEF OverrideRecords
<1>5. raised' = raised \cup {o} /\ UNCHANGED <<task, source, decided, plan>>
  BY DEF Raise
<1> HIDE DEF o
<1>6. TypeOK'
  BY <1>4, <1>5 DEF MigrationInv, TypeOK
<1>7. OverridesSigned' /\ RevivalExplained'
  BY <1>4, <1>5 DEF MigrationInv, OverridesSigned, RevivalExplained, IsGoal
<1> QED BY <1>6, <1>7 DEF MigrationInv

\* Migration replaces nothing but a status and its reason.
LEMMA MigratedFields ==
  ASSUME NEW t \in Tasks
  PROVE  LET u == Migrated(t)
         IN /\ u \in Tasks
            /\ u.cycle = t.cycle /\ u.transcript = t.transcript /\ u.retries = t.retries
            /\ u.decisions = t.decisions /\ u.overrides = t.overrides /\ u.action = t.action
            /\ \/ u = t
               \/ u.reason = None /\ t.status = "exhausted" /\ Explained(t)
<1> DEFINE w == [t EXCEPT !.status = "running", !.reason = None]
<1>1. /\ w \in Tasks
      /\ w.cycle = t.cycle /\ w.transcript = t.transcript /\ w.retries = t.retries
      /\ w.decisions = t.decisions /\ w.overrides = t.overrides /\ w.action = t.action
      /\ w.reason = None
  BY DEF Tasks
<1>2. Migrated(t) = IF t.status = "exhausted" /\ Explained(t) THEN w ELSE t
  BY DEF Migrated
<1> HIDE DEF w
<1> QED BY <1>1, <1>2

LEMMA MigrateInv == MigrationInv /\ Migrate => MigrationInv'
<1> SUFFICES ASSUME MigrationInv, Migrate PROVE MigrationInv'
  OBVIOUS
<1>1. /\ task \in Tasks /\ task' = Migrated(task) /\ UNCHANGED humanVars
      /\ source' = [status |-> task.status, reason |-> task.reason, reached |-> Reached(task)]
  BY DEF MigrationInv, TypeOK, Migrate
<1>2. /\ task' \in Tasks /\ task'.overrides = task.overrides
      /\ task' = task \/ (task'.reason = None /\ task.status = "exhausted" /\ Explained(task))
  BY <1>1, MigratedFields
<1>3. source' \in [status: {"running", "exhausted", "halted"},
                   reason: Reasons \cup {None}, reached: SUBSET Reasons]
  BY <1>1, TaskFields, ReasonsTyped
<1>4. TypeOK'
  BY <1>1, <1>2, <1>3 DEF MigrationInv, TypeOK, humanVars
<1>5. OverridesSigned'
  BY <1>1, <1>2 DEF MigrationInv, OverridesSigned, humanVars
<1>6. RevivalExplained'
  <2>1. /\ source'.status = task.status /\ source'.reason = task.reason
        /\ source'.reached = Reached(task)
    BY <1>1
  <2>2. ASSUME Explained(task) PROVE task.reason \in Reached(task)
    BY <2>2 DEF Explained, Reached
  <2> QED BY <1>2, <2>1, <2>2 DEF RevivalExplained
<1> QED BY <1>4, <1>5, <1>6 DEF MigrationInv

\* The invariant, for any policy, any plan of signing and any number of records.
THEOREM MigrationInvariant == Spec => []MigrationInv
<1>1. MigrationInv /\ UNCHANGED vars => MigrationInv'
  BY DEF MigrationInv, TypeOK, OverridesSigned, RevivalExplained, IsGoal, vars
<1>2. MigrationInv /\ [Next]_vars => MigrationInv'
  <2> SUFFICES ASSUME MigrationInv, Next PROVE MigrationInv'
    BY <1>1
  <2>1. CASE \E g \in Gates, refuses \in BOOLEAN, time \in Times, key \in plan.keys :
               Decide(g, refuses, time, key)
    BY <2>1, DecideInv
  <2>2. CASE \E limit \in plan.limits, margin \in plan.margins, key \in plan.keys :
               Raise(limit, margin, key)
    BY <2>2, RaiseInv
  <2> QED BY <2>1, <2>2, WorkInv, CheckpointInv, CompactInv, ChangeInv, StopInv,
             DeliverInv, MigrateInv, AdvanceInv DEF Next
<1> QED BY MigrationInit, <1>2, PTL DEF Spec

\* Every field has its type, however often records arrive and the task stops.
THEOREM MigrationTypes == Spec => []TypeOK
<1>1. MigrationInv => TypeOK
  BY DEF MigrationInv
<1> QED BY MigrationInvariant, <1>1, PTL

-----------------------------------------------------------------------------
(* What follows from it.                                                   *)

\* Whichever evaluator does not stop the task has accepted its records.
LEMMA Going ==
  ASSUME NEW t \in Tasks, Verdict(t).decision # "stop"
  PROVE  /\ \E canShrink \in BOOLEAN : Accepted(t, canShrink)
         /\ t.status = "running"
         /\ ~Refused(t.decisions)
         /\ Verdict(t).decision = "continue" =>
              /\ t.cycle < EffectiveLimits(t)["cycle"]
              /\ t.transcript < EffectiveLimits(t)["transcript"]
              /\ t.retries < EffectiveLimits(t)["retries"]
<1> DEFINE lim == EffectiveLimits(t)
<1>1. /\ lim \in [LimitNames -> Nat]
      /\ t.cycle \in Nat /\ t.transcript \in Nat /\ t.retries \in Nat
      /\ lim["cycle"] \in Nat /\ lim["transcript"] \in Nat /\ lim["retries"] \in Nat
  BY EffectiveTyped, TaskFields DEF LimitNames
<1> HIDE DEF lim
<1>2. CASE IsGoal
  <2>1. /\ GoalAccepted(t) /\ GoalStops(t, lim) \subseteq {"transcript"}
        /\ Verdict(t).decision = "continue" => GoalStops(t, lim) = {} /\ t.cycle < lim["cycle"]
    BY <1>2, GoalGoesOn DEF Verdict, lim
  <2>2. /\ "final_status" \in GoalStops(t, lim) <=> t.status # "running"
        /\ "human_gate" \in GoalStops(t, lim) <=> Refused(t.decisions)
        /\ "transcript" \in GoalStops(t, lim) <=> t.transcript >= lim["transcript"]
        /\ "retries" \in GoalStops(t, lim) <=> t.retries >= lim["retries"]
    BY <1>1, GoalReasons
  <2>3. \E canShrink \in BOOLEAN : Accepted(t, canShrink)
    BY <2>1 DEF GoalAccepted
  <2> QED BY <1>1, <2>1, <2>2, <2>3 DEF lim
<1>3. CASE ~IsGoal
  <2>1. Accepted(t, FALSE) /\ PolicyReasons(View(t), lim) = {}
    BY <1>3, TaskGoesOn DEF Verdict, lim
  <2>2. LET stops == PolicyReasons(View(t), lim)
        IN /\ "final_status" \in stops <=> t.status # "running"
           /\ "human_gate" \in stops <=> Refused(t.decisions)
           /\ "cycle" \in stops <=> t.cycle >= lim["cycle"]
           /\ "transcript" \in stops <=> t.transcript >= lim["transcript"]
           /\ "retries" \in stops <=> t.retries >= lim["retries"]
    BY <1>1, TaskReasons
  <2>3. /\ t.status = "running" /\ ~Refused(t.decisions)
        /\ t.cycle < lim["cycle"] /\ t.transcript < lim["transcript"]
        /\ t.retries < lim["retries"]
    BY <1>1, <2>1, <2>2
  <2> QED BY <2>1, <2>3 DEF lim
<1> QED BY <1>2, <1>3

\* A refusal that no later approval of its gate supersedes stops the task,
\* whatever else was signed and in whatever order it arrived.
THEOREM MigrationRefusals == Spec => []RefusalStands
<1>1. ASSUME MigrationInv PROVE RefusalStands
  <2> SUFFICES ASSUME NEW r \in ToSet(task.decisions), r.refuses,
                      \A q \in ToSet(task.decisions) :
                        q.gate = r.gate /\ ~q.refuses => q.time <= r.time,
                      Evaluation.decision # "stop"
               PROVE  FALSE
    BY DEF RefusalStands
  <2>1. task \in Tasks /\ task.decisions \in Seq(DecisionRecords)
    BY <1>1, TaskFields DEF MigrationInv, TypeOK
  <2>2. ~Refused(task.decisions) /\ ~Ambiguous(task.decisions)
    BY <2>1, Going DEF Evaluation, Accepted
  <2> QED BY <2>1, <2>2, RefusalCounts
<1> QED BY MigrationInvariant, <1>1, PTL

\* Decisions that clear the gates, by pinned keys and about the pending action,
\* are as good as none for either evaluator.
LEMMA WithoutDecisions ==
  ASSUME NEW t \in Tasks, ~Refused(t.decisions), ~Ambiguous(t.decisions),
         \A r \in ToSet(t.decisions) : r.action = t.action /\ r.key \in Pinned,
         \A o \in ToSet(t.overrides) : o.limit \in Raisable
  PROVE  Verdict(t) = Verdict([t EXCEPT !.decisions = <<>>])
<1> DEFINE u == [t EXCEPT !.decisions = <<>>]
<1>1. <<>> \in Seq(DecisionRecords)
  OBVIOUS
<1>2. /\ u \in Tasks /\ u.decisions = <<>> /\ u.overrides = t.overrides
      /\ u.status = t.status /\ u.cycle = t.cycle /\ u.transcript = t.transcript
      /\ u.saved = t.saved /\ u.retries = t.retries /\ u.action = t.action
  BY <1>1 DEF Tasks
<1> HIDE DEF u
<1>3. ~Refused(u.decisions) /\ ~Ambiguous(u.decisions) /\ ToSet(u.decisions) = {}
  BY <1>2 DEF Refused, Ambiguous, ToSet
<1>4. EffectiveLimits(u) = EffectiveLimits(t)
  BY <1>2 DEF EffectiveLimits
<1>5. ASSUME NEW canShrink \in BOOLEAN
      PROVE  Accepted(u, canShrink) <=> Accepted(t, canShrink)
  <2>1. ValidTask(u) <=> ValidTask(t)
    BY <1>2, <1>3 DEF ValidTask, Records
  <2>2. Authorized(u) <=> Authorized(t)
    BY <1>2, <1>3 DEF Authorized, Records
  <2>3. ASSUME NEW o \in ToSet(t.overrides)
        PROVE  OverrideHolds(u, o, canShrink) <=> OverrideHolds(t, o, canShrink)
    <3>1. Metric(u, o.limit) = Metric(t, o.limit)
      BY <1>2, MetricOfRaisable DEF Raisable
    <3> QED BY <3>1 DEF OverrideHolds
  <2> QED BY <1>2, <1>3, <2>1, <2>2, <2>3 DEF Accepted
<1>6. View(u) = View(t)
  <2>1. Refused(u.decisions) = Refused(t.decisions)
    BY <1>3 DEF Refused
  <2> QED BY <1>2, <2>1 DEF View
<1>7. AsGoal(u) = AsGoal(t)
  BY <1>2, <1>6 DEF AsGoal
<1>8. EvaluateTask(u) = EvaluateTask(t)
  BY <1>4, <1>5, <1>6 DEF EvaluateTask
<1>9. GoalAccepted(u) <=> GoalAccepted(t)
  BY <1>4, <1>5 DEF GoalAccepted
<1>10. EvaluateMigrated(u) = EvaluateMigrated(t)
  BY <1>4, <1>7, <1>9 DEF EvaluateMigrated
<1> QED BY <1>8, <1>10 DEF Verdict, u

\* An approval later than every refusal of its gate clears the gate, however the
\* decisions are listed.
THEOREM MigrationApprovals == Spec => []ApprovalClears
<1>1. ASSUME MigrationInv PROVE ApprovalClears
  <2>1. /\ task \in Tasks /\ task.decisions \in Seq(DecisionRecords)
        /\ \A o \in ToSet(task.overrides) : o.limit \in Raisable
    BY <1>1, TaskFields DEF MigrationInv, TypeOK, OverridesSigned
  <2> SUFFICES ASSUME \A r \in ToSet(task.decisions) : r.action = task.action /\ r.key \in Pinned,
                      \A g \in Gates : \A i, j \in OfGate(task.decisions, g) :
                        task.decisions[i].time = task.decisions[j].time => i = j,
                      \A r \in ToSet(task.decisions) : r.refuses =>
                        \E q \in ToSet(task.decisions) :
                          q.gate = r.gate /\ ~q.refuses /\ r.time < q.time
               PROVE  Evaluation = Verdict([task EXCEPT !.decisions = <<>>])
    BY DEF ApprovalClears
  <2>2. ~Refused(task.decisions) /\ ~Ambiguous(task.decisions)
    BY <2>1, GatesClear
  <2> QED BY <2>1, <2>2, WithoutDecisions DEF Evaluation
<1> QED BY MigrationInvariant, <1>1, PTL

\* Beyond a limit of the policy a task goes on only under an override that was
\* signed in time, for this action, by a pinned key.
THEOREM MigrationLimits == Spec => []LimitsLiftedInTime
<1>1. ASSUME MigrationInv PROVE LimitsLiftedInTime
  <2> SUFFICES ASSUME NEW m \in {"cycle", "transcript", "retries"},
                      Evaluation.decision = "continue", task[m] >= Limits[m]
               PROVE  \E o \in raised :
                        /\ o.limit = m /\ o.action = task.action /\ o.key \in Pinned
                        /\ o.observed < Limits[m] /\ task[m] < o.value
    BY DEF LimitsLiftedInTime
  <2>1. task \in Tasks
    BY <1>1 DEF MigrationInv, TypeOK
  <2>2. task["cycle"] = task.cycle /\ task["transcript"] = task.transcript
        /\ task["retries"] = task.retries
    BY <2>1 DEF Tasks
  <2>3. /\ task[m] < EffectiveLimits(task)[m]
        /\ \E canShrink \in BOOLEAN : Accepted(task, canShrink)
    BY <2>1, <2>2, Going DEF Evaluation
  <2>4. m \in LimitNames /\ task[m] \in Nat /\ Limits[m] \in Nat
        /\ EffectiveLimits(task)[m] \in Nat
    BY <2>1, <2>2, TaskFields, EffectiveTyped, LimitsAreValid DEF LimitNames
  <2>5. PICK o \in ToSet(task.overrides) : o.limit = m /\ o.value = EffectiveLimits(task)[m]
    BY <2>1, <2>3, <2>4, RaisedByOverride
  <2>6. o \in Records(task)
    BY DEF Records
  <2>7. o.action = task.action /\ o.key \in Pinned /\ o.observed < Limits[m]
    BY <2>3, <2>5, <2>6 DEF Accepted, ValidTask, Authorized, OverrideHolds
  <2>8. o \in raised
    BY <1>1 DEF MigrationInv, OverridesSigned
  <2> QED BY <2>3, <2>5, <2>7, <2>8
<1> QED BY MigrationInvariant, <1>1, PTL

\* Migration revives only what was stopped by a slice or context limit that it
\* recorded and was at.
THEOREM MigrationRevives == Spec => []RevivedFromSlicesOnly
<1>1. ASSUME MigrationInv PROVE RevivedFromSlicesOnly
  <2> SUFFICES ASSUME IsGoal, Evaluation.decision # "stop", source.status # "running"
               PROVE  source.status = "exhausted" /\ source.reason \in source.reached
    BY DEF RevivedFromSlicesOnly
  <2>1. task.status = "running"
    BY <1>1, Going DEF Evaluation, MigrationInv, TypeOK
  <2> QED BY <1>1, <2>1 DEF MigrationInv, RevivalExplained
<1> QED BY MigrationInvariant, <1>1, PTL

-----------------------------------------------------------------------------
(* Migration and the goals after it.                                       *)

\* Overrides a v1 task was let go on with hold for a goal.
LEMMA AcceptedForGoals ==
  ASSUME NEW t \in Tasks, Accepted(t, FALSE)
  PROVE  Accepted(t, TRUE)
BY DEF Accepted, OverrideHolds

\* Migration lifts slice and context stops alone, and makes a task fail exactly
\* where its raised limits do not fit together.
THEOREM MigrationAgreement == Spec => []MigrationAgrees
<1>1. ASSUME MigrationInv PROVE MigrationAgrees
  <2> SUFFICES ASSUME Accepted(task, FALSE)
               PROVE  LET v1 == EvaluateTask(task)
                          v2 == EvaluateMigrated(Migrated(task))
                      IN /\ v2.decision # "stop" =>
                              v1.reasons \subseteq SliceOrContext \cup {"growth", "final_status"}
                         /\ v1.decision # "stop" =>
                              (v2.decision = "stop" <=> ~FitTogether(EffectiveLimits(task)))
    BY DEF MigrationAgrees
  <2> DEFINE lim == EffectiveLimits(task)
             u == Migrated(task)
             stops == PolicyReasons(View(task), lim)
             held == GoalStops(u, lim)
  <2>1. task \in Tasks /\ u \in Tasks
    BY <1>1, MigratedFields DEF MigrationInv, TypeOK
  <2>2. /\ u.transcript = task.transcript /\ u.retries = task.retries
        /\ u.decisions = task.decisions /\ u.overrides = task.overrides
        /\ u = task \/ task.status = "exhausted"
    BY <2>1, MigratedFields
  <2>3. EffectiveLimits(u) = lim
    BY <2>2 DEF EffectiveLimits
  <2>4. /\ lim \in [LimitNames -> Nat] /\ lim["cycle"] \in Nat
        /\ task.cycle \in Nat
    BY <2>1, EffectiveTyped, TaskFields DEF LimitNames
  <2>5. EvaluateTask(task) = EvaluatePolicy(View(task), lim)
    BY DEF EvaluateTask
  <2> HIDE DEF lim, u
  <2>6. /\ stops \subseteq {"final_status", "human_gate", "cycle", "transcript",
                            "retries", "noEvidence"}
        /\ "final_status" \in stops <=> task.status # "running"
        /\ "human_gate" \in stops <=> Refused(task.decisions)
        /\ "cycle" \in stops <=> task.cycle >= lim["cycle"]
        /\ "transcript" \in stops <=> task.transcript >= lim["transcript"]
        /\ "retries" \in stops <=> task.retries >= lim["retries"]
        /\ "noEvidence" \in stops <=> 0 >= lim["noEvidence"]
    BY <2>1, <2>4, TaskReasons
  <2>7. /\ held \subseteq {"final_status", "human_gate", "cycle", "transcript",
                           "retries", "noEvidence"}
        /\ "final_status" \in held <=> u.status # "running"
        /\ "human_gate" \in held <=> Refused(u.decisions)
        /\ "cycle" \in held <=> 0 >= lim["cycle"]
        /\ "transcript" \in held <=> u.transcript >= lim["transcript"]
        /\ "retries" \in held <=> u.retries >= lim["retries"]
        /\ "noEvidence" \in held <=> 0 >= lim["noEvidence"]
    BY <2>1, <2>4, GoalReasons
  <2> HIDE DEF stops, held
  <2>8. ASSUME EvaluateMigrated(u).decision # "stop"
        PROVE  EvaluateTask(task).reasons \subseteq SliceOrContext \cup {"growth", "final_status"}
    <3>1. held \subseteq {"transcript"}
      BY <2>1, <2>3, <2>8, GoalGoesOn DEF held
    <3>2. stops \subseteq {"final_status", "cycle", "transcript"}
      BY <2>2, <2>6, <2>7, <3>1
    <3>3. EvaluateTask(task).reasons = {"growth"} \/ EvaluateTask(task).reasons = stops
      BY <2>5 DEF EvaluatePolicy, stops
    <3> QED BY <3>2, <3>3 DEF SliceOrContext, ContextReasons
  <2>9. ASSUME EvaluateTask(task).decision # "stop"
        PROVE  EvaluateMigrated(u).decision = "stop" <=> ~FitTogether(lim)
    <3>1. stops = {}
      BY <2>1, <2>9, TaskGoesOn DEF stops, lim
    <3>2. task.status = "running" /\ u = task
      BY <2>2, <2>6, <3>1
    <3>3. ~(task.cycle >= lim["cycle"])
      BY <2>6, <3>1
    <3>4. ~(0 >= lim["cycle"])
      BY <2>4, <3>3
    <3>5. held = {}
      BY <2>6, <2>7, <3>1, <3>2, <3>4
    <3>6. GoalAccepted(u) <=> FitTogether(lim)
      BY <2>1, <2>3, <3>2, AcceptedForGoals DEF GoalAccepted
    <3>7. GoalAccepted(u) => EvaluateMigrated(u).decision # "stop"
      BY <2>1, <2>3, <3>5, GoalMayGoOn DEF held
    <3>8. ~GoalAccepted(u) => EvaluateMigrated(u).decision = "stop"
      BY DEF EvaluateMigrated, FailClosed
    <3> QED BY <3>6, <3>7, <3>8
  <2> QED BY <2>8, <2>9 DEF lim, u
<1> QED BY MigrationInvariant, <1>1, PTL

\* A task with other metrics but the same records is accepted as well: the
\* cycle is not behind an override of it, and the context may be.
LEMMA AuthorityKept ==
  ASSUME NEW t \in Tasks, NEW u \in Tasks, GoalAccepted(t),
         u.decisions = t.decisions, u.overrides = t.overrides,
         u.action = t.action \/ (t.decisions = <<>> /\ t.overrides = <<>>),
         t.cycle <= u.cycle \/ t.overrides = <<>>,
         \A o \in ToSet(t.overrides) : o.limit \in Raisable \ {"retries"}
  PROVE  GoalAccepted(u)
<1>1. ToSet(<<>>) = {}
  BY DEF ToSet
<1>2. Records(u) = Records(t)
  BY DEF Records
<1>3. ValidTask(u)
  BY <1>1, <1>2 DEF GoalAccepted, Accepted, ValidTask, Records
<1>4. Authorized(u) /\ ~Ambiguous(u.decisions)
  BY <1>2 DEF GoalAccepted, Accepted, Authorized
<1>5. EffectiveLimits(u) = EffectiveLimits(t)
  BY DEF EffectiveLimits
<1>6. ASSUME NEW o \in ToSet(u.overrides) PROVE OverrideHolds(u, o, TRUE)
  <2>1. OverrideHolds(t, o, TRUE) /\ o.limit \in {"cycle", "transcript", "growth"}
    BY <1>6 DEF GoalAccepted, Accepted, Raisable
  <2>2. CASE o.limit \in ContextLimits
    BY <2>1, <2>2 DEF OverrideHolds
  <2>3. CASE o.limit = "cycle"
    <3>1. Metric(t, o.limit) = t.cycle /\ Metric(u, o.limit) = u.cycle
      BY <2>3, MetricOfRaisable
    <3>2. t.cycle <= u.cycle
      BY <1>1, <1>6
    <3>3. o.observed \in Nat /\ t.cycle \in Nat /\ u.cycle \in Nat
      BY <1>6, TaskFields, ListedTyped, RecordFields
    <3>4. o.observed <= Metric(t, o.limit)
      BY <2>1, <2>3 DEF OverrideHolds, ContextLimits
    <3>5. o.observed <= Metric(u, o.limit)
      BY <3>1, <3>2, <3>3, <3>4
    <3> QED BY <2>1, <3>5 DEF OverrideHolds
  <2> QED BY <2>1, <2>2, <2>3 DEF ContextLimits
<1> QED BY <1>3, <1>4, <1>5, <1>6 DEF GoalAccepted, Accepted

\* Nothing the host or the package does to a goal makes the evaluation refuse
\* its overrides of slice and context limits.
THEOREM MigrationAuthority == Spec => WorkKeepsAuthority
<1> DEFINE Kept == IsGoal /\ GoalAccepted(task)
                     /\ task'.decisions = task.decisions /\ task'.overrides = task.overrides
                     /\ (\A o \in ToSet(task.overrides) : o.limit # "retries")
                   => GoalAccepted(task')
<1>1. ASSUME MigrationInv, MigrationInv', [Next]_vars PROVE Kept
  <2> SUFFICES ASSUME IsGoal, GoalAccepted(task),
                      task'.decisions = task.decisions, task'.overrides = task.overrides,
                      \A o \in ToSet(task.overrides) : o.limit # "retries"
               PROVE  GoalAccepted(task')
    OBVIOUS
  <2>1. task \in Tasks /\ task' \in Tasks
    BY <1>1 DEF MigrationInv, TypeOK
  <2>2. \A o \in ToSet(task.overrides) : o.limit \in Raisable \ {"retries"}
    BY <1>1 DEF MigrationInv, OverridesSigned
  <2>3. SUFFICES /\ task'.action = task.action \/ (task.decisions = <<>> /\ task.overrides = <<>>)
                 /\ task.cycle <= task'.cycle \/ task.overrides = <<>>
    BY <2>1, <2>2, AuthorityKept
  <2>4. CASE task' = task
    BY <2>1, <2>4, TaskFields
  <2>5. CASE Work
    <3>1. task.cycle \in Nat
      BY <2>1, TaskFields
    <3>2. task'.action = task.action /\ task'.cycle = task.cycle + 1
      BY <2>1, <2>5 DEF Work, Tasks
    <3> QED BY <3>1, <3>2
  <2>6. CASE TakeCheckpoint
    <3>1. task'.action = task.action /\ task'.cycle = task.cycle
      BY <2>1, <2>6 DEF TakeCheckpoint, Tasks
    <3> QED BY <2>1, <3>1, TaskFields
  <2>7. CASE Compact
    <3>1. task'.action = task.action /\ task'.cycle = task.cycle
      BY <2>1, <2>7 DEF Compact, Tasks
    <3> QED BY <2>1, <3>1, TaskFields
  <2>8. CASE ChangeAction
    <3>1. task'.decisions = <<>> /\ task'.overrides = <<>>
      BY <2>1, <2>8 DEF ChangeAction, Tasks
    <3> QED BY <3>1
  <2>9. CASE Deliver
    <3>1. /\ task.decisions \in Seq(DecisionRecords) /\ task.overrides \in Seq(OverrideRecords)
          /\ decided \subseteq DecisionRecords /\ raised \subseteq OverrideRecords
      BY <1>1, <2>1, TaskFields DEF MigrationInv, TypeOK
    <3>2. \/ \E r \in decided : task'.decisions = Append(task.decisions, r)
          \/ \E r \in raised : task'.overrides = Append(task.overrides, r)
      BY <2>1, <2>9 DEF Deliver, Tasks
    <3>3. /\ \A r \in decided : Len(Append(task.decisions, r)) # Len(task.decisions)
          /\ \A r \in raised : Len(Append(task.overrides, r)) # Len(task.overrides)
      BY <3>1
    <3> QED BY <3>2, <3>3
  <2>10. CASE Advance
    <3>1. task'.action = task.action /\ task.overrides = <<>>
      BY <2>1, <2>10 DEF Advance, Tasks
    <3> QED BY <3>1
  <2> QED BY <1>1, <2>4, <2>5, <2>6, <2>7, <2>8, <2>9, <2>10
         DEF Next, vars, RecordStop, Migrate, Decide, Raise
<1>2. [][Kept]_vars => WorkKeepsAuthority
  BY PTL DEF WorkKeepsAuthority
<1> HIDE DEF Kept
<1> QED BY MigrationInvariant, <1>1, <1>2, PTL DEF Spec

-----------------------------------------------------------------------------
(* The order of the decisions.                                             *)

\* Two lists of the same decisions, neither with a tie that is noticed, refuse
\* alike: a refusal that counts in one has no later approval in either.
LEMMA RefusedByContent ==
  ASSUME NEW ds \in Seq(DecisionRecords), NEW es \in Seq(DecisionRecords),
         ToSet(ds) = ToSet(es), ~Ambiguous(es), Refused(ds)
  PROVE  Refused(es)
<1>1. PICK i \in DOMAIN ds : IsLatest(ds, i) /\ ds[i].refuses
  BY DEF Refused
<1>2. ds[i] \in ToSet(es)
  BY DEF ToSet
<1>3. ASSUME NEW q \in ToSet(es), q.gate = ds[i].gate PROVE q.time <= ds[i].time
  <2>1. PICK j \in DOMAIN ds : ds[j] = q
    BY DEF ToSet
  <2>2. ds[j].time < ds[i].time \/ ds[j].time = ds[i].time
    BY <1>1, <1>3, <2>1 DEF IsLatest, OfGate
  <2>3. ds[j].time \in Nat /\ ds[i].time \in Nat
    BY ListedTyped, RecordFields
  <2> QED BY <2>1, <2>2, <2>3
<1> QED BY <1>1, <1>2, <1>3, RefusalCounts

\* Listing a task's decisions in another order, or one of them twice, changes
\* no verdict, before or after migration, except that the scan may notice a tie
\* in one of the lists and raise.  (Which limits humans raise is an invariant,
\* OverridesSigned.)
THEOREM OrderNeverDecides ==
  ASSUME NEW t \in Tasks, NEW es \in Seq(DecisionRecords), ToSet(es) = ToSet(t.decisions),
         \A o \in ToSet(t.overrides) : o.limit \in Raisable
  PROVE  LET u == [t EXCEPT !.decisions = es]
         IN \/ /\ Ambiguous(t.decisions)
               /\ EvaluateTask(t) = FailClosed /\ EvaluateMigrated(t) = FailClosed
            \/ /\ Ambiguous(es)
               /\ EvaluateTask(u) = FailClosed /\ EvaluateMigrated(u) = FailClosed
            \/ /\ EvaluateTask(u) = EvaluateTask(t)
               /\ EvaluateMigrated(u) = EvaluateMigrated(t)
<1> DEFINE u == [t EXCEPT !.decisions = es]
<1>1. /\ u \in Tasks /\ u.decisions = es /\ t.decisions \in Seq(DecisionRecords)
      /\ u.status = t.status /\ u.cycle = t.cycle /\ u.transcript = t.transcript
      /\ u.saved = t.saved /\ u.retries = t.retries /\ u.overrides = t.overrides
      /\ u.action = t.action
  BY DEF Tasks
<1> HIDE DEF u
<1>2. CASE Ambiguous(t.decisions)
  BY <1>2 DEF EvaluateTask, EvaluateMigrated, GoalAccepted, Accepted
<1>3. CASE Ambiguous(es)
  BY <1>1, <1>3 DEF u, EvaluateTask, EvaluateMigrated, GoalAccepted, Accepted
<1>4. CASE ~Ambiguous(t.decisions) /\ ~Ambiguous(es)
  <2>1. Refused(es) = Refused(t.decisions)
    <3>1. Refused(es) <=> Refused(t.decisions)
      BY <1>1, <1>4, RefusedByContent
    <3> QED BY <3>1 DEF Refused
  <2>2. View(u) = View(t) /\ AsGoal(u) = AsGoal(t)
    <3>1. View(u) = View(t)
      BY <1>1, <2>1 DEF View
    <3> QED BY <1>1, <3>1 DEF AsGoal
  <2>3. EffectiveLimits(u) = EffectiveLimits(t)
    BY <1>1 DEF EffectiveLimits
  <2>4. ASSUME NEW b \in BOOLEAN PROVE Accepted(u, b) <=> Accepted(t, b)
    <3>1. Records(u) = Records(t)
      BY <1>1 DEF Records
    <3>2. ValidTask(u) <=> ValidTask(t)
      BY <1>1, <3>1 DEF ValidTask
    <3>3. Authorized(u) <=> Authorized(t)
      BY <3>1 DEF Authorized
    <3>4. ASSUME NEW o \in ToSet(t.overrides)
          PROVE  OverrideHolds(u, o, b) <=> OverrideHolds(t, o, b)
      <4>1. Metric(u, o.limit) = Metric(t, o.limit)
        BY <1>1, MetricOfRaisable DEF Raisable
      <4> QED BY <4>1 DEF OverrideHolds
    <3> QED BY <1>1, <1>4, <3>2, <3>3, <3>4 DEF Accepted
  <2>5. EvaluateTask(u) = EvaluateTask(t)
    BY <2>2, <2>3, <2>4 DEF EvaluateTask
  <2>6. EvaluateMigrated(u) = EvaluateMigrated(t)
    BY <2>2, <2>3, <2>4 DEF EvaluateMigrated, GoalAccepted
  <2> QED BY <2>5, <2>6 DEF u
<1> QED BY <1>2, <1>3, <1>4 DEF u
=============================================================================
