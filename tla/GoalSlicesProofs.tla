-------------------------- MODULE GoalSlicesProofs --------------------------
(***************************************************************************)
(* Proofs about GoalSlices for every policy, every set of references,      *)
(* requests and postures, and any number of slices.                        *)
(***************************************************************************)
EXTENDS GoalSlices, FiniteSetTheorems, HistoryFacts

-----------------------------------------------------------------------------
(* Sums with unknowns.                                                     *)

\* A sum is known when both of its parts are.
LEMMA PlusFacts ==
  ASSUME NEW a \in Amount, NEW b \in Amount
  PROVE  /\ Plus(a, b) \in Amount
         /\ Plus(a, b) # Unknown <=> a # Unknown /\ b # Unknown
         /\ Plus(a, b) # Unknown => a \in Nat /\ b \in Nat /\ Plus(a, b) = a + b
BY StepsAreBounded DEF Plus, Amount

\* Totals are amounts.
LEMMA TotalsFacts ==
  ASSUME NEW base \in [Keys -> Amount], NEW slice \in [Keys -> Amount]
  PROVE  /\ Totals(base, slice) \in [Keys -> Amount]
         /\ \A k \in Keys : Totals(base, slice)[k] = Plus(base[k], slice[k])
BY PlusFacts DEF Totals

\* A fresh slice adds nothing.
LEMMA ZeroFacts ==
  /\ Zero \in [Keys -> Amount]
  /\ \A k \in Keys : Zero[k] = 0
  /\ \A base \in [Keys -> Amount] : Totals(base, Zero) = base
<1>1. Zero \in [Keys -> Amount] /\ \A k \in Keys : Zero[k] = 0
  BY DEF Zero, Amount
<1>2. ASSUME NEW base \in [Keys -> Amount] PROVE Totals(base, Zero) = base
  <2>1. \A k \in Keys : Plus(base[k], 0) = base[k]
    BY StepsAreBounded DEF Plus, Amount
  <2> QED BY <1>1, <2>1 DEF Totals
<1> QED BY <1>1, <1>2

-----------------------------------------------------------------------------
(* What the decisions say of the checkpoint.                               *)

\* Work goes on only below every goal limit, and with no more than the allowed
\* children.
LEMMA Continuing ==
  ASSUME EvaluateGoal(Goal).decision = "continue"
  PROVE  ~LimitReached(totals) /\ ~Crowded(Goal)
<1>1. Decision(Goal) = "continue"
  BY DEF EvaluateGoal
<1>2. ~Crowded(Goal) /\ Held(Goal) # "stop"
  BY <1>1 DEF Decision
<1>3. ~GoalStop(Goal)
  BY <1>2 DEF Held
<1>4. Goal.totals = totals
  BY DEF Goal
<1> QED BY <1>2, <1>3, <1>4 DEF GoalStop

\* A child is spawned while work goes on, below both of its limits, and below
\* the reviewer's place if that is kept.
LEMMA Spawning ==
  ASSUME EvaluateGoal(Goal).spawn
  PROVE  /\ EvaluateGoal(Goal).decision = "continue"
         /\ active < Limits.concurrency
         /\ used.children < Limits.children
                              - (IF posture.review /\ posture.action # "review" THEN Reserve ELSE 0)
<1>1. SpawnAllowed(Goal)
  BY DEF EvaluateGoal
<1>2. Goal.children = used.children /\ Goal.review = posture.review /\ Goal.action = posture.action
  BY DEF Goal
<1>3. Base(Goal).spawn
  BY <1>1 DEF SpawnAllowed
<1>4. Relaxed(Goal, Goal.action).active < Limits.concurrency
  BY <1>3 DEF Base, EvaluatePolicy
<1>5. Relaxed(Goal, Goal.action).active = active
  BY DEF Relaxed, Blanked, Goal
<1> QED BY <1>1, <1>2, <1>4, <1>5 DEF SpawnAllowed, EvaluateGoal

\* A boundary is crossed at rest, and with new evidence.
LEMMA Crossing ==
  ASSUME EvaluateGoal(Goal).auto
  PROVE  /\ evidence \ accepted # {}
         /\ active = 0
         /\ ~posture.human /\ ~LimitReached(totals)
         /\ ~ContextPending(Goal)
         /\ Base(Goal).decision # "stop"
<1>1. AutoContinue(Goal)
  BY DEF EvaluateGoal
<1>2. /\ Goal.totals = totals /\ Goal.human = posture.human /\ Goal.active = active
      /\ Goal.evidence = evidence /\ Goal.accepted = accepted
  BY DEF Goal
<1>3. Held(Goal) # "stop" /\ ~ContextPending(Goal)
  BY <1>1 DEF AutoContinue, Boundary
<1>4. ~GoalStop(Goal)
  BY <1>3 DEF Held
<1>5. Base(Goal).decision # "stop"
  BY <1>3, <1>4 DEF Held, ContextPending
<1> QED BY <1>1, <1>2, <1>3, <1>4, <1>5 DEF AutoContinue, GoalStop

-----------------------------------------------------------------------------
(* The invariant holds initially.                                          *)

\* What a v1 task has used: its counters, and no tokens it knows of.
LEMMA BeganFacts ==
  ASSUME NEW t \in StartTasks
  PROVE  /\ Began(t) \in [Keys -> Nat]
         /\ Began(t)["cycle"] = t.cycle /\ Began(t)["children"] = t.children
         /\ Began(t)["tokens"] = 0
         /\ Unmeasured(t) \in [Keys -> Amount]
         /\ Unmeasured(t)["tokens"] = Unknown
         /\ \A c \in Counters : Unmeasured(t)[c] = Began(t)[c]
         /\ t.active \in Nat /\ t.evidence \subseteq Refs
<1>1. /\ t.cycle \in Nat /\ t.children \in Nat /\ t.active \in Nat /\ t.evidence \subseteq Refs
  BY TasksAreTyped
<1>2. Zero \in [Keys -> Nat] /\ \A k \in Keys : Zero[k] = 0
  BY DEF Zero
<1>3. /\ Began(t) \in [Keys -> Nat]
      /\ Began(t)["cycle"] = t.cycle /\ Began(t)["children"] = t.children
      /\ Began(t)["tokens"] = 0
  BY <1>1, <1>2 DEF Began, Keys, Counters
<1>4. /\ Unmeasured(t) \in [Keys -> Amount] /\ Unmeasured(t)["tokens"] = Unknown
      /\ \A c \in Counters : Unmeasured(t)[c] = Began(t)[c]
  BY <1>3 DEF Unmeasured, Amount, Keys, Counters
<1> QED BY <1>1, <1>3, <1>4

LEMMA InitInv == Init => SlicesInv
<1> SUFFICES ASSUME Init PROVE SlicesInv
  OBVIOUS
<1> DEFINE began == Began(source)
           first == Unmeasured(source)
<1>1. /\ source \in StartTasks /\ used = first /\ baseline = Zero /\ totals = Totals(Zero, first)
      /\ active = source.active /\ evidence = source.evidence /\ spent = began
      /\ posture \in Postures /\ accepted = {} /\ history = <<>> /\ kept = FALSE
  BY DEF Init
<1>2. /\ began \in [Keys -> Nat]
      /\ first \in [Keys -> Amount] /\ first["tokens"] = Unknown
      /\ \A c \in Counters : first[c] = began[c]
      /\ active \in Nat /\ evidence \subseteq Refs
      /\ began["children"] = source.children
  BY <1>1, BeganFacts
<1> HIDE DEF began, first
<1>3. totals \in [Keys -> Amount] /\ \A k \in Keys : totals[k] = Plus(0, first[k])
  BY <1>1, <1>2, ZeroFacts, TotalsFacts
<1>4. TypeOK
  <2>1. used \in [Keys -> Amount] /\ baseline \in [Keys -> Amount] /\ spent \in [Keys -> Nat]
    BY <1>1, <1>2, ZeroFacts
  <2>2. history \in Seq(Receipts) /\ accepted \subseteq Refs
    BY <1>1
  <2>3. kept \in BOOLEAN
    BY <1>1, Zenon
  <2> QED BY <1>1, <1>2, <1>3, <2>1, <2>2, <2>3 DEF TypeOK
<1>5. CheckpointValid
  BY <1>1 DEF CheckpointValid, ValidTotals, ValidHistory, ValidBaseline, ValidAccepted
<1>6. TotalsAreSpent
  <2> SUFFICES ASSUME NEW k \in Keys, totals[k] # Unknown PROVE totals[k] = spent[k]
    BY DEF TotalsAreSpent
  <2>1. k \in Counters
    BY <1>2, <1>3, StepsAreBounded DEF Plus, Keys
  <2>2. first[k] = began[k] /\ began[k] \in Nat
    BY <1>2, <2>1
  <2> QED BY <1>1, <1>3, <2>2, StepsAreBounded DEF Plus
<1>7. CountersKnown /\ UnmeasuredFirst
  <2>1. \A c \in Counters : first[c] # Unknown /\ Zero[c] # Unknown
    BY <1>2, ZeroFacts, StepsAreBounded DEF Keys
  <2> QED BY <1>1, <2>1 DEF CountersKnown, UnmeasuredFirst
<1>8. HistoryBelow /\ ReceiptsFresh
  BY <1>1 DEF HistoryBelow, ReceiptsFresh
<1>9. BudgetHolds
  BY <1>1 DEF BudgetHolds, began
<1>10. ChildrenBounded
  BY <1>1, <1>2 DEF ChildrenBounded, Counters
<1> QED BY <1>4, <1>5, <1>6, <1>7, <1>8, <1>9, <1>10 DEF SlicesInv

-----------------------------------------------------------------------------
(* Steps that do not cross a boundary.                                     *)

\* What is said of receipts alone is kept while no receipt is written.
LEMMA ReceiptsKept ==
  ASSUME SlicesInv, UNCHANGED <<baseline, accepted, history>>
  PROVE  ValidHistory' /\ ValidBaseline' /\ ValidAccepted' /\ HistoryBelow' /\ ReceiptsFresh'
BY DEF SlicesInv, CheckpointValid, ValidHistory, ValidBaseline, ValidAccepted,
       HistoryBelow, ReceiptsFresh

\* Recording a slice that has added up with its baseline to what was spent.
LEMMA Recording ==
  ASSUME SlicesInv,
         NEW slice \in [Keys -> Amount],
         Record(slice),
         spent' \in [Keys -> Nat],
         \A k \in Keys : slice[k] # Unknown /\ baseline[k] # Unknown
                           => baseline[k] + slice[k] = spent'[k]
  PROVE  /\ used' \in [Keys -> Amount] /\ baseline' \in [Keys -> Amount]
         /\ totals' \in [Keys -> Amount]
         /\ ValidTotals' /\ TotalsAreSpent'
<1>1. baseline \in [Keys -> Amount]
  BY DEF SlicesInv, TypeOK
<1>2. /\ totals' \in [Keys -> Amount]
      /\ \A k \in Keys : totals'[k] = Plus(baseline[k], slice[k])
  BY <1>1, TotalsFacts DEF Record
<1>3. TotalsAreSpent'
  <2> SUFFICES ASSUME NEW k \in Keys, totals'[k] # Unknown PROVE totals'[k] = spent'[k]
    BY DEF TotalsAreSpent
  <2> QED BY <1>1, <1>2, PlusFacts
<1> QED BY <1>1, <1>2, <1>3 DEF Record, ValidTotals

\* What the totals say, by key.
LEMMA TotalsByKey ==
  ASSUME SlicesInv, NEW k \in Keys
  PROVE  /\ used[k] \in Amount /\ baseline[k] \in Amount /\ totals[k] \in Amount /\ spent[k] \in Nat
         /\ totals[k] = Plus(baseline[k], used[k])
         /\ used[k] # Unknown /\ baseline[k] # Unknown => baseline[k] + used[k] = spent[k]
<1>1. /\ used \in [Keys -> Amount] /\ baseline \in [Keys -> Amount]
      /\ totals \in [Keys -> Amount] /\ spent \in [Keys -> Nat]
  BY DEF SlicesInv, TypeOK
<1>2. totals[k] = Plus(baseline[k], used[k])
  BY <1>1, TotalsFacts DEF SlicesInv, CheckpointValid, ValidTotals
<1> QED BY <1>1, <1>2, PlusFacts DEF SlicesInv, TotalsAreSpent

\* A limited total below its limit before a step that adds at most MaxStep
\* keeps the budget after it.
LEMMA BudgetStep ==
  ASSUME SlicesInv,
         ~LimitReached(totals),
         spent' \in [Keys -> Nat],
         \A k \in Keys : spent'[k] <= spent[k] + MaxStep,
         \A k \in Keys : totals[k] # Unknown => totals'[k] # Unknown
  PROVE  BudgetHolds'
<1> SUFFICES ASSUME NEW k \in DOMAIN GoalLimits
             PROVE  totals'[k] # Unknown /\ spent'[k] < GoalLimits[k] + MaxStep
  BY DEF BudgetHolds
<1>1. k \in Keys /\ GoalLimits[k] \in Nat /\ MaxStep \in Nat
  BY StepsAreBounded, LimitsAreValid
<1>2. totals[k] # Unknown /\ ~(totals[k] >= GoalLimits[k])
  BY DEF LimitReached
<1>3. totals[k] = spent[k] /\ spent[k] \in Nat /\ spent'[k] \in Nat
  BY <1>1, <1>2, TotalsByKey DEF SlicesInv, TotalsAreSpent
<1> QED BY <1>1, <1>2, <1>3

LEMMA WorkStep ==
  ASSUME SlicesInv,
         NEW n \in 1 .. MaxStep, NEW tokens \in 0 .. MaxStep, NEW found \in SUBSET Refs,
         Work(n, tokens, found)
  PROVE  SlicesInv'
<1> DEFINE slice == [k \in Keys |-> IF used[k] = Unknown THEN Unknown
                                   ELSE used[k] + Usage(n, tokens)[k]]
<1>1. n \in Nat /\ n <= MaxStep /\ tokens \in Nat /\ tokens <= MaxStep
  BY StepsAreBounded
<1>2. used \in [Keys -> Amount] /\ spent \in [Keys -> Nat] /\ baseline \in [Keys -> Amount]
  BY DEF SlicesInv, TypeOK
<1>3. used["cycle"] \in Nat /\ used["children"] \in Nat
  BY <1>2 DEF SlicesInv, CountersKnown, Keys, Counters, Amount
<1>usage. /\ Usage(n, tokens) \in [Keys -> Nat]
      /\ Usage(n, tokens)["cycle"] = n /\ Usage(n, tokens)["children"] = 0
      /\ Usage(n, tokens)["tokens"] = tokens
  BY <1>1, ZeroFacts DEF Usage, Zero, Keys, Counters
<1>4. /\ slice \in [Keys -> Amount]
      /\ slice["cycle"] = used["cycle"] + n
      /\ slice["children"] = used["children"]
      /\ slice["tokens"] = IF used["tokens"] = Unknown THEN Unknown ELSE used["tokens"] + tokens
  <2>1. \A k \in Keys : used[k] # Unknown => used[k] + Usage(n, tokens)[k] \in Nat
    BY <1>2, <1>usage DEF Amount
  <2>2. slice \in [Keys -> Amount]
    BY <2>1 DEF Amount
  <2> QED BY <1>1, <1>2, <1>3, <1>usage, <2>2, StepsAreBounded DEF Keys, Counters
<1>5. /\ spent' \in [Keys -> Nat]
      /\ spent'["cycle"] = spent["cycle"] + n
      /\ spent'["children"] = spent["children"]
      /\ spent'["tokens"] = spent["tokens"] + tokens
  <2>1. spent' = [k \in Keys |-> spent[k] + Usage(n, tokens)[k]]
    BY DEF Work
  <2> QED BY <1>1, <1>2, <1>usage, <2>1 DEF Keys, Counters
<1>6. Record(slice) /\ used' = slice /\ baseline' = baseline
  BY DEF Work, Record
<1>7. ASSUME NEW k \in Keys, slice[k] # Unknown, baseline[k] # Unknown
      PROVE  baseline[k] + slice[k] = spent'[k]
  <2>1. used[k] # Unknown /\ used[k] \in Nat /\ baseline[k] \in Nat /\ spent[k] \in Nat
    <3> HIDE DEF slice
    <3>1. used[k] # Unknown
      BY <1>3, <1>4, <1>7, StepsAreBounded DEF Keys, Counters
    <3> QED BY <1>2, <1>7, <3>1 DEF Amount
  <2>2. baseline[k] + used[k] = spent[k]
    BY <1>7, <2>1, TotalsByKey
  <2> QED BY <1>1, <1>4, <1>5, <1>7, <2>1, <2>2, StepsAreBounded DEF Keys, Counters
<1> HIDE DEF slice
<1>8. /\ used' \in [Keys -> Amount] /\ baseline' \in [Keys -> Amount]
      /\ totals' \in [Keys -> Amount]
      /\ ValidTotals' /\ TotalsAreSpent'
  BY <1>4, <1>5, <1>6, <1>7, Recording
<1>9. /\ UNCHANGED <<active, accepted, history, posture, source, kept>>
      /\ evidence' = evidence \cup found
  BY DEF Work, auxVars
<1>10. TypeOK'
  BY <1>5, <1>8, <1>9 DEF TypeOK, SlicesInv
<1>11. CheckpointValid' /\ HistoryBelow' /\ ReceiptsFresh'
  BY <1>6, <1>8, <1>9, ReceiptsKept DEF CheckpointValid
<1>12. CountersKnown' /\ UnmeasuredFirst'
  BY <1>3, <1>4, <1>6, <1>1, <1>2, StepsAreBounded
     DEF CountersKnown, UnmeasuredFirst, SlicesInv, Counters, Keys, Amount
<1>13. BudgetHolds'
  <2>1. ~LimitReached(totals)
    BY Continuing DEF Work
  <2>2. \A k \in Keys : spent'[k] <= spent[k] + MaxStep
    BY <1>1, <1>2, <1>5, StepsAreBounded DEF Keys, Counters
  <2>3. ASSUME NEW k \in Keys, totals[k] # Unknown PROVE totals'[k] # Unknown
    <3>1. used[k] # Unknown /\ baseline[k] # Unknown /\ used[k] \in Nat
      BY <2>3, TotalsByKey, PlusFacts, StepsAreBounded DEF Amount
    <3>2. slice[k] # Unknown
      BY <1>1, <1>3, <1>4, <3>1, StepsAreBounded DEF Keys, Counters
    <3>3. totals'[k] = Plus(baseline[k], slice[k])
      BY <1>2, <1>4, <1>6, TotalsFacts DEF Record
    <3> QED BY <1>2, <1>4, <3>1, <3>2, <3>3, PlusFacts
  <2> QED BY <1>5, <2>1, <2>2, <2>3, BudgetStep
<1>14. ChildrenBounded'
  BY <1>4, <1>6, <1>9 DEF SlicesInv, ChildrenBounded
<1> QED BY <1>8, <1>10, <1>11, <1>12, <1>13, <1>14 DEF SlicesInv

LEMMA SpawnStep ==
  ASSUME SlicesInv, Spawn
  PROVE  SlicesInv'
<1> DEFINE slice == [used EXCEPT !.children = @ + 1]
<1>1. used \in [Keys -> Amount] /\ spent \in [Keys -> Nat] /\ baseline \in [Keys -> Amount]
  BY DEF SlicesInv, TypeOK
<1>2. used["children"] \in Nat /\ used["cycle"] \in Nat
  BY <1>1 DEF SlicesInv, CountersKnown, Keys, Counters, Amount
<1>3. /\ slice \in [Keys -> Amount]
      /\ slice["children"] = used["children"] + 1
      /\ slice["cycle"] = used["cycle"] /\ slice["tokens"] = used["tokens"]
  BY <1>1, <1>2 DEF Keys, Counters, Amount
<1>4. /\ spent' \in [Keys -> Nat]
      /\ spent'["children"] = spent["children"] + 1
      /\ spent'["cycle"] = spent["cycle"] /\ spent'["tokens"] = spent["tokens"]
  BY <1>1 DEF Spawn, Keys, Counters
<1>5. Record(slice) /\ used' = slice /\ baseline' = baseline
  BY DEF Spawn, Record
<1>6. ASSUME NEW k \in Keys, slice[k] # Unknown, baseline[k] # Unknown
      PROVE  baseline[k] + slice[k] = spent'[k]
  <2>1. used[k] # Unknown /\ used[k] \in Nat /\ baseline[k] \in Nat /\ spent[k] \in Nat
    BY <1>1, <1>2, <1>3, <1>6, StepsAreBounded DEF Keys, Counters, Amount
  <2>2. baseline[k] + used[k] = spent[k]
    BY <1>6, <2>1, TotalsByKey
  <2> QED BY <1>3, <1>4, <2>1, <2>2 DEF Keys, Counters
<1> HIDE DEF slice
<1>7. /\ used' \in [Keys -> Amount] /\ baseline' \in [Keys -> Amount]
      /\ totals' \in [Keys -> Amount]
      /\ ValidTotals' /\ TotalsAreSpent'
  BY <1>3, <1>4, <1>5, <1>6, Recording
<1>8. /\ UNCHANGED <<evidence, accepted, history, posture, source>>
      /\ active' = active + 1 /\ kept' \in BOOLEAN
  BY DEF Spawn, evidenceVars, SlicesInv, TypeOK
<1>9. TypeOK'
  BY <1>4, <1>7, <1>8 DEF TypeOK, SlicesInv
<1>10. CheckpointValid' /\ HistoryBelow' /\ ReceiptsFresh'
  BY <1>5, <1>7, <1>8, ReceiptsKept DEF CheckpointValid
<1>11. CountersKnown' /\ UnmeasuredFirst'
  BY <1>1, <1>2, <1>3, <1>5, StepsAreBounded
     DEF CountersKnown, UnmeasuredFirst, SlicesInv, Counters, Keys, Amount
<1>12. /\ EvaluateGoal(Goal).decision = "continue"
       /\ active < Limits.concurrency /\ used.children < Limits.children
  BY <1>2, Spawning, LimitsAreValid DEF Spawn, LimitNames
<1>13. BudgetHolds'
  <2>1. ~LimitReached(totals)
    BY <1>12, Continuing
  <2>2. \A k \in Keys : spent'[k] <= spent[k] + MaxStep
    BY <1>1, <1>4, StepsAreBounded DEF Keys, Counters
  <2>3. ASSUME NEW k \in Keys, totals[k] # Unknown PROVE totals'[k] # Unknown
    <3>1. used[k] # Unknown /\ baseline[k] # Unknown /\ used[k] \in Nat
      BY <2>3, TotalsByKey, PlusFacts, StepsAreBounded DEF Amount
    <3>2. slice[k] # Unknown
      BY <1>3, <3>1, StepsAreBounded DEF Keys, Counters
    <3>3. totals'[k] = Plus(baseline[k], slice[k])
      BY <1>1, <1>3, <1>5, TotalsFacts DEF Record
    <3> QED BY <1>1, <1>3, <3>1, <3>2, <3>3, PlusFacts
  <2> QED BY <1>4, <2>1, <2>2, <2>3, BudgetStep
<1>14. ChildrenBounded'
  BY <1>2, <1>3, <1>5, <1>8, <1>12, LimitsAreValid
     DEF SlicesInv, TypeOK, ChildrenBounded, LimitNames
<1> QED BY <1>7, <1>9, <1>10, <1>11, <1>13, <1>14 DEF SlicesInv

LEMMA MeasureStep ==
  ASSUME SlicesInv, Measure
  PROVE  SlicesInv'
<1> DEFINE slice == [used EXCEPT !.tokens = spent.tokens]
<1>1. used \in [Keys -> Amount] /\ spent \in [Keys -> Nat] /\ baseline \in [Keys -> Amount]
  BY DEF SlicesInv, TypeOK
<1>2. used["tokens"] = Unknown /\ baseline = Zero
  BY DEF Measure, SlicesInv, UnmeasuredFirst
<1>3. /\ slice \in [Keys -> Amount]
      /\ slice["tokens"] = spent["tokens"]
      /\ slice["cycle"] = used["cycle"] /\ slice["children"] = used["children"]
  BY <1>1 DEF Keys, Counters, Amount
<1>4. Record(slice) /\ used' = slice /\ baseline' = baseline /\ spent' = spent
  BY DEF Measure, Record
<1> HIDE DEF slice
<1>5. ASSUME NEW k \in Keys, slice[k] # Unknown, baseline[k] # Unknown
      PROVE  baseline[k] + slice[k] = spent'[k]
  <2>1. CASE k = "tokens"
    BY <1>1, <1>2, <1>3, <1>4, <2>1, ZeroFacts
  <2>2. CASE k \in Counters
    <3>1. slice[k] = used[k]
      BY <1>3, <2>2 DEF Counters
    <3> QED BY <1>4, <1>5, <3>1, TotalsByKey
  <2> QED BY <2>1, <2>2 DEF Keys
<1>6. /\ used' \in [Keys -> Amount] /\ baseline' \in [Keys -> Amount]
      /\ totals' \in [Keys -> Amount]
      /\ ValidTotals' /\ TotalsAreSpent'
  BY <1>1, <1>3, <1>4, <1>5, Recording
<1>7. UNCHANGED <<active, evidence, accepted, history, posture, source, kept>>
  BY DEF Measure, evidenceVars, auxVars
<1>8. TypeOK'
  BY <1>1, <1>4, <1>6, <1>7 DEF TypeOK, SlicesInv
<1>9. CheckpointValid' /\ HistoryBelow' /\ ReceiptsFresh'
  BY <1>4, <1>6, <1>7, ReceiptsKept DEF CheckpointValid
<1>10. CountersKnown' /\ UnmeasuredFirst'
  BY <1>1, <1>2, <1>3, <1>4 DEF CountersKnown, UnmeasuredFirst, SlicesInv, Counters
<1>11. BudgetHolds'
  <2>1. \A k \in Keys : totals'[k] # Unknown
    <3> SUFFICES ASSUME NEW k \in Keys PROVE totals'[k] # Unknown
      OBVIOUS
    <3>1. slice[k] # Unknown
      BY <1>1, <1>3, StepsAreBounded DEF Keys, Counters, SlicesInv, CountersKnown
    <3>2. baseline[k] # Unknown /\ baseline[k] \in Amount /\ slice[k] \in Amount
      BY <1>1, <1>2, <1>3, ZeroFacts, StepsAreBounded
    <3>3. totals'[k] = Plus(baseline[k], slice[k])
      BY <1>1, <1>3, <1>4, TotalsFacts DEF Record
    <3> QED BY <3>1, <3>2, <3>3, PlusFacts
  <2> QED BY <1>4, <1>7, <2>1, StepsAreBounded DEF BudgetHolds, SlicesInv
<1>12. ChildrenBounded'
  BY <1>3, <1>4, <1>7 DEF SlicesInv, ChildrenBounded
<1> QED BY <1>6, <1>8, <1>9, <1>10, <1>11, <1>12 DEF SlicesInv

\* Nothing that is accounted for changes.
LEMMA AccountsKept ==
  ASSUME SlicesInv, UNCHANGED <<accountVars, accepted, history, source>>, kept' \in BOOLEAN,
         active' \in Nat, active' <= active, evidence' \subseteq Refs, posture' \in Postures
  PROVE  SlicesInv'
<1>1. UNCHANGED <<used, baseline, totals, spent>>
  BY DEF accountVars
<1>2. TypeOK'
  BY <1>1 DEF SlicesInv, TypeOK
<1>3. CheckpointValid' /\ HistoryBelow' /\ ReceiptsFresh'
  BY <1>1, ReceiptsKept DEF SlicesInv, CheckpointValid, ValidTotals
<1>4. TotalsAreSpent' /\ CountersKnown' /\ UnmeasuredFirst' /\ BudgetHolds'
  BY <1>1 DEF SlicesInv, TotalsAreSpent, CountersKnown, UnmeasuredFirst, BudgetHolds
<1>5. ChildrenBounded'
  BY <1>1, LimitsAreValid, TasksAreTyped DEF SlicesInv, TypeOK, ChildrenBounded, LimitNames
<1> QED BY <1>2, <1>3, <1>4, <1>5 DEF SlicesInv

LEMMA ChildEndsStep ==
  ASSUME SlicesInv, NEW found \in SUBSET Refs, ChildEnds(found)
  PROVE  SlicesInv'
BY AccountsKept DEF ChildEnds, auxVars, SlicesInv, TypeOK

LEMMA ObserveStep ==
  ASSUME SlicesInv, Observe
  PROVE  SlicesInv'
BY AccountsKept DEF Observe, SlicesInv, TypeOK, evidenceVars

LEMMA PruneStep ==
  ASSUME SlicesInv, NEW ref \in Refs, Prune(ref)
  PROVE  SlicesInv'
BY AccountsKept DEF Prune, auxVars, SlicesInv, TypeOK

-----------------------------------------------------------------------------
(* Crossing a boundary.                                                    *)

\* The totals never fall below the baseline.
LEMMA TotalsAbove ==
  ASSUME SlicesInv, NEW k \in Keys, totals[k] # Unknown
  PROVE  /\ baseline[k] # Unknown /\ used[k] # Unknown
         /\ baseline[k] \in Nat /\ totals[k] \in Nat /\ baseline[k] <= totals[k]
<1>1. /\ used[k] \in Amount /\ baseline[k] \in Amount
      /\ totals[k] = Plus(baseline[k], used[k])
  BY TotalsByKey
<1>2. /\ baseline[k] # Unknown /\ used[k] # Unknown
      /\ baseline[k] \in Nat /\ used[k] \in Nat /\ totals[k] = baseline[k] + used[k]
  BY <1>1, PlusFacts
<1> QED BY <1>2

\* The new receipt at the end of the history.
LEMMA Receipt ==
  ASSUME SlicesInv, NEW r \in Requests, Advance(r)
  PROVE  /\ NewReceipt(r) \in Receipts
         /\ history' \in Seq(Receipts) /\ history' # <<>>
         /\ DOMAIN history' = DOMAIN history \cup {Len(history) + 1}
         /\ Len(history') = Len(history) + 1
         /\ history'[Len(history) + 1] = NewReceipt(r)
         /\ \A i \in DOMAIN history : /\ i \in Nat /\ i < Len(history) + 1
                                      /\ history'[i] = history[i] /\ history[i] \in Receipts
<1>1. NewReceipt(r) \in Receipts
  BY DEF NewReceipt, Receipts, SlicesInv, TypeOK
<1>2. history \in Seq(Receipts) /\ history' = Append(history, NewReceipt(r))
  BY DEF SlicesInv, TypeOK, Advance
<1> QED BY <1>1, <1>2

LEMMA AdvanceStep ==
  ASSUME SlicesInv, NEW r \in Requests, Advance(r)
  PROVE  SlicesInv'
<1> DEFINE n == Len(history) + 1
           new == NewReceipt(r)
<1>1. /\ n \in Nat
      /\ history' \in Seq(Receipts) /\ history' # <<>> /\ Len(history') = n
      /\ DOMAIN history' = DOMAIN history \cup {n}
      /\ history'[n] = new
      /\ \A i \in DOMAIN history : /\ i \in Nat /\ i < n /\ history'[i] = history[i]
                                   /\ history[i] \in Receipts
  <2>1. n \in Nat
    BY DEF SlicesInv, TypeOK
  <2> QED BY <2>1, Receipt
<1>2. new.request = r /\ new.totals = totals /\ new.refs = evidence \ accepted
  BY DEF NewReceipt
<1> HIDE DEF n, new
<1>3. /\ used \in [Keys -> Amount] /\ baseline \in [Keys -> Amount]
      /\ totals \in [Keys -> Amount]
  BY DEF SlicesInv, TypeOK
<1>4. used' = Zero /\ baseline' = totals /\ totals' = totals
  BY <1>3, ZeroFacts DEF Advance, Restart
<1>5. /\ UNCHANGED <<active, evidence, posture, spent, source>>
      /\ kept' \in BOOLEAN
      /\ accepted' = accepted \cup evidence
      /\ \A i \in DOMAIN history : history[i].request # r
  <2>1. posture.review \in BOOLEAN
    BY PosturesAreTyped DEF SlicesInv, TypeOK, PostureType
  <2> QED BY <2>1 DEF Advance
<1>6. evidence \ accepted # {}
  BY Crossing DEF Advance
<1>7. TypeOK'
  BY <1>1, <1>3, <1>4, <1>5, ZeroFacts DEF SlicesInv, TypeOK
<1>8. ValidTotals'
  BY <1>3, <1>4, ZeroFacts DEF ValidTotals
<1>9. HistoryBelow'
  <2> SUFFICES ASSUME NEW i \in DOMAIN history', NEW k \in Keys, totals[k] # Unknown
               PROVE  history'[i].totals[k] # Unknown /\ history'[i].totals[k] <= totals[k]
    BY <1>4 DEF HistoryBelow
  <2>1. baseline[k] # Unknown /\ baseline[k] \in Nat /\ totals[k] \in Nat /\ baseline[k] <= totals[k]
    BY TotalsAbove
  <2>2. CASE i \in DOMAIN history
    <3>1. /\ history'[i] = history[i] /\ history[i].totals[k] \in Amount
      BY <1>1, <2>2 DEF Receipts
    <3>2. history[i].totals[k] # Unknown /\ history[i].totals[k] <= baseline[k]
      BY <2>1, <2>2 DEF SlicesInv, HistoryBelow
    <3> QED BY <2>1, <3>1, <3>2 DEF Amount
  <2>3. CASE i = n
    BY <1>1, <1>2, <2>1, <2>3
  <2> QED BY <1>1, <2>2, <2>3
<1>10. ValidHistory'
  <2> SUFFICES ASSUME NEW i \in DOMAIN history', NEW j \in DOMAIN history', i < j
               PROVE  /\ history'[i].request # history'[j].request
                      /\ \A k \in Keys : \/ history'[j].totals[k] = Unknown
                                       \/ /\ history'[i].totals[k] # Unknown
                                          /\ history'[i].totals[k] <= history'[j].totals[k]
    BY DEF ValidHistory
  <2>1. i \in DOMAIN history
    BY <1>1
  <2>2. CASE j \in DOMAIN history
    BY <1>1, <2>1, <2>2 DEF SlicesInv, CheckpointValid, ValidHistory
  <2>3. CASE j = n
    <3>1. history'[i].request # history'[j].request
      BY <1>1, <1>2, <1>5, <2>1, <2>3
    <3>2. ASSUME NEW k \in Keys, totals[k] # Unknown
          PROVE  history'[i].totals[k] # Unknown /\ history'[i].totals[k] <= totals[k]
      <4>1. baseline'[k] # Unknown
        BY <1>4, <3>2
      <4>2. history'[i].totals[k] # Unknown /\ history'[i].totals[k] <= baseline'[k]
        BY <1>9, <4>1 DEF HistoryBelow
      <4> QED BY <1>4, <4>2
    <3>3. history'[j].totals = totals
      BY <1>1, <1>2, <2>3
    <3> QED BY <3>1, <3>2, <3>3
  <2> QED BY <1>1, <2>2, <2>3
<1>11. ValidBaseline'
  BY <1>1, <1>2, <1>4 DEF ValidBaseline, Last
<1>12. \A i \in DOMAIN history : history[i].refs \subseteq accepted
  BY DEF SlicesInv, CheckpointValid, ValidAccepted
<1>13. ValidAccepted'
  <2>1. \A ref : ref \in accepted <=> \E i \in DOMAIN history : ref \in history[i].refs
    BY DEF SlicesInv, CheckpointValid, ValidAccepted
  <2>2. \A ref : ref \in accepted' <=> \/ \E i \in DOMAIN history : ref \in history[i].refs
                                      \/ ref \in new.refs
    BY <1>2, <1>5, <2>1
  <2>3. \A ref : ref \in accepted' <=> \E i \in DOMAIN history' : ref \in history'[i].refs
    BY <1>1, <2>2
  <2> QED BY <2>3 DEF ValidAccepted
<1>14. ReceiptsFresh'
  <2>1. \A i \in DOMAIN history' : history'[i].refs # {}
    BY <1>1, <1>2, <1>6 DEF SlicesInv, ReceiptsFresh
  <2>2. ASSUME NEW i \in DOMAIN history', NEW j \in DOMAIN history', i # j
        PROVE  history'[i].refs \cap history'[j].refs = {}
    <3>1. CASE i \in DOMAIN history /\ j \in DOMAIN history
      BY <1>1, <2>2, <3>1 DEF SlicesInv, ReceiptsFresh
    <3>2. CASE i = n /\ j \in DOMAIN history
      BY <1>1, <1>2, <1>12, <3>2
    <3>3. CASE i \in DOMAIN history /\ j = n
      BY <1>1, <1>2, <1>12, <3>3
    <3> QED BY <1>1, <2>2, <3>1, <3>2, <3>3
  <2> QED BY <2>1, <2>2 DEF ReceiptsFresh
<1>15. TotalsAreSpent' /\ BudgetHolds'
  BY <1>4, <1>5 DEF SlicesInv, TotalsAreSpent, BudgetHolds
<1>16. CountersKnown'
  <2> SUFFICES ASSUME NEW k \in Counters PROVE Zero[k] # Unknown /\ totals[k] # Unknown
    BY <1>4 DEF CountersKnown
  <2>1. k \in Keys /\ used[k] # Unknown /\ baseline[k] # Unknown
    BY DEF SlicesInv, CountersKnown, Keys
  <2> QED BY <1>3, <2>1, ZeroFacts, StepsAreBounded, TotalsByKey, PlusFacts
<1>17. UnmeasuredFirst'
  BY <1>4, ZeroFacts, StepsAreBounded DEF UnmeasuredFirst, Keys
<1>18. ChildrenBounded'
  BY <1>4, <1>5, LimitsAreValid
     DEF SlicesInv, ChildrenBounded, Zero, Keys, Counters, LimitNames
<1> QED BY <1>7, <1>8, <1>9, <1>10, <1>11, <1>13, <1>14, <1>15, <1>16, <1>17, <1>18
        DEF SlicesInv, CheckpointValid

-----------------------------------------------------------------------------
(* The invariant is inductive, and what follows from it.                   *)

LEMMA NextInv == SlicesInv /\ [Next]_vars => SlicesInv'
<1> SUFFICES ASSUME SlicesInv, [Next]_vars PROVE SlicesInv'
  OBVIOUS
<1>1. CASE \E r \in Requests : Advance(r)
  BY <1>1, AdvanceStep
<1>2. CASE \E n \in 1 .. MaxStep, tokens \in 0 .. MaxStep, found \in SUBSET Refs : Work(n, tokens, found)
  BY <1>2, WorkStep
<1>3. CASE Spawn
  BY <1>3, SpawnStep
<1>4. CASE \E found \in SUBSET Refs : ChildEnds(found)
  BY <1>4, ChildEndsStep
<1>5. CASE Measure
  BY <1>5, MeasureStep
<1>6. CASE Observe
  BY <1>6, ObserveStep
<1>7. CASE \E ref \in Refs : Prune(ref)
  BY <1>7, PruneStep
<1>8. CASE UNCHANGED vars
  BY <1>8, AccountsKept DEF vars, accountVars, SlicesInv, TypeOK
<1> QED BY <1>1, <1>2, <1>3, <1>4, <1>5, <1>6, <1>7, <1>8 DEF Next

\* Every reachable checkpoint satisfies the inductive invariant.
THEOREM SlicesInvariant == Spec => []SlicesInv
<1> QED BY InitInv, NextInv, PTL DEF Spec

\* Every field of a checkpoint keeps its type.
THEOREM SlicesTypes == Spec => []TypeOK
<1>1. SlicesInv => TypeOK
  BY DEF SlicesInv
<1> QED BY <1>1, SlicesInvariant, PTL

\* A total the checkpoint claims to know is what was used since the goal began,
\* however many slices ago.
THEOREM SlicesTotals == Spec => []TotalsAreSpent
<1>1. SlicesInv => TotalsAreSpent
  BY DEF SlicesInv
<1> QED BY <1>1, SlicesInvariant, PTL

\* The validator never refuses what the evaluator authorized.
THEOREM SlicesValid == Spec => []CheckpointValid
<1>1. SlicesInv => CheckpointValid
  BY DEF SlicesInv
<1> QED BY <1>1, SlicesInvariant, PTL

\* No reference pays for two slices.
THEOREM SlicesFresh == Spec => []ReceiptsFresh
<1>1. SlicesInv => ReceiptsFresh
  BY DEF SlicesInv
<1> QED BY <1>1, SlicesInvariant, PTL

\* A goal overshoots a limited total by less than one step, over all its slices.
THEOREM SlicesBudget == Spec => []BudgetHolds
<1>1. SlicesInv => BudgetHolds
  BY DEF SlicesInv
<1> QED BY <1>1, SlicesInvariant, PTL

\* Spawning as allowed never has too many children run or started in a slice.
THEOREM SlicesChildren == Spec => []ChildrenBounded
<1>1. SlicesInv => ChildrenBounded
  BY DEF SlicesInv
<1> QED BY <1>1, SlicesInvariant, PTL

-----------------------------------------------------------------------------
(* What no step does.                                                      *)

\* While the baseline stays, what is spent and what is measured only grow.
LEMMA Growing ==
  ASSUME SlicesInv, SlicesInv', UNCHANGED baseline,
         \A k \in Keys : spent[k] <= spent'[k],
         \A k \in Keys : used[k] # Unknown => used'[k] # Unknown
  PROVE  /\ \A k \in Keys : totals[k] # Unknown => totals'[k] # Unknown /\ totals'[k] >= totals[k]
         /\ \A k \in Keys : baseline[k] = Unknown => totals'[k] = Unknown
<1> SUFFICES ASSUME NEW k \in Keys
             PROVE  /\ totals[k] # Unknown => totals'[k] # Unknown /\ totals'[k] >= totals[k]
                    /\ baseline[k] = Unknown => totals'[k] = Unknown
  OBVIOUS
<1>1. /\ used[k] \in Amount /\ used'[k] \in Amount /\ baseline[k] \in Amount
      /\ spent[k] \in Nat /\ spent'[k] \in Nat /\ baseline'[k] = baseline[k]
  BY DEF SlicesInv, TypeOK
<1>2. totals[k] = Plus(baseline[k], used[k]) /\ totals'[k] = Plus(baseline[k], used'[k])
  BY DEF SlicesInv, CheckpointValid, ValidTotals, Totals
<1>3. ASSUME totals[k] # Unknown PROVE totals'[k] # Unknown /\ totals'[k] >= totals[k]
  <2>1. totals'[k] # Unknown
    BY <1>1, <1>2, <1>3, PlusFacts
  <2>2. totals[k] = spent[k] /\ totals'[k] = spent'[k]
    BY <1>3, <2>1 DEF SlicesInv, TotalsAreSpent
  <2> QED BY <1>1, <2>1, <2>2
<1>4. baseline[k] = Unknown => totals'[k] = Unknown
  BY <1>2 DEF Plus
<1> QED BY <1>3, <1>4

\* A known total never falls or is forgotten, and what was unmeasured at a
\* boundary stays unknown.
THEOREM SlicesNeverRegress == Spec => TotalsNeverRegress
<1>1. ASSUME SlicesInv, SlicesInv', [Next]_vars
      PROVE  [/\ \A k \in Keys : totals[k] # Unknown => totals'[k] # Unknown /\ totals'[k] >= totals[k]
              /\ \A k \in Keys : baseline[k] = Unknown => totals'[k] = Unknown]_vars
  <2>1. used \in [Keys -> Amount] /\ spent \in [Keys -> Nat] /\ totals \in [Keys -> Amount]
        /\ baseline \in [Keys -> Amount]
    BY <1>1 DEF SlicesInv, TypeOK
  <2>2. ASSUME NEW r \in Requests, Advance(r)
        PROVE  /\ \A k \in Keys : totals[k] # Unknown => totals'[k] # Unknown /\ totals'[k] >= totals[k]
               /\ \A k \in Keys : baseline[k] = Unknown => totals'[k] = Unknown
    <3>1. totals' = totals
      BY <2>1, <2>2, ZeroFacts DEF Advance, Restart
    <3>2. \A k \in Keys : totals[k] # Unknown => baseline[k] # Unknown /\ totals[k] \in Nat
      BY <1>1, TotalsAbove
    <3> QED BY <3>1, <3>2
  <2>3. ASSUME NEW n \in 1 .. MaxStep, NEW tokens \in 0 .. MaxStep, NEW found \in SUBSET Refs,
               Work(n, tokens, found)
        PROVE  /\ UNCHANGED baseline
               /\ \A k \in Keys : spent[k] <= spent'[k]
               /\ \A k \in Keys : used[k] # Unknown => used'[k] # Unknown
    <3>1. n \in Nat /\ tokens \in Nat
      BY StepsAreBounded
    <3>2. Usage(n, tokens) \in [Keys -> Nat]
      BY <3>1, ZeroFacts DEF Usage, Zero
    <3>3. \A k \in Keys : spent'[k] = spent[k] + Usage(n, tokens)[k]
      BY <2>3 DEF Work
    <3>4. \A k \in Keys : used'[k] = IF used[k] = Unknown THEN Unknown
                                     ELSE used[k] + Usage(n, tokens)[k]
      BY <2>3 DEF Work, Record
    <3>5. \A k \in Keys : used[k] # Unknown => used'[k] # Unknown
      BY <2>1, <3>2, <3>4, StepsAreBounded DEF Amount
    <3> QED BY <2>1, <2>3, <3>2, <3>3, <3>5 DEF Work, Record
  <2>4. ASSUME Spawn
        PROVE  /\ UNCHANGED baseline
               /\ \A k \in Keys : spent[k] <= spent'[k]
               /\ \A k \in Keys : used[k] # Unknown => used'[k] # Unknown
    <3>1. used["children"] \in Nat
      BY <1>1, <2>1 DEF SlicesInv, CountersKnown, Keys, Counters, Amount
    <3>2. /\ used' = [used EXCEPT !.children = @ + 1]
          /\ spent' = [spent EXCEPT !.children = @ + 1]
          /\ UNCHANGED baseline
      BY <2>4 DEF Spawn, Record
    <3> QED BY <2>1, <3>1, <3>2, StepsAreBounded DEF Keys, Counters
  <2>5. ASSUME Measure
        PROVE  /\ UNCHANGED baseline
               /\ \A k \in Keys : spent[k] <= spent'[k]
               /\ \A k \in Keys : used[k] # Unknown => used'[k] # Unknown
    <3>1. /\ used' = [used EXCEPT !.tokens = spent.tokens]
          /\ spent' = spent /\ UNCHANGED baseline
      BY <2>5 DEF Measure, Record
    <3> QED BY <2>1, <3>1, StepsAreBounded DEF Keys, Counters
  <2>6. ASSUME UNCHANGED <<used, baseline, totals, spent>>
        PROVE  /\ \A k \in Keys : totals[k] # Unknown => totals'[k] # Unknown /\ totals'[k] >= totals[k]
               /\ \A k \in Keys : baseline[k] = Unknown => totals'[k] = Unknown
    BY <1>1, <2>6, <2>1, Growing
  <2> QED BY <1>1, <2>2, <2>3, <2>4, <2>5, <2>6, Growing
          DEF Next, vars, ChildEnds, Observe, Prune, accountVars
<1> QED BY <1>1, SlicesInvariant, PTL DEF Spec, TotalsNeverRegress

\* The reviewer's place is not given away.
LEMMA PlaceStep ==
  ASSUME SlicesInv, PlaceKept, [Next]_vars
  PROVE  PlaceKept'
<1>1. /\ used["children"] \in Nat /\ used \in [Keys -> Amount]
      /\ Limits.children \in Nat /\ Reserve \in Nat /\ Reserve < Limits.children
  BY LimitsAreValid DEF SlicesInv, TypeOK, CountersKnown, Keys, Counters, Amount, LimitNames
<1>2. ASSUME NEW r \in Requests, Advance(r) PROVE PlaceKept'
  <2>1. /\ kept' = posture.review /\ posture' = posture /\ used'["children"] = 0
    BY <1>2, ZeroFacts DEF Advance, Restart, Keys, Counters
  <2> QED BY <1>1, <2>1 DEF PlaceKept
<1>3. ASSUME NEW n \in 1 .. MaxStep, NEW tokens \in 0 .. MaxStep, NEW found \in SUBSET Refs,
             Work(n, tokens, found)
      PROVE  PlaceKept'
  <2>1. Usage(n, tokens)["children"] = 0
    BY ZeroFacts DEF Usage, Zero, Keys, Counters
  <2>2. used'["children"] = used["children"] + Usage(n, tokens)["children"]
    BY <1>1, <1>3, StepsAreBounded DEF Work, Record, Keys, Counters
  <2> QED BY <1>1, <1>3, <2>1, <2>2 DEF Work, auxVars, PlaceKept
<1>4. CASE Spawn
  <2>1. used'["children"] = used["children"] + 1 /\ posture' = posture
    BY <1>1, <1>4 DEF Spawn, Record, Keys, Counters
  <2>2. kept' => kept /\ posture.action # "review"
    BY <1>4 DEF Spawn
  <2>3. ASSUME kept' PROVE used["children"] < Limits.children - Reserve
    BY <1>4, <2>2, <2>3, Spawning DEF Spawn, PlaceKept
  <2> QED BY <1>1, <2>1, <2>2, <2>3 DEF PlaceKept
<1>5. CASE Measure
  <2>1. used'["children"] = used["children"]
    BY <1>1, <1>5 DEF Measure, Record, Keys, Counters
  <2> QED BY <1>5, <2>1 DEF Measure, auxVars, PlaceKept
<1>6. CASE Observe
  BY <1>6 DEF Observe, accountVars, PlaceKept
<1>7. CASE UNCHANGED <<used, posture, kept>>
  BY <1>7 DEF PlaceKept
<1> QED BY <1>2, <1>3, <1>4, <1>5, <1>6, <1>7
        DEF Next, ChildEnds, Prune, accountVars, auxVars, vars

\* The number of children started in the slice matters to the decision only
\* where it reaches its limit.
LEMMA ChildrenOnly ==
  ASSUME used.children \in Nat, used.children < Limits.children, Limits.children \in Nat,
         EvaluateGoal([ReviewerTurn EXCEPT !.children = 0]).spawn
  PROVE  EvaluateGoal(ReviewerTurn).spawn
<1> DEFINE g == ReviewerTurn
           h == [ReviewerTurn EXCEPT !.children = 0]
<1>1. /\ g.children = used.children /\ h.children = 0 /\ g.action = "review" /\ h.action = "review"
      /\ h.cycle = g.cycle /\ h.active = g.active /\ h.human = g.human /\ h.totals = g.totals
      /\ h.status = g.status /\ h.evidence = g.evidence /\ h.nextStep = g.nextStep
      /\ h.declined = g.declined /\ h.transcript = g.transcript /\ h.saved = g.saved
      /\ h.retries = g.retries /\ h.noEvidence = g.noEvidence
  BY DEF ReviewerTurn, Goal
<1> HIDE DEF g, h
<1>2. Relaxed(g, g.action) = Relaxed(h, h.action)
  BY <1>1 DEF Relaxed, Blanked
<1>3. Base(g) = Base(h)
  BY <1>2 DEF Base
<1>4. GoalStop(g) <=> GoalStop(h)
  BY <1>1 DEF GoalStop
<1>5. Held(g) = Held(h)
  BY <1>3, <1>4 DEF Held, ContextBlocked
<1>6. SliceReached(g) => SliceReached(h)
  BY <1>1 DEF SliceReached
<1>7. Boundary(g) => Boundary(h)
  BY <1>3, <1>5, <1>6 DEF Boundary, ContextPending, ContextBlocked
<1>8. SpawnAllowed(h)
  BY DEF EvaluateGoal, h
<1>9. Decision(g) = "continue"
  <2>1. Decision(h) = "continue"
    BY <1>8 DEF SpawnAllowed
  <2>2. ~Crowded(h) /\ Held(h) = "continue" /\ ~Boundary(h)
    BY <2>1 DEF Decision
  <2>3. ~Crowded(g)
    BY <1>1, <2>2 DEF Crowded
  <2> QED BY <1>5, <1>7, <2>2, <2>3 DEF Decision
<1>10. SpawnAllowed(g)
  BY <1>1, <1>3, <1>8, <1>9 DEF SpawnAllowed
<1> QED BY <1>10 DEF EvaluateGoal, g

\* Executors never deny a required review the place its slice has kept for it.
THEOREM SlicesReviewer == Spec => []ReviewerHasPlace
<1>1. Init => PlaceKept
  BY DEF Init, PlaceKept
<1>2. SlicesInv /\ PlaceKept /\ [Next]_vars => PlaceKept'
  BY PlaceStep
<1>3. SlicesInv /\ PlaceKept => ReviewerHasPlace
  <2> SUFFICES ASSUME SlicesInv, PlaceKept, kept, Reserve > 0,
                      EvaluateGoal([ReviewerTurn EXCEPT !.children = 0]).spawn
               PROVE  EvaluateGoal(ReviewerTurn).spawn
    BY DEF ReviewerHasPlace
  <2>1. used.children \in Nat /\ Limits.children \in Nat /\ Reserve \in Nat
    BY LimitsAreValid DEF SlicesInv, TypeOK, CountersKnown, Keys, Counters, Amount, LimitNames
  <2>2. used.children < Limits.children
    BY <2>1 DEF PlaceKept
  <2> QED BY <2>1, <2>2, ChildrenOnly
<1> QED BY <1>1, <1>2, <1>3, SlicesInvariant, PTL DEF Spec

\* A slice is left only at rest.
THEOREM SlicesRest == Spec => AdvancesAtRest
<1>1. ASSUME SlicesInv, [Next]_vars, history' # history
      PROVE  /\ active = 0
             /\ posture.status \in {"running", "error"}
             /\ \/ posture.action \in {"diagnose", "wait"}
                \/ /\ posture.status = "running"
                   /\ posture.retries < Limits.retries /\ posture.noEvidence < Limits.noEvidence
             /\ ~posture.human /\ ~posture.declined
             /\ posture.transcript < Limits.transcript
             /\ posture.transcript - posture.saved < Limits.growth
             /\ \A k \in DOMAIN GoalLimits : totals[k] # Unknown /\ totals[k] < GoalLimits[k]
  <2>1. PICK r \in Requests : Advance(r)
    BY <1>1 DEF Next, Work, Spawn, ChildEnds, Measure, Observe, Prune, evidenceVars, vars
  <2>2. /\ active = 0 /\ ~posture.human /\ ~LimitReached(totals)
        /\ ~ContextPending(Goal) /\ Base(Goal).decision # "stop"
    BY <2>1, Crossing DEF Advance
  <2>3. posture \in PostureType /\ totals \in [Keys -> Amount]
    BY <1>1, PosturesAreTyped DEF SlicesInv, TypeOK
  <2> DEFINE task == Relaxed(Goal, Goal.action)
  <2>4. /\ task.declined = posture.declined
        /\ task.transcript = posture.transcript /\ task.saved = posture.saved
        /\ task.status = IF posture.action \in {"diagnose", "wait"} /\ posture.status = "error"
                         THEN "running" ELSE posture.status
        /\ posture.action \notin {"diagnose", "wait"} =>
             task.retries = posture.retries /\ task.noEvidence = posture.noEvidence
    BY DEF Relaxed, Blanked, Goal
  <2> HIDE DEF task
  <2>5. PolicyReasons(task, Limits) = {} /\ Base(Goal).decision # "checkpoint"
    BY <2>2 DEF Base, EvaluatePolicy, ContextPending, task
  <2>6. ~(task.transcript - task.saved >= Limits.growth)
    BY <2>5 DEF Base, EvaluatePolicy, task
  <2>7. /\ task.status \notin {"error", "completed", "halted"} /\ ~task.declined
        /\ ~(task["transcript"] >= Limits["transcript"])
        /\ ~(task["retries"] >= Limits["retries"])
        /\ ~(task["noEvidence"] >= Limits["noEvidence"])
    BY <2>5 DEF PolicyReasons
  <2>8. \A k \in DOMAIN GoalLimits : totals[k] # Unknown /\ totals[k] < GoalLimits[k]
    BY <2>2, <2>3, LimitsAreValid, StepsAreBounded DEF LimitReached, Amount
  <2> QED BY <2>2, <2>3, <2>4, <2>6, <2>7, <2>8, LimitsAreValid
          DEF PostureType, Statuses, LimitNames
<1> QED BY <1>1, SlicesInvariant, PTL DEF Spec, AdvancesAtRest

-----------------------------------------------------------------------------
(***************************************************************************)
(* Renewal is paid for: how much a goal does without new results.          *)
(***************************************************************************)

\* Work goes on only below both limits of the slice: nothing is held for its
\* context, so that a counter at its limit would have made a boundary.
LEMMA ContinuingBelow ==
  ASSUME EvaluateGoal(Goal).decision = "continue"
  PROVE  ~SliceReached(Goal)
<1>1. Decision(Goal) = "continue"
  BY DEF EvaluateGoal
<1>2. ~Boundary(Goal) /\ Held(Goal) = "continue"
  BY <1>1 DEF Decision
<1>3. Base(Goal).decision = "continue"
  BY <1>2 DEF Held
<1>4. Base(Goal).reasons = {}
  BY <1>3 DEF Base, EvaluatePolicy
<1>5. ~ContextPending(Goal)
  BY <1>3, <1>4 DEF ContextPending, ContextBlocked
<1> QED BY <1>2, <1>5 DEF Boundary

\* What the proofs use of the slice counters and their limits.
LEMMA SliceNumbers ==
  ASSUME SlicesInv
  PROVE  /\ \A c \in Counters : /\ used[c] \in Nat /\ baseline[c] \in Nat
                               /\ SliceMost[c] \in Nat
                               /\ Began(source)[c] \in Nat
                               /\ totals[c] = baseline[c] + used[c] /\ spent[c] = totals[c]
         /\ SliceMost["cycle"] = Limits.cycle + MaxStep - 1
         /\ SliceMost["children"] = Limits.children
         /\ Limits.cycle \in Nat /\ Limits.children \in Nat /\ MaxStep \in Nat \ {0}
         /\ Len(history) \in Nat
         /\ IsFiniteSet(accepted) /\ IsFiniteSet(evidence) /\ Cardinality(accepted) \in Nat
<1>1. ASSUME NEW c \in Counters
      PROVE  /\ used[c] \in Nat /\ baseline[c] \in Nat /\ Began(source)[c] \in Nat
             /\ totals[c] = baseline[c] + used[c] /\ spent[c] = totals[c]
  <2>1. c \in Keys /\ used[c] # Unknown /\ baseline[c] # Unknown
    BY DEF SlicesInv, CountersKnown, Keys
  <2>2. /\ used[c] \in Amount /\ baseline[c] \in Amount
        /\ totals[c] = Plus(baseline[c], used[c]) /\ baseline[c] + used[c] = spent[c]
    BY <2>1, TotalsByKey
  <2>3. used[c] \in Nat /\ baseline[c] \in Nat
    BY <2>1, <2>2 DEF Amount
  <2>4. Began(source)[c] \in Nat
    BY <2>1, BeganFacts DEF SlicesInv, TypeOK
  <2> QED BY <2>1, <2>2, <2>3, <2>4 DEF Plus
<1>2. Limits.cycle \in Nat /\ Limits.children \in Nat /\ MaxStep \in Nat \ {0}
  BY LimitsAreValid, StepsAreBounded DEF LimitNames
<1>3. /\ SliceMost["cycle"] = Limits.cycle + MaxStep - 1
      /\ SliceMost["children"] = Limits.children
  BY DEF SliceMost, Counters
<1>4. \A c \in Counters : SliceMost[c] \in Nat
  BY <1>2, <1>3 DEF Counters
<1>5. Len(history) \in Nat /\ accepted \subseteq Refs /\ evidence \subseteq Refs
  BY DEF SlicesInv, TypeOK
<1>6. IsFiniteSet(accepted) /\ IsFiniteSet(evidence)
  BY <1>5, RefsAreFinite, FS_Subset
<1>7. Cardinality(accepted) \in Nat
  BY <1>6, FS_CardinalityType
<1> QED BY <1>1, <1>2, <1>3, <1>4, <1>5, <1>6, <1>7

\* Nothing is used but by the v1 task, and no slice was renewed.
LEMMA PaidInit == Init => SlicesPaid
<1> SUFFICES ASSUME Init PROVE SlicesPaid
  OBVIOUS
<1>1. \A c \in Counters : used[c] = Began(source)[c]
  BY BeganFacts DEF Init
<1>2. history = <<>> /\ Len(history) = 0 /\ Cardinality(accepted) = 0
  BY FS_EmptySet DEF Init
<1> QED BY <1>1, <1>2 DEF SlicesPaid

\* Inside a slice only its own counters move.
LEMMA PaidInside ==
  ASSUME SlicesPaid, UNCHANGED <<baseline, accepted, history, source>>,
         \A c \in Counters : used'[c] = used[c] \/ used'[c] <= SliceMost[c]
  PROVE  SlicesPaid'
BY DEF SlicesPaid

\* A step of work starts below the cycle limit.
LEMMA PaidWork ==
  ASSUME SlicesInv, SlicesPaid,
         NEW n \in 1 .. MaxStep, NEW tokens \in 0 .. MaxStep, NEW found \in SUBSET Refs,
         Work(n, tokens, found)
  PROVE  SlicesPaid'
<1>1. ~SliceReached(Goal)
  BY ContinuingBelow DEF Work
<1>2. used.cycle < Limits.cycle
  <2>1. Goal.cycle = used.cycle
    BY DEF Goal
  <2>2. used.cycle \in Nat /\ Limits.cycle \in Nat
    BY SliceNumbers DEF Counters
  <2> QED BY <1>1, <2>1, <2>2 DEF SliceReached
<1>3. /\ Usage(n, tokens)["cycle"] = n /\ Usage(n, tokens)["children"] = 0
  BY ZeroFacts DEF Usage, Zero, Keys, Counters
<1>4. \A c \in Counters : used'[c] = used[c] + Usage(n, tokens)[c]
  BY DEF Work, Record, SlicesInv, CountersKnown, Keys
<1>5. used'["cycle"] <= SliceMost["cycle"] /\ used'["children"] = used["children"]
  <2>1. used'["cycle"] = used["cycle"] + n /\ used'["children"] = used["children"] + 0
    BY <1>3, <1>4 DEF Counters
  <2>2. /\ used["cycle"] \in Nat /\ used["children"] \in Nat
        /\ Limits.cycle \in Nat /\ MaxStep \in Nat /\ n \in Nat /\ n <= MaxStep
        /\ SliceMost["cycle"] = Limits.cycle + MaxStep - 1
    BY SliceNumbers DEF Counters
  <2> QED BY <1>2, <2>1, <2>2
<1>6. \A c \in Counters : used'[c] = used[c] \/ used'[c] <= SliceMost[c]
  BY <1>5 DEF Counters
<1> QED BY <1>6, PaidInside DEF Work, Record, auxVars

\* A child is spawned below the children limit.
LEMMA PaidSpawn ==
  ASSUME SlicesInv, SlicesPaid, Spawn
  PROVE  SlicesPaid'
<1>1. ~SliceReached(Goal)
  BY Spawning, ContinuingBelow DEF Spawn
<1>2. used.children < Limits.children
  <2>1. Goal.children = used.children
    BY DEF Goal
  <2>2. used.children \in Nat /\ Limits.children \in Nat
    BY SliceNumbers DEF Counters
  <2> QED BY <1>1, <2>1, <2>2 DEF SliceReached
<1>3. used'["children"] = used["children"] + 1 /\ used'["cycle"] = used["cycle"]
  BY DEF Spawn, Record, SlicesInv, TypeOK, Keys, Counters
<1>4. used'["cycle"] = used["cycle"] /\ used'["children"] <= SliceMost["children"]
  BY <1>2, <1>3, SliceNumbers DEF Counters
<1>5. \A c \in Counters : used'[c] = used[c] \/ used'[c] <= SliceMost[c]
  BY <1>4 DEF Counters
<1> QED BY <1>5, PaidInside DEF Spawn, Record, evidenceVars

\* What was used by the end of a slice is covered by the v1 task and by one
\* slice more than were renewed.
LEMMA CoveredSlices ==
  ASSUME SlicesInv, SlicesPaid, NEW c \in Counters
  PROVE  baseline[c] + used[c] <= Began(source)[c] + Len(history) * SliceMost[c] + SliceMost[c]
<1> DEFINE m == SliceMost[c]
           l == Len(history)
           b == baseline[c]
           u == used[c]
           a == Began(source)[c]
<1>1. m \in Nat /\ l \in Nat /\ b \in Nat /\ u \in Nat /\ a \in Nat
  BY SliceNumbers
<1>2. l * m \in Nat
  BY <1>1
<1>3. CASE history = <<>>
  <2>1. b = 0
    BY <1>3, ZeroFacts DEF SlicesInv, CheckpointValid, ValidBaseline, Keys
  <2>2. u <= m \/ u = a
    BY DEF SlicesPaid
  <2> HIDE DEF m, l, b, u, a
  <2> QED BY <1>1, <1>2, <2>1, <2>2 DEF m, l, b, u, a
<1>4. CASE history # <<>>
  <2>1. u <= m /\ b <= a + l * m
    BY <1>4 DEF SlicesPaid
  <2> HIDE DEF m, l, b, u, a
  <2>2. b + u <= a + l * m + m
    BY <1>1, <1>2, <2>1
  <2> QED BY <2>2 DEF m, l, b, u, a
<1> QED BY <1>3, <1>4

\* A new slice is paid for by a reference that was not accepted before, and
\* the baseline takes over what the old one used.
LEMMA PaidAdvance ==
  ASSUME SlicesInv, SlicesPaid, NEW r \in Requests, Advance(r)
  PROVE  SlicesPaid'
<1>1. Len(history') = Len(history) + 1
  BY Receipt
<1>2. PICK ref \in evidence : ref \notin accepted
  BY Crossing DEF Advance
<1>3. accepted' = accepted \cup evidence
  BY DEF Advance
<1>4. Cardinality(accepted) + 1 <= Cardinality(accepted')
  <2>1. /\ IsFiniteSet(accepted \cup {ref})
        /\ Cardinality(accepted \cup {ref}) = Cardinality(accepted) + 1
    BY <1>2, SliceNumbers, FS_AddElement
  <2>2. IsFiniteSet(accepted')
    BY <1>3, SliceNumbers, FS_Union
  <2>3. /\ Cardinality(accepted \cup {ref}) <= Cardinality(accepted')
    <3>1. accepted \cup {ref} \in SUBSET accepted'
      BY <1>2, <1>3
    <3> QED BY <2>2, <3>1, FS_Subset
  <2> QED BY <2>1, <2>3
<1>5. Cardinality(accepted') \in Nat
  BY <1>3, SliceNumbers, FS_Union, FS_CardinalityType
<1>6. used' = Zero /\ baseline' = totals
  BY DEF Advance, Restart
<1>7. ASSUME NEW c \in Counters
      PROVE  /\ used'[c] <= SliceMost[c]
             /\ baseline'[c] <= Began(source)'[c] + Len(history') * SliceMost[c]
  <2> DEFINE m == SliceMost[c]
             l == Len(history)
             b == baseline[c]
             u == used[c]
             a == Began(source)[c]
  <2>1. m \in Nat /\ l \in Nat /\ b \in Nat /\ u \in Nat /\ a \in Nat /\ totals[c] = b + u
    BY SliceNumbers
  <2>2. b + u <= a + l * m + m
    BY CoveredSlices
  <2>3. used'[c] = 0 /\ Began(source)' = Began(source)
    BY <1>6, ZeroFacts DEF Keys, Advance, Began
  <2>4. Len(history') = l + 1 /\ baseline'[c] = b + u
    BY <1>1, <1>6, <2>1
  <2> HIDE DEF m, l, b, u, a
  <2>5. (l + 1) * m = l * m + m /\ l * m \in Nat
    BY <2>1
  <2>6. b + u <= a + (l + 1) * m
    BY <2>1, <2>2, <2>5
  <2>7. used'[c] <= m /\ baseline'[c] <= a + Len(history') * m
    BY <2>1, <2>3, <2>4, <2>6
  <2> QED BY <2>3, <2>7 DEF m, a
<1>8. Len(history') <= Cardinality(accepted')
  BY <1>1, <1>4, <1>5, SliceNumbers DEF SlicesPaid
<1> QED BY <1>7, <1>8 DEF SlicesPaid

\* What covers the slices covers all that was spent.
LEMMA PaidBounds ==
  ASSUME SlicesInv, SlicesPaid
  PROVE  AutonomyBounded
<1> SUFFICES ASSUME NEW c \in Counters
             PROVE  spent[c] <= Began(source)[c] + (Cardinality(accepted) + 1) * SliceMost[c]
  BY DEF AutonomyBounded
<1> DEFINE m == SliceMost[c]
           l == Len(history)
           n == Cardinality(accepted)
           a == Began(source)[c]
<1>1. m \in Nat /\ l \in Nat /\ n \in Nat /\ a \in Nat /\ spent[c] \in Nat
  BY SliceNumbers
<1>2. l <= n
  BY DEF SlicesPaid
<1>3. spent[c] <= a + l * m + m
  BY SliceNumbers, CoveredSlices
<1> HIDE DEF m, l, n, a
<1>4. PICK d \in Nat : n = l + d
  <2>1. n - l \in Nat /\ n = l + (n - l)
    BY <1>1, <1>2
  <2> QED BY <2>1
<1>5. (n + 1) * m = l * m + d * m + m
  BY <1>1, <1>4
<1>6. d * m \in Nat /\ l * m \in Nat
  BY <1>1, <1>4
<1>7. spent[c] <= a + (n + 1) * m
  BY <1>1, <1>3, <1>5, <1>6
<1> QED BY <1>7 DEF a, n, m

\* However long a goal renews its own slices, what it used since new_goal is
\* covered by one slice more than it has accepted references: without new
\* evidence it stops.
THEOREM SlicesAutonomy == Spec => []AutonomyBounded
<1>1. Init => SlicesPaid
  BY PaidInit
<1>2. SlicesInv /\ SlicesPaid /\ [Next]_vars => SlicesPaid'
  <2> SUFFICES ASSUME SlicesInv, SlicesPaid, [Next]_vars PROVE SlicesPaid'
    OBVIOUS
  <2>1. CASE \E r \in Requests : Advance(r)
    BY <2>1, PaidAdvance
  <2>2. CASE \E n \in 1 .. MaxStep, tokens \in 0 .. MaxStep, found \in SUBSET Refs : Work(n, tokens, found)
    BY <2>2, PaidWork
  <2>3. CASE Spawn
    BY <2>3, PaidSpawn
  <2>4. CASE Measure
    <3>1. used'["cycle"] = used["cycle"] /\ used'["children"] = used["children"]
      BY <2>4 DEF Measure, Record, SlicesInv, TypeOK, Keys, Counters
    <3>2. UNCHANGED <<baseline, accepted, history, source>>
      BY <2>4 DEF Measure, Record, evidenceVars, auxVars
    <3> QED BY <3>1, <3>2, PaidInside DEF Counters
  <2>5. CASE UNCHANGED <<used, baseline, accepted, history, source>>
    BY <2>5 DEF SlicesPaid
  <2> QED BY <2>1, <2>2, <2>3, <2>4, <2>5
          DEF Next, ChildEnds, Observe, Prune, accountVars, evidenceVars, auxVars, vars
<1>3. SlicesInv /\ SlicesPaid => AutonomyBounded
  BY PaidBounds
<1> QED BY <1>1, <1>2, <1>3, SlicesInvariant, PTL DEF Spec

-----------------------------------------------------------------------------
(***************************************************************************)
(* The checkpoint implements what the store takes a checkpoint to be.      *)
(***************************************************************************)

RequestIds == [i \in DOMAIN history |-> history[i].request]

\* The checkpoint in the store's eyes.
LEMMA StoredFields ==
  /\ AsStored = [goal |-> "goal", history |-> RequestIds, ready |-> AutoContinue(Goal)]
  /\ AsStored # NoCheckpoint
  /\ Stored!Applied(AsStored) = {history[i].request : i \in DOMAIN history}
<1>1. AsStored = [goal |-> "goal", history |-> RequestIds, ready |-> AutoContinue(Goal)]
  BY DEF AsStored, RequestIds
<1>2. AsStored # NoCheckpoint
  <2>1. AsStored.goal = "goal" /\ NoCheckpoint.goal = "none"
    BY DEF AsStored, NoCheckpoint
  <2> QED BY <2>1
<1>3. AsStored.history = RequestIds
  BY <1>1
<1>4. Stored!Applied(AsStored) = Stored!ToSet(RequestIds)
  BY <1>2, <1>3 DEF Stored!Applied
<1>5. Stored!ToSet(RequestIds) = {history[i].request : i \in DOMAIN history}
  BY DEF Stored!ToSet, RequestIds
<1> QED BY <1>1, <1>2, <1>4, <1>5

\* A new receipt appends its request.
LEMMA RequestAppended ==
  ASSUME SlicesInv, NEW r \in Requests, Advance(r)
  PROVE  RequestIds' = Append(RequestIds, r)
<1> DEFINE n == Len(history) + 1
<1>1. /\ history \in Seq(Receipts) /\ n \in Nat
      /\ DOMAIN history = 1 .. Len(history) /\ Len(history) \in Nat
  BY DEF SlicesInv, TypeOK
<1>2. /\ DOMAIN history' = DOMAIN history \cup {n}
      /\ history'[n] = NewReceipt(r)
      /\ \A i \in DOMAIN history : history'[i] = history[i] /\ history[i] \in Receipts
  BY Receipt
<1>3. DOMAIN history' = 1 .. n
  BY <1>1, <1>2
<1>4. \A i \in 1 .. Len(history) : history'[i].request = RequestIds[i] /\ RequestIds[i] \in Requests
  BY <1>1, <1>2 DEF RequestIds, Receipts
<1>5. history'[n].request = r
  BY <1>2 DEF NewReceipt
<1>6. RequestIds \in Seq(Requests) /\ Len(RequestIds) = Len(history)
  BY <1>1, <1>4 DEF RequestIds
<1>7. /\ Append(RequestIds, r) \in [1 .. n -> Requests]
      /\ Append(RequestIds, r)[n] = r
      /\ \A i \in 1 .. Len(history) : Append(RequestIds, r)[i] = RequestIds[i]
  BY <1>6, AppendFacts
<1>8. RequestIds' = [i \in 1 .. n |-> history'[i].request]
  BY <1>3 DEF RequestIds
<1>9. \A i \in 1 .. n : history'[i].request = Append(RequestIds, r)[i]
  BY <1>1, <1>4, <1>5, <1>7
<1> QED BY <1>7, <1>8, <1>9

\* After an advance every reference is an accepted one, so that the new slice
\* is not ready, not even under a policy that allows a slice nothing.
LEMMA AdvanceIsTransition ==
  ASSUME SlicesInv, NEW r \in Requests, Advance(r)
  PROVE  Stored!Transition
<1>1. AutoContinue(Goal) = TRUE
  BY DEF Advance, EvaluateGoal, AutoContinue
<1>2. AutoContinue(Goal)' = FALSE
  <2>1. evidence' \ accepted' = {}
    BY DEF Advance
  <2>2. (Goal.evidence \ Goal.accepted)' = {}
    BY <2>1 DEF Goal
  <2> QED BY <2>2 DEF AutoContinue
<1>3. r \notin Stored!Applied(AsStored)
  BY StoredFields DEF Advance
<1>4. AsStored' = Stored!Advanced(AsStored, r)
  <2>1. AsStored' = [goal |-> "goal", history |-> RequestIds', ready |-> AutoContinue(Goal)']
    BY DEF AsStored, RequestIds
  <2>2. AsStored.goal = "goal" /\ AsStored.history = RequestIds
    BY StoredFields
  <2> QED BY <1>2, <2>1, <2>2, RequestAppended DEF Stored!Advanced
<1>5. AsStored.ready
  BY <1>1, StoredFields
<1> QED BY <1>3, <1>4, <1>5, StoredFields DEF Stored!Transition

\* A step that writes no receipt is an observation, or nothing the store sees.
LEMMA OtherStepsObserve ==
  ASSUME UNCHANGED history
  PROVE  Stored!Observe
<1>1. AutoContinue(Goal)' \in BOOLEAN
  BY DEF AutoContinue
<1>2. AsStored' = [AsStored EXCEPT !.ready = AutoContinue(Goal)']
  <2>1. AsStored' = [goal |-> "goal", history |-> RequestIds, ready |-> AutoContinue(Goal)']
    BY DEF AsStored, RequestIds
  <2> QED BY <2>1, StoredFields
<1> QED BY <1>1, <1>2, StoredFields DEF Stored!Observe

\* Under the evaluator and its host a checkpoint lives the life the store
\* takes for granted, for every policy: only a ready checkpoint is advanced,
\* by a request new to it, and its new slice is not ready.
THEOREM SlicesImplementStored == Spec => ImplementsStored
<1>1. Init => Stored!Published
  <2> SUFFICES ASSUME Init PROVE Stored!Published
    OBVIOUS
  <2>1. RequestIds = <<>>
    BY DEF Init, RequestIds
  <2>2. AutoContinue(Goal) \in BOOLEAN
    BY DEF AutoContinue
  <2>3. AsStored = [goal |-> "goal", history |-> <<>>, ready |-> AutoContinue(Goal)]
    BY <2>1, StoredFields
  <2>4. AsStored.history = <<>>
    BY <2>3
  <2>5. AsStored \in Stored!Checkpoints
    BY <2>2, <2>3 DEF Stored!Checkpoints
  <2>6. Stored!IsInjective(AsStored.history)
    BY <2>4 DEF Stored!IsInjective
  <2> QED BY <2>5, <2>6 DEF Stored!Published, Stored!Valid
<1>2. SlicesInv /\ [Next]_vars => [Stored!AbstractNext]_(Stored!abstractVars)
  <2>1. ASSUME SlicesInv, NEW r \in Requests, Advance(r) PROVE Stored!AbstractNext
    BY <2>1, AdvanceIsTransition DEF Stored!AbstractNext
  <2>2. ASSUME UNCHANGED history PROVE Stored!AbstractNext
    BY <2>2, OtherStepsObserve DEF Stored!AbstractNext
  <2> QED BY <2>1, <2>2
          DEF Next, Work, Spawn, ChildEnds, Measure, Observe, Prune, evidenceVars, vars
<1> QED BY <1>1, <1>2, SlicesInvariant, PTL DEF Spec, ImplementsStored, Stored!PublishedSpec
=============================================================================
