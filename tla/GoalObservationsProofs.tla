----------------------- MODULE GoalObservationsProofs -----------------------
(***************************************************************************)
(* Proofs about GoalObservations for every policy and every limit: what    *)
(* evaluate_goal says of any combination of observations.                  *)
(***************************************************************************)
EXTENDS GoalObservations, TLAPS

\* What the proofs need of a goal's observations.
Observed(g) ==
  /\ g.status \in Statuses /\ g.declined \in BOOLEAN /\ g.human \in BOOLEAN
  /\ g.cycle \in Nat /\ g.children \in Nat /\ g.active \in Nat
  /\ g.transcript \in Nat /\ g.saved \in Nat /\ g.retries \in Nat /\ g.noEvidence \in Nat
  /\ g.action \in ActionKinds /\ g.review \in BOOLEAN /\ g.nextStep \in BOOLEAN

\* The limits are numbers.
LEMMA LimitsAreNumbers ==
  /\ Limits["cycle"] \in Nat /\ Limits["transcript"] \in Nat
  /\ Limits["retries"] \in Nat /\ Limits["noEvidence"] \in Nat
  /\ Limits.cycle \in Nat /\ Limits.children \in Nat /\ Limits.concurrency \in Nat
  /\ Limits.growth \in Nat
BY LimitsAreValid DEF LimitNames

\* A record with these fields; EXCEPT at one of them leaves the others alone.
GoalType ==
  [status: Statuses, declined: BOOLEAN, human: BOOLEAN, cycle: Nat, children: Nat,
   active: Nat, transcript: Nat, saved: Nat, retries: Nat, noEvidence: Nat,
   action: ActionKinds, review: BOOLEAN, nextStep: BOOLEAN, evidence: SUBSET Evidence,
   accepted: SUBSET Evidence, totals: [DOMAIN GoalLimits -> Nat \cup {Unknown}]]

LEMMA GoalFields ==
  ASSUME NEW g \in GoalType
  PROVE  /\ Observed(g) /\ g.evidence \subseteq Evidence /\ g.accepted \subseteq Evidence
         /\ g.totals \in [DOMAIN GoalLimits -> Nat \cup {Unknown}]
BY DEF GoalType, Observed

LEMMA TypedInit == Init => goal \in GoalType
<1> SUFFICES ASSUME Init PROVE goal \in GoalType
  OBVIOUS
<1>1. {"running"} \subseteq Statuses /\ {FALSE} \subseteq BOOLEAN /\ {TRUE} \subseteq BOOLEAN /\ {0} \subseteq Nat
  BY DEF Statuses
<1>2. \A D : [D -> {0}] \subseteq [D -> Nat \cup {Unknown}]
  OBVIOUS
<1>3. [DOMAIN GoalLimits -> {0}] \subseteq [DOMAIN GoalLimits -> Nat \cup {Unknown}]
  BY <1>2
<1> QED BY <1>1, <1>3 DEF Init, GoalType

LEMMA TypedNext == goal \in GoalType /\ [Next]_goal => goal' \in GoalType
<1> SUFFICES ASSUME goal \in GoalType, Next PROVE goal' \in GoalType
  OBVIOUS
<1>0. /\ goal["cycle"] = goal.cycle /\ goal["children"] = goal.children
      /\ goal["transcript"] = goal.transcript /\ goal["retries"] = goal.retries
  BY DEF GoalType
<1>1. CASE Count
  <2>1. PICK f \in {"cycle", "children", "transcript", "retries"} :
          goal' = [goal EXCEPT ![f] = @ + 1]
    BY <1>1 DEF Count
  <2>2. goal[f] + 1 \in Nat
    BY <1>0, GoalFields DEF Observed
  <2>3. CASE f = "cycle"
    BY <2>1, <2>2, <2>3 DEF GoalType
  <2>4. CASE f = "children"
    BY <2>1, <2>2, <2>4 DEF GoalType
  <2>5. CASE f = "transcript"
    BY <2>1, <2>2, <2>5 DEF GoalType
  <2>6. CASE f = "retries"
    BY <2>1, <2>2, <2>6 DEF GoalType
  <2> QED BY <2>3, <2>4, <2>5, <2>6
<1>2. CASE OneMoreActive
  <2>1. goal.active + 1 \in Nat
    BY GoalFields DEF Observed
  <2> QED BY <1>2, <2>1 DEF OneMoreActive, GoalType
<1>3. CASE StatusChanges
  BY <1>3 DEF StatusChanges, GoalType
<1>4. CASE HumanObjects
  <2>1. goal' = [goal EXCEPT !["declined"] = TRUE] \/ goal' = [goal EXCEPT !["human"] = TRUE]
    BY <1>4 DEF HumanObjects
  <2> QED BY <2>1 DEF GoalType
<1>5. CASE TotalGrows
  <2>1. PICK k \in DOMAIN GoalLimits :
          /\ goal.totals[k] # Unknown
          /\ goal' = [goal EXCEPT !.totals[k] = @ + 1] \/ goal' = [goal EXCEPT !.totals[k] = Unknown]
    BY <1>5 DEF TotalGrows
  <2>2. goal.totals \in [DOMAIN GoalLimits -> Nat \cup {Unknown}]
    BY GoalFields
  <2>3. /\ [goal.totals EXCEPT ![k] = @ + 1] \in [DOMAIN GoalLimits -> Nat \cup {Unknown}]
        /\ [goal.totals EXCEPT ![k] = Unknown] \in [DOMAIN GoalLimits -> Nat \cup {Unknown}]
    BY <2>1, <2>2
  <2>4. CASE goal' = [goal EXCEPT !.totals[k] = @ + 1]
    BY <2>3, <2>4 DEF GoalType
  <2>5. CASE goal' = [goal EXCEPT !.totals[k] = Unknown]
    BY <2>3, <2>5 DEF GoalType
  <2> QED BY <2>1, <2>4, <2>5
<1>6. CASE NothingNew
  <2>1. goal.evidence \in SUBSET Evidence
    BY GoalFields
  <2>2. goal' = [goal EXCEPT !.nextStep = FALSE] \/ goal' = [goal EXCEPT !.accepted = goal.evidence]
    BY <1>6 DEF NothingNew
  <2> QED BY <2>1, <2>2 DEF GoalType
<1> QED BY <1>1, <1>2, <1>3, <1>4, <1>5, <1>6 DEF Next

\* What is observed has its type.
ObservationsType == goal \in GoalType

\* The observations have their types, in any order and number.
THEOREM ObservationsTyped == Spec => []ObservationsType
<1>1. Init => ObservationsType
  BY TypedInit DEF ObservationsType
<1>2. ObservationsType /\ [Next]_goal => ObservationsType'
  BY TypedNext DEF ObservationsType
<1> QED BY <1>1, <1>2, PTL DEF Spec

-----------------------------------------------------------------------------
(* What the evaluators say of one state.                                   *)

\* Where the goal's own stops or a base stop of another kind holds, the goal
\* stops.
LEMMA GoalWide ==
  ASSUME NEW g,
         \/ GoalStop(g)
         \/ /\ Base(g).decision = "stop"
            /\ ~(Base(g).reasons \subseteq ActionReasons)
  PROVE  EvaluateGoal(g) = [decision |-> "stop", scope |-> "goal",
                            spawn |-> FALSE, auto |-> FALSE]
<1>1. Held(g) = "stop"
  BY DEF Held, ActionReasons
<1>2. ~Boundary(g) /\ Decision(g) = "stop"
  BY <1>1 DEF Boundary, Decision
<1>3. Scope(g) = "goal"
  BY DEF Scope
<1> QED BY <1>2, <1>3 DEF EvaluateGoal, SpawnAllowed, AutoContinue

\* The base policy's answer is one of its three, given with its reasons.
LEMMA BaseSays ==
  ASSUME NEW g
  PROVE  LET stops == PolicyReasons(Relaxed(g, g.action), Limits)
         IN /\ stops # {} => Base(g).decision = "stop" /\ Base(g).reasons = stops
            /\ stops = {} => Base(g).decision \in {"checkpoint", "continue"}
            /\ Base(g).decision = "checkpoint" => Base(g).reasons = {"growth"}
            /\ Base(g).decision = "continue" => Base(g).reasons = {}
BY DEF Base, EvaluatePolicy

LEMMA StopsWide == StopsAreGoalWide
<1>1. ASSUME goal.human PROVE GoalStop(goal)
  BY <1>1 DEF GoalStop
<1>2. ASSUME NEW k \in DOMAIN GoalLimits, goal.totals[k] \in {GoalLimits[k], Unknown}
      PROVE  GoalStop(goal)
  <2>1. GoalLimits[k] \in Nat
    BY LimitsAreValid
  <2>2. LimitReached(goal.totals)
    BY <1>2, <2>1 DEF LimitReached
  <2> QED BY <2>2 DEF GoalStop
<1>3. ASSUME goal.declined \/ goal.status \in {"completed", "halted"}
      PROVE  Base(goal).decision = "stop" /\ ~(Base(goal).reasons \subseteq ActionReasons)
  <2> DEFINE r == Relaxed(goal, goal.action)
  <2>1. r.declined = goal.declined /\ (goal.status # "error" => r.status = goal.status)
    BY DEF Relaxed, Blanked
  <2>2. "human_gate" \in PolicyReasons(r, Limits) \/ "final_status" \in PolicyReasons(r, Limits)
    <3> HIDE DEF r
    <3> QED BY <1>3, <2>1 DEF PolicyReasons
  <2>3. "human_gate" \notin ActionReasons /\ "final_status" \notin ActionReasons
    BY DEF ActionReasons, ContextReasons
  <2> QED BY <2>2, <2>3, BaseSays
<1> QED BY <1>1, <1>2, <1>3, GoalWide DEF StopsAreGoalWide

\* A goal that continues has nothing in the base policy to stop for, no
\* slice counter at its limit and no goal limit reached.
LEMMA Continues ==
  ASSUME NEW g, Decision(g) = "continue"
  PROVE  /\ PolicyReasons(Relaxed(g, g.action), Limits) = {}
         /\ ~SliceReached(g) /\ ~ContextPending(g) /\ ~GoalStop(g) /\ ~Crowded(g)
<1>1. Held(g) = "continue" /\ ~Boundary(g) /\ ~GoalStop(g) /\ ~Crowded(g)
  BY DEF Decision, Held
<1>2. Base(g).decision = "continue"
  BY <1>1 DEF Held
<1>3. PolicyReasons(Relaxed(g, g.action), Limits) = {} /\ Base(g).reasons = {}
  BY <1>2, BaseSays
<1>4. ~ContextPending(g)
  BY <1>2, <1>3 DEF ContextPending, ContextBlocked
<1> QED BY <1>1, <1>3, <1>4 DEF Boundary

\* A reason for which the v1 policy stops the task remains one for the copy
\* that evaluate_goal makes of it, but for the counters and the failure it
\* blanks.
LEMMA ReasonsRemain ==
  ASSUME ObservationsType
  PROVE  PolicyReasons(goal, Limits) \subseteq
           PolicyReasons(Relaxed(goal, goal.action), Limits)
             \cup NotHeldUp(goal) \cup {"cycle", "children"}
<1> DEFINE r == Relaxed(goal, goal.action)
<1>1. /\ r.declined = goal.declined /\ r.transcript = goal.transcript
      /\ r.active = goal.active /\ (goal.status # "error" => r.status = goal.status)
      /\ goal.action \notin {"diagnose", "wait"} =>
           /\ r.status = goal.status /\ r.retries = goal.retries
           /\ r.noEvidence = goal.noEvidence
  BY DEF Relaxed, Blanked
<1> HIDE DEF r
<1>2. SUFFICES ASSUME NEW x \in PolicyReasons(goal, Limits),
                      x \notin PolicyReasons(r, Limits), x \notin {"cycle", "children"}
               PROVE  x \in NotHeldUp(goal)
  BY DEF r
<1>3. x \in {"error_status", "retries", "noEvidence"} /\ goal.action \in {"diagnose", "wait"}
  BY <1>1, <1>2 DEF PolicyReasons
<1> QED BY <1>3 DEF NotHeldUp

LEMMA SlicesRelaxed == ObservationsType => OnlySlicesRelaxed
<1> SUFFICES ASSUME ObservationsType PROVE OnlySlicesRelaxed
  OBVIOUS
<1> DEFINE reasons == PolicyReasons(goal, Limits)
           base == PolicyReasons(Relaxed(goal, goal.action), Limits)
<1>1. reasons \subseteq base \cup NotHeldUp(goal) \cup {"cycle", "children"}
  BY ReasonsRemain
<1>2. ASSUME Decision(goal) = "continue" PROVE reasons \subseteq NotHeldUp(goal)
  <2>1. base = {} /\ ~SliceReached(goal)
    BY <1>2, Continues
  <2>2. ~(goal["cycle"] >= Limits["cycle"]) /\ ~(goal.children > Limits.children)
    BY <2>1, GoalFields, LimitsAreNumbers DEF SliceReached, Observed, ObservationsType
  <2>3. "cycle" \notin reasons /\ "children" \notin reasons
    BY <2>2 DEF PolicyReasons
  <2> QED BY <1>1, <2>1, <2>3
<1>3. ASSUME Decision(goal) = "checkpoint" PROVE base \subseteq ContextReasons
  <2>1. Held(goal) # "stop"
    BY <1>3 DEF Decision
  <2>2. Base(goal).decision # "stop" \/ Base(goal).reasons \subseteq ContextReasons
    BY <2>1 DEF Held
  <2> QED BY <2>2, BaseSays
<1> QED BY <1>1, <1>2, <1>3 DEF OnlySlicesRelaxed, EvaluateGoal

-----------------------------------------------------------------------------
(* What the evaluators say after one more observation.                     *)

\* h is what g may be observed to be later: nothing that went wrong is undone.
Worse(g, h) ==
  /\ g.status = "running" \/ h.status = g.status
  /\ g.declined => h.declined
  /\ g.human => h.human
  /\ g.cycle <= h.cycle /\ g.children <= h.children /\ g.active <= h.active
  /\ g.transcript <= h.transcript /\ g.saved = h.saved
  /\ g.retries <= h.retries /\ g.noEvidence = h.noEvidence
  /\ h.action = g.action
  /\ h.review = g.review
  /\ h.nextStep => g.nextStep
  /\ g.evidence = h.evidence
  /\ \A k \in DOMAIN GoalLimits :
       (g.totals[k] = Unknown \/ g.totals[k] >= GoalLimits[k]) =>
         (h.totals[k] = Unknown \/ h.totals[k] >= GoalLimits[k])

\* Facts of Worse that are needed where it is not expanded.
LEMMA WorseFields ==
  ASSUME NEW g, NEW h, Worse(g, h)
  PROVE  h.action = g.action /\ (g.status = "running" \/ h.status = g.status)
<1>1. g.status = "running" \/ h.status = g.status
  BY DEF Worse
<1>2. h.action = g.action
  BY DEF Worse
<1> QED BY <1>1, <1>2

\* No reason of the base policy goes away.
LEMMA ReasonsStay ==
  ASSUME NEW g \in GoalType, NEW h \in GoalType, Worse(g, h)
  PROVE  /\ PolicyReasons(Relaxed(g, g.action), Limits) \subseteq
              PolicyReasons(Relaxed(h, h.action), Limits)
         /\ Relaxed(g, g.action).transcript = g.transcript
         /\ Relaxed(h, h.action).transcript = h.transcript
         /\ Relaxed(g, g.action).saved = g.saved
         /\ Relaxed(h, h.action).saved = h.saved
<1> DEFINE r == Relaxed(g, g.action)
           q == Relaxed(h, h.action)
<1>0. h.action = g.action /\ (g.status = "running" \/ h.status = g.status)
  BY WorseFields
<1>1. Observed(g) /\ Observed(h)
  BY GoalFields
<1>2. /\ r.transcript = g.transcript /\ q.transcript = h.transcript
      /\ r.saved = g.saved /\ q.saved = h.saved
      /\ r.declined = g.declined /\ q.declined = h.declined
      /\ r.active = g.active /\ q.active = h.active
      /\ r.cycle = 0 /\ q.cycle = 0 /\ r.children = 0 /\ q.children = 0
  BY DEF Relaxed, Blanked
<1>3. /\ r.status = "error" => q.status = "error"
      /\ r.status \in {"completed", "halted"} => q.status = r.status
  BY <1>0 DEF Relaxed, Blanked
<1>4. /\ r.retries \in Nat /\ q.retries \in Nat /\ r.retries <= q.retries
      /\ r.noEvidence \in Nat /\ q.noEvidence \in Nat /\ r.noEvidence <= q.noEvidence
  <2>1. CASE g.action \in {"diagnose", "wait"}
    <3>1. h.action \in {"diagnose", "wait"}
      BY <1>0, <2>1
    <3>2. r.retries = 0 /\ q.retries = 0 /\ r.noEvidence = 0 /\ q.noEvidence = 0
      BY <2>1, <3>1 DEF Relaxed, Blanked
    <3> QED BY <3>2
  <2>2. CASE g.action \notin {"diagnose", "wait"}
    <3>1. h.action \notin {"diagnose", "wait"}
      BY <1>0, <2>2
    <3>2. /\ r.retries = g.retries /\ q.retries = h.retries
          /\ r.noEvidence = g.noEvidence /\ q.noEvidence = h.noEvidence
      BY <2>2, <3>1 DEF Relaxed, Blanked
    <3> QED BY <1>1, <3>2 DEF Worse, Observed
  <2> QED BY <2>1, <2>2
<1> HIDE DEF r, q
<1>5. /\ r["cycle"] >= Limits["cycle"] => q["cycle"] >= Limits["cycle"]
      /\ r["transcript"] >= Limits["transcript"] => q["transcript"] >= Limits["transcript"]
      /\ r["retries"] >= Limits["retries"] => q["retries"] >= Limits["retries"]
      /\ r["noEvidence"] >= Limits["noEvidence"] => q["noEvidence"] >= Limits["noEvidence"]
      /\ r.active > Limits.concurrency => q.active > Limits.concurrency
  BY <1>1, <1>2, <1>4, LimitsAreNumbers DEF Worse, Observed
<1>6. r.declined => q.declined
  BY <1>2 DEF Worse
<1>7. r.children > Limits.children => q.children > Limits.children
  BY <1>2
<1>8. \A m \in {"cycle", "transcript", "retries", "noEvidence"} :
        r[m] >= Limits[m] => q[m] >= Limits[m]
  BY <1>5
<1>9. PolicyReasons(r, Limits) \subseteq PolicyReasons(q, Limits)
  BY <1>3, <1>5, <1>6, <1>7, <1>8 DEF PolicyReasons
<1> QED BY <1>2, <1>9 DEF r, q

\* The base decision does not loosen, and no context limit is forgotten.
LEMMA BaseStays ==
  ASSUME NEW g \in GoalType, NEW h \in GoalType, Worse(g, h)
  PROVE  /\ Base(g).decision = "stop" =>
              Base(h).decision = "stop" /\ Base(g).reasons \subseteq Base(h).reasons
         /\ Base(g).decision = "checkpoint" => Base(h).decision \in {"checkpoint", "stop"}
         /\ Base(g).decision \in {"continue", "checkpoint", "stop"}
         /\ Base(h).decision \in {"continue", "checkpoint", "stop"}
<1>1. PolicyReasons(Relaxed(g, g.action), Limits) \subseteq
        PolicyReasons(Relaxed(h, h.action), Limits)
  BY ReasonsStay
<1>2. g.transcript - g.saved >= Limits.growth => h.transcript - h.saved >= Limits.growth
  BY GoalFields, LimitsAreNumbers DEF Worse, Observed
<1>3. /\ Relaxed(g, g.action).transcript = g.transcript
      /\ Relaxed(h, h.action).transcript = h.transcript
      /\ Relaxed(g, g.action).saved = g.saved
      /\ Relaxed(h, h.action).saved = h.saved
  BY ReasonsStay
<1>4. ASSUME NEW x
      PROVE  /\ PolicyReasons(Relaxed(x, x.action), Limits) # {} => Base(x).decision = "stop"
             /\ PolicyReasons(Relaxed(x, x.action), Limits) = {} =>
                  Base(x).decision = IF Relaxed(x, x.action).transcript - Relaxed(x, x.action).saved >= Limits.growth
                                     THEN "checkpoint" ELSE "continue"
  BY DEF Base, EvaluatePolicy
<1>5. ASSUME NEW x, Base(x).decision = "stop"
      PROVE  Base(x).reasons = PolicyReasons(Relaxed(x, x.action), Limits)
  BY <1>5 DEF Base, EvaluatePolicy
<1>6. Base(g).decision = "stop" => PolicyReasons(Relaxed(g, g.action), Limits) # {}
  BY <1>4
<1>7. Base(g).decision = "stop" => Base(h).decision = "stop"
  BY <1>1, <1>4, <1>6
<1> QED BY <1>1, <1>2, <1>3, <1>4, <1>5, <1>7

\* What stopped the goal still stops it, a refusal or a final status by the
\* base policy.
LEMMA GoalStopStays ==
  ASSUME NEW g \in GoalType, NEW h \in GoalType, Worse(g, h), GoalStop(g)
  PROVE  GoalStop(h) \/ (Base(h).decision = "stop" /\ ~(Base(h).reasons \subseteq ContextReasons))
<1>1. CASE g.human
  BY <1>1 DEF Worse, GoalStop
<1>2. CASE LimitReached(g.totals)
  <2>1. LimitReached(h.totals)
    BY <1>2 DEF Worse, LimitReached
  <2> QED BY <2>1 DEF GoalStop
<1>3. CASE g.status = "completed"
  <2>1. h.status = "completed"
    BY <1>3 DEF Worse
  <2>2. Relaxed(h, h.action).status = "completed"
    BY <2>1 DEF Relaxed, Blanked
  <2>3. "final_status" \in PolicyReasons(Relaxed(h, h.action), Limits)
    BY <2>2 DEF PolicyReasons
  <2> QED BY <2>3, BaseSays DEF ContextReasons
<1> QED BY <1>1, <1>2, <1>3 DEF GoalStop

LEMMA SliceStays ==
  ASSUME NEW g \in GoalType, NEW h \in GoalType, Worse(g, h)
  PROVE  /\ SliceReached(g) => SliceReached(h)
         /\ Crowded(g) => Crowded(h)
<1>1. Observed(g) /\ Observed(h)
  BY GoalFields
<1> QED BY <1>1, LimitsAreNumbers DEF Worse, Observed, SliceReached, Crowded

\* A decision to stop stays one, and the context once blocked stays so.
LEMMA HeldStays ==
  ASSUME NEW g \in GoalType, NEW h \in GoalType, Worse(g, h)
  PROVE  /\ Held(g) = "stop" => Held(h) = "stop"
         /\ Held(g) = "checkpoint" => Held(h) \in {"checkpoint", "stop"}
         /\ ContextPending(g) => ContextPending(h) \/ Held(h) = "stop"
         /\ Held(g) \in {"continue", "checkpoint", "stop"}
         /\ Held(h) \in {"continue", "checkpoint", "stop"}
<1>1. ASSUME NEW x PROVE Base(x).decision \in {"continue", "checkpoint"} => ~ContextBlocked(x)
  BY BaseSays DEF ContextBlocked, ContextReasons
<1>2. ASSUME NEW x, GoalStop(x) \/ (Base(x).decision = "stop" /\ ~(Base(x).reasons \subseteq ContextReasons))
      PROVE  Held(x) = "stop"
  BY <1>2 DEF Held
<1>3. Base(g).decision = "stop" =>
        Base(h).decision = "stop" /\ Base(g).reasons \subseteq Base(h).reasons
  BY BaseStays
<1>4. /\ Base(g).decision \in {"continue", "checkpoint", "stop"}
      /\ Base(h).decision \in {"continue", "checkpoint", "stop"}
  BY BaseStays
<1>5. Held(g) \in {"continue", "checkpoint", "stop"} /\ Held(h) \in {"continue", "checkpoint", "stop"}
  BY <1>4 DEF Held
<1>6. ASSUME Held(g) = "stop" PROVE Held(h) = "stop"
  <2>1. CASE GoalStop(g)
    BY <1>2, <2>1, GoalStopStays
  <2>2. CASE ~GoalStop(g)
    <3>1. Base(g).decision = "stop" /\ ~(ContextBlocked(g) /\ Base(g).reasons \subseteq ContextReasons)
      BY <1>6, <2>2 DEF Held
    <3>2. Base(g).reasons # {}
      BY <3>1, BaseSays
    <3>3. ~(Base(g).reasons \subseteq ContextReasons)
      BY <3>1, <3>2 DEF ContextBlocked
    <3> QED BY <1>2, <1>3, <3>1, <3>3
  <2> QED BY <2>1, <2>2
<1>7. ASSUME ContextPending(g) PROVE ContextPending(h) \/ Held(h) = "stop"
  <2>1. CASE Base(g).decision = "stop"
    BY <1>3, <1>7, <2>1 DEF ContextPending, ContextBlocked
  <2>2. CASE Base(g).decision # "stop"
    <3>1. Base(g).decision = "checkpoint"
      BY <1>1, <1>4, <1>7, <2>2 DEF ContextPending
    <3>2. CASE Base(h).decision = "checkpoint"
      BY <3>2 DEF ContextPending
    <3>3. CASE Base(h).decision = "stop"
      BY <3>3 DEF Held, ContextPending
    <3> QED BY <3>1, <3>2, <3>3, BaseStays
  <2> QED BY <2>1, <2>2
<1>8. ASSUME Held(g) = "checkpoint" PROVE Held(h) \in {"checkpoint", "stop"}
  <2>1. ContextPending(g)
    BY <1>8 DEF Held, ContextPending
  <2>2. ContextPending(h) => Held(h) \in {"checkpoint", "stop"}
    BY <1>1, <1>4 DEF Held, ContextPending
  <2> QED BY <1>7, <2>1, <2>2
<1> QED BY <1>5, <1>6, <1>7, <1>8

\* One more observation gets nothing but worse.
LEMMA StepWorse ==
  ASSUME goal \in GoalType, goal' \in GoalType, Next
  PROVE  Worse(goal, goal')
<1>0. Observed(goal) /\ goal.totals \in [DOMAIN GoalLimits -> Nat \cup {Unknown}]
  BY GoalFields
<1>1. CASE Count
  <2>1. PICK f \in {"cycle", "children", "transcript", "retries"} :
          goal' = [goal EXCEPT ![f] = @ + 1]
    BY <1>1 DEF Count
  <2>2. CASE f = "cycle"
    BY <1>0, <2>1, <2>2 DEF Worse, GoalType, Observed
  <2>3. CASE f = "children"
    BY <1>0, <2>1, <2>3 DEF Worse, GoalType, Observed
  <2>4. CASE f = "transcript"
    BY <1>0, <2>1, <2>4 DEF Worse, GoalType, Observed
  <2>5. CASE f = "retries"
    BY <1>0, <2>1, <2>5 DEF Worse, GoalType, Observed
  <2> QED BY <2>2, <2>3, <2>4, <2>5
<1>2. CASE OneMoreActive
  BY <1>0, <1>2 DEF OneMoreActive, Worse, GoalType, Observed
<1>3. CASE StatusChanges
  BY <1>0, <1>3 DEF StatusChanges, Worse, GoalType, Observed
<1>4. CASE HumanObjects
  <2>1. goal' = [goal EXCEPT !["declined"] = TRUE] \/ goal' = [goal EXCEPT !["human"] = TRUE]
    BY <1>4 DEF HumanObjects
  <2> QED BY <1>0, <2>1 DEF Worse, GoalType, Observed
<1>5. CASE TotalGrows
  <2>1. PICK k \in DOMAIN GoalLimits :
          /\ goal.totals[k] # Unknown
          /\ goal' = [goal EXCEPT !.totals[k] = @ + 1] \/ goal' = [goal EXCEPT !.totals[k] = Unknown]
    BY <1>5 DEF TotalGrows
  <2>2. \A j \in DOMAIN GoalLimits : GoalLimits[j] \in Nat
    BY LimitsAreValid
  <2>3. \/ goal'.totals = [goal.totals EXCEPT ![k] = @ + 1]
        \/ goal'.totals = [goal.totals EXCEPT ![k] = Unknown]
    BY <2>1 DEF GoalType
  <2>4. \A j \in DOMAIN GoalLimits :
          (goal.totals[j] = Unknown \/ goal.totals[j] >= GoalLimits[j]) =>
            (goal'.totals[j] = Unknown \/ goal'.totals[j] >= GoalLimits[j])
    <3> DEFINE a == goal.totals
               b == goal'.totals
    <3>1. a \in [DOMAIN GoalLimits -> Nat \cup {Unknown}] /\ a[k] \in Nat
      BY <1>0, <2>1
    <3>2. /\ \A j \in DOMAIN GoalLimits : j # k => b[j] = a[j]
          /\ b[k] = Unknown \/ b[k] = a[k] + 1
      BY <2>3, <3>1
    <3> HIDE DEF a, b
    <3>3. \A j \in DOMAIN GoalLimits :
            (a[j] = Unknown \/ a[j] >= GoalLimits[j]) => (b[j] = Unknown \/ b[j] >= GoalLimits[j])
      <4> SUFFICES ASSUME NEW j \in DOMAIN GoalLimits, a[j] = Unknown \/ a[j] >= GoalLimits[j]
                   PROVE  b[j] = Unknown \/ b[j] >= GoalLimits[j]
        OBVIOUS
      <4>1. CASE j = k
        <5>1. a[k] >= GoalLimits[k] /\ GoalLimits[k] \in Nat
          BY <2>1, <2>2, <4>1 DEF a
        <5>2. a[k] + 1 >= GoalLimits[k]
          BY <3>1, <5>1
        <5> QED BY <3>2, <4>1, <5>2
      <4>2. CASE j # k
        BY <3>2, <4>2
      <4> QED BY <4>1, <4>2
    <3> QED BY <3>3 DEF a, b
  <2>5. /\ goal'.status = goal.status /\ goal'.declined = goal.declined
        /\ goal'.human = goal.human /\ goal'.cycle = goal.cycle
        /\ goal'.children = goal.children /\ goal'.active = goal.active
        /\ goal'.transcript = goal.transcript /\ goal'.saved = goal.saved
        /\ goal'.retries = goal.retries /\ goal'.noEvidence = goal.noEvidence
        /\ goal'.action = goal.action /\ goal'.review = goal.review
        /\ goal'.nextStep = goal.nextStep /\ goal'.evidence = goal.evidence
    BY <2>1 DEF GoalType
  <2> QED BY <1>0, <2>4, <2>5 DEF Worse, Observed
<1>6. CASE NothingNew
  <2>2. goal' = [goal EXCEPT !.nextStep = FALSE] \/ goal' = [goal EXCEPT !.accepted = goal.evidence]
    BY <1>6 DEF NothingNew
  <2> QED BY <1>0, <2>2 DEF Worse, GoalType, Observed
<1> QED BY <1>1, <1>2, <1>3, <1>4, <1>5, <1>6 DEF Next

\* The decision gets no looser.
LEMMA DecisionStays ==
  ASSUME NEW g \in GoalType, NEW h \in GoalType, Worse(g, h)
  PROVE  /\ Decision(g) = "stop" => Decision(h) = "stop"
         /\ Decision(g) = "checkpoint" => Decision(h) # "continue"
         /\ Decision(g) \in {"continue", "checkpoint", "stop"}
         /\ Decision(h) \in {"continue", "checkpoint", "stop"}
<1>1. Decision(g) \in {"continue", "checkpoint", "stop"} /\ Decision(h) \in {"continue", "checkpoint", "stop"}
  BY HeldStays DEF Decision
<1>2. Decision(g) = "stop" => Decision(h) = "stop"
  BY HeldStays, SliceStays DEF Decision, Boundary
<1>3. ASSUME Decision(g) = "checkpoint", Decision(h) = "continue" PROVE FALSE
  <2>1. Held(h) = "continue" /\ ~Boundary(h) /\ ~SliceReached(h) /\ ~ContextPending(h)
    BY <1>3, Continues DEF Decision
  <2>2. ~SliceReached(g)
    BY <2>1, SliceStays
  <2>3. Held(g) = "checkpoint"
    BY <1>3, <2>2 DEF Decision, Boundary
  <2> QED BY <2>1, <2>3, HeldStays
<1> QED BY <1>1, <1>2, <1>3

\* Where a child may be spawned now, it might have been before.
LEMMA SpawnStays ==
  ASSUME NEW g \in GoalType, NEW h \in GoalType, Worse(g, h), SpawnAllowed(h)
  PROVE  SpawnAllowed(g)
<1>1. Decision(g) = "continue"
  BY DecisionStays DEF SpawnAllowed
<1>2. Base(h).decision = "continue" /\ h.active < Limits.concurrency /\ 0 < Limits.children
  BY DEF SpawnAllowed, Base, EvaluatePolicy, Relaxed, Blanked
<1>3. Base(g).decision = "continue"
  BY <1>2, BaseStays
<1>4. g.active < Limits.concurrency
  BY <1>2, GoalFields, LimitsAreNumbers DEF Worse, Observed
<1>5. Base(g).spawn
  BY <1>2, <1>3, <1>4 DEF Base, EvaluatePolicy, Relaxed, Blanked
<1>6. h.action = g.action
  BY WorseFields
<1>7. h.review = g.review
  BY DEF Worse
<1> DEFINE kept == IF g.review /\ g.action # "review" THEN Reserve ELSE 0
<1>8. kept \in Nat /\ h.children < Limits.children - kept /\ g.action # "wait"
  BY <1>6, <1>7, LimitsAreValid DEF SpawnAllowed
<1> HIDE DEF kept
<1>9. g.children < Limits.children - kept
  BY <1>8, GoalFields, LimitsAreNumbers DEF Worse, Observed
<1> QED BY <1>1, <1>5, <1>8, <1>9 DEF SpawnAllowed, kept

\* A slice that renews itself now did so before, unless it had not ended.
LEMMA RenewalStays ==
  ASSUME NEW g \in GoalType, NEW h \in GoalType, Worse(g, h), g.accepted \subseteq h.accepted,
         AutoContinue(h)
  PROVE  AutoContinue(g) \/ Decision(g) = "continue"
<1>1. Boundary(h) /\ h.evidence \ h.accepted # {} /\ h.nextStep /\ h.active = 0 /\ ~Crowded(h)
  BY DEF AutoContinue
<1>2. Held(h) # "stop" /\ ~ContextPending(h)
  BY <1>1 DEF Boundary
<1>3. Held(g) # "stop" /\ ~ContextPending(g) /\ ~Crowded(g)
  BY <1>1, <1>2, HeldStays, SliceStays
<1>4. Held(g) \in {"continue", "checkpoint", "stop"}
  BY HeldStays
<1>5. g.active = 0
  BY <1>1, GoalFields DEF Worse, Observed
<1>6. g.nextStep /\ g.evidence \ g.accepted # {}
  <2>1. g.nextStep
    BY <1>1 DEF Worse
  <2>2. h.evidence = g.evidence
    BY DEF Worse
  <2> QED BY <1>1, <2>1, <2>2
<1>7. Held(g) = "continue"
  BY <1>3, <1>4 DEF Held, ContextPending
<1>8. CASE SliceReached(g)
  BY <1>3, <1>5, <1>6, <1>8 DEF AutoContinue, Boundary
<1>9. CASE ~SliceReached(g)
  BY <1>3, <1>7, <1>9 DEF Decision, Boundary
<1> QED BY <1>8, <1>9

\* Where a slice renews itself, what was accepted has not changed.
LEMMA StepAccepts ==
  ASSUME goal \in GoalType, Next, AutoContinue(goal')
  PROVE  goal'.accepted = goal.accepted
<1>1. CASE Count
  <2>1. PICK f \in {"cycle", "children", "transcript", "retries"} :
          goal' = [goal EXCEPT ![f] = @ + 1]
    BY <1>1 DEF Count
  <2>2. CASE f = "cycle"
    BY <2>1, <2>2 DEF GoalType
  <2>3. CASE f = "children"
    BY <2>1, <2>3 DEF GoalType
  <2>4. CASE f = "transcript"
    BY <2>1, <2>4 DEF GoalType
  <2>5. CASE f = "retries"
    BY <2>1, <2>5 DEF GoalType
  <2> QED BY <2>2, <2>3, <2>4, <2>5
<1>2. CASE OneMoreActive
  BY <1>2 DEF OneMoreActive, GoalType
<1>3. CASE StatusChanges
  BY <1>3 DEF StatusChanges, GoalType
<1>4. CASE HumanObjects
  <2>1. goal' = [goal EXCEPT !["declined"] = TRUE] \/ goal' = [goal EXCEPT !["human"] = TRUE]
    BY <1>4 DEF HumanObjects
  <2> QED BY <2>1 DEF GoalType
<1>5. CASE TotalGrows
  <2>1. PICK k \in DOMAIN GoalLimits :
          goal' = [goal EXCEPT !.totals[k] = @ + 1] \/ goal' = [goal EXCEPT !.totals[k] = Unknown]
    BY <1>5 DEF TotalGrows
  <2> QED BY <2>1 DEF GoalType
<1>6. CASE NothingNew
  <2>1. goal'.evidence \ goal'.accepted # {}
    BY DEF AutoContinue
  <2>2. CASE goal' = [goal EXCEPT !.nextStep = FALSE]
    BY <2>2 DEF GoalType
  <2>3. CASE goal' = [goal EXCEPT !.accepted = goal.evidence]
    <3>1. goal'.evidence = goal.evidence /\ goal'.accepted = goal.evidence
      BY <2>3 DEF GoalType
    <3> QED BY <2>1, <3>1
  <2> QED BY <1>6, <2>2, <2>3 DEF NothingNew
<1> QED BY <1>1, <1>2, <1>3, <1>4, <1>5, <1>6 DEF Next

LEMMA StepLoosensNothing ==
  ASSUME ObservationsType, ObservationsType', [Next]_goal
  PROVE  [LET before == EvaluateGoal(goal)
              after  == EvaluateGoal(goal')
          IN /\ Rank[before.decision] <= Rank[after.decision]
             /\ after.spawn => before.spawn
             /\ after.auto => before.auto \/ before.decision = "continue"]_goal
<1> SUFFICES ASSUME Next
             PROVE  /\ Rank[Decision(goal)] <= Rank[Decision(goal')]
                    /\ SpawnAllowed(goal') => SpawnAllowed(goal)
                    /\ AutoContinue(goal') => AutoContinue(goal) \/ Decision(goal) = "continue"
  BY DEF EvaluateGoal
<1>1. Worse(goal, goal') /\ goal \in GoalType /\ goal' \in GoalType
  BY StepWorse DEF ObservationsType
<1>2. Rank["continue"] = 0 /\ Rank["checkpoint"] = 1 /\ Rank["stop"] = 2
  BY DEF Rank
<1>3. Rank[Decision(goal)] <= Rank[Decision(goal')]
  BY <1>1, <1>2, DecisionStays
<1>4. SpawnAllowed(goal') => SpawnAllowed(goal)
  BY <1>1, SpawnStays
<1>5. AutoContinue(goal') => AutoContinue(goal) \/ Decision(goal) = "continue"
  BY <1>1, StepAccepts, RenewalStays
<1> QED BY <1>3, <1>4, <1>5

-----------------------------------------------------------------------------
(* Theorems.                                                               *)

\* Where evaluate_goal does not stop, evaluate_policy finds no more to stop for
\* than slice counters and context limits, which become a checkpoint, and a
\* failure that diagnosing or waiting does not repeat (the blanked policy of
\* evaluate_goal).
THEOREM ObservationsRelaxSlices == Spec => []OnlySlicesRelaxed
BY ObservationsTyped, SlicesRelaxed, PTL

\* A refusal, a final status, a requested human and a goal limit end the goal,
\* whatever is observed with them (the scope and reasons of evaluate_goal).
THEOREM ObservationsStopGoal == Spec => []StopsAreGoalWide
BY StopsWide, PTL

\* One more observation never loosens what evaluate_goal answers (the order of
\* its checks).
THEOREM ObservationsNeverLoosen == Spec => NeverLoosens
<1>1. Spec => []ObservationsType
  BY ObservationsTyped
<1>2. ObservationsType /\ ObservationsType' /\ [Next]_goal =>
        [LET before == EvaluateGoal(goal)
             after  == EvaluateGoal(goal')
         IN /\ Rank[before.decision] <= Rank[after.decision]
            /\ after.spawn => before.spawn
            /\ after.auto => before.auto \/ before.decision = "continue"]_goal
  BY StepLoosensNothing
<1> QED BY <1>1, <1>2, PTL DEF Spec, NeverLoosens
=============================================================================
