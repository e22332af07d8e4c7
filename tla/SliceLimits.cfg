SPECIFICATION Spec
CONSTANTS
  Limits <- MCLimitsWide
  GoalLimits <- MCGoalLimits
  Reserve = 1
  Unknown = Unknown
  Refs = {e1}
  Requests = {r1}
  Postures <- MCPostures
  StartTasks <- MCTasksWide
  MaxStep = 2
  MaxTokens = 4
INVARIANTS
  BudgetHolds
  ChildrenBounded
  ReviewerHasPlace
PROPERTIES
  AdvancesAtRest
