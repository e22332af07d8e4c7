SPECIFICATION Spec
CONSTANTS
  Limits <- MCLimits
  GoalLimits <- MCGoalLimits
  Reserve = 1
  Unknown = Unknown
  Evidence = {e1}
INVARIANTS
  OnlySlicesRelaxed
  StopsAreGoalWide
PROPERTIES
  NeverLoosens
CHECK_DEADLOCK FALSE
