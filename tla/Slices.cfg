SPECIFICATION Spec
CONSTANTS
  Limits <- MCLimits
  GoalLimits <- MCCycleLimit
  Reserve = 1
  Unknown = Unknown
  Refs = {e1, e2}
  Requests = {r1, r2}
  Postures <- WorkPostures
  StartTasks <- MCTasks
  MaxStep = 2
  MaxTokens = 1
SYMMETRY Symmetry
INVARIANTS
  TypeOK
  TotalsAreSpent
  CheckpointValid
  ReceiptsFresh
  AutonomyBounded
PROPERTIES
  TotalsNeverRegress
  ImplementsStored
