SPECIFICATION Spec
CONSTANTS
  Limits <- MCLimits
  GoalLimits <- MCNoGoalLimits
  Reserve = 1
  Unknown = Unknown
  Gates = {g1}
  Actions = {a1, a2}
  Keys = {owner, retired}
  Pinned = {owner}
  None = None
  Times = {1, 2}
  Plans <- MCPlans
  MaxRecords = 2
SYMMETRY Symmetry
INVARIANTS
  TypeOK
  RefusalStands
  ApprovalClears
  LimitsLiftedInTime
  RevivedFromSlicesOnly
  MigrationAgrees
PROPERTIES
  WorkKeepsAuthority
CHECK_DEADLOCK FALSE
